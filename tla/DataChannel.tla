---------------------------- MODULE DataChannel -----------------------------
(***************************************************************************)
(* aurora_data_channel_relayfifo.v, one board of the ring, beat by beat.   *)
(* The receiver reads the beats of rx0, keeps its own count of where a     *)
(* frame ends (rx0 has no tlast), and copies a frame to the local output,  *)
(* to the relay FIFO or to both; the transmitter sends the relay FIFO and  *)
(* the frames of this board's dispatcher over data_tx1, in turn.           *)
(***************************************************************************)
EXTENDS Naturals, Sequences

CONSTANTS
    Me,            \* board_id
    Totals,        \* the values total_boards takes, in order
    WireFrames,    \* headers of the frames the previous board may send
    LocalFrames,   \* headers of the frames this board may send
    NoiseWords,    \* headers nobody sent: single beats of noise, and payload read as one
    WireBudget, LocalBudget,
    FaultBudget,   \* how often rx0 brings noise or breaks a frame off
    Excess         \* beats by which a garbled local frame outlives its pkt_len

All == 99            \* 0xFFFF
Kinds == {"data", "last", "other", "ctrl"}   \* 0x13, 0x14, any other, Layer 3's
Header == [kind : Kinds, src : Nat, dest : Nat, len : Nat]

\* Beat i of the frame with header h; no tells apart frames with one header.
Beat == [h : Header, i : Nat, no : Nat]
NoBeat == [h |-> [kind |-> "other", src |-> All, dest |-> 0, len |-> 0], i |-> 0, no |-> 0]
Poison == [NoBeat EXCEPT !.i = 1]            \* POISON_TDATA

ASSUME ChannelAssumption ==
    /\ Me \in Nat /\ Totals \in Seq(Nat) /\ Len(Totals) > 0
    /\ WireFrames \subseteq Header /\ LocalFrames \subseteq Header
    /\ NoiseWords \subseteq Header
    /\ \A h \in WireFrames \cup LocalFrames : h.len # 0    \* pkt_len counts the header
    /\ {WireBudget, LocalBudget, FaultBudget, Excess} \subseteq Nat

VARIABLES
    assigned,   \* how many of Totals have been assigned; total_boards is the last
    rx,         \* "idle" or "data", rx_state
    remaining,  \* rx_remaining
    expect,     \* expect_ctrl_beat1
    cur,        \* cur_is_mine, cur_to_local, cur_to_relay, cur_is_last
    locked,     \* locked_r
    relay,      \* relay_fifo_0: beats with their tlast bit
    tx,         \* "idle", "relay", "local", "drain_relay", "drain_local"
    rrLocal,    \* rr_favor_local
    budget,     \* local_pkt_budget
    abort,      \* abort_local_pending
    local,      \* what async_fifo_aurora_tx holds of a frame: next beat, last beat
    arriving,   \* the frame on rx0: next beat, last beat
    sent,       \* history: the last beat put on data_tx1, with its tlast
    delivered,  \* history: the last beat given to the local output
    passed,     \* history: turns each side has been passed over while it waited
    misread,    \* history: payload of a refused frame was acted on as a header
    budgets     \* of the environment, by name

receiver == <<rx, remaining, expect, cur>>
transmitter == <<tx, rrLocal, budget, abort>>
history == <<sent, delivered, passed, misread>>
vars == <<assigned, receiver, locked, relay, transmitter, local, arriving, history, budgets>>

NoFrame == [beat |-> NoBeat, end |-> 0]
NotMine == [mine |-> FALSE, toLocal |-> FALSE, toRelay |-> FALSE, last |-> FALSE]

Init ==
    /\ assigned = 1
    /\ rx = "idle" /\ remaining = 0 /\ expect = FALSE /\ cur = NotMine
    /\ locked = FALSE
    /\ relay = <<>>
    /\ tx = "idle" /\ rrLocal = FALSE /\ budget = 0 /\ abort = FALSE
    /\ local = NoFrame /\ arriving = NoFrame
    /\ sent = [beat |-> NoBeat, tlast |-> TRUE] /\ delivered = NoBeat
    /\ passed = [relay |-> 0, local |-> 0] /\ misread = FALSE
    /\ budgets = [wire |-> WireBudget, local |-> LocalBudget, fault |-> FaultBudget]

-----------------------------------------------------------------------------
(* Decoding a header.                                                      *)

Total == Totals[assigned]       \* effective_max_boards
SrcValid(h) == h.src < Total
GateOk(h) == SrcValid(h) /\ (h.dest = All \/ h.dest < Total)

IsCtrl(h) == h.kind = "ctrl"
RingReturn(h) == h.dest = All /\ h.src = Me
ToLocal(h) == GateOk(h) /\ \/ h.dest = Me /\ ~IsCtrl(h)
                           \/ h.kind = "other" /\ h.dest = All /\ ~RingReturn(h)
ToRelay(h) == GateOk(h) /\ h.dest # Me /\ ~IsCtrl(h)
              /\ (h.kind = "other" => ~RingReturn(h))
Decoded(h) == [mine |-> GateOk(h) /\ ~IsCtrl(h), toLocal |-> ToLocal(h),
               toRelay |-> ToRelay(h), last |-> h.kind = "last"]

\* What the decoder makes of a beat: its header, or anything at all if the beat is
\* payload taken for a header.
Readings(b) == IF b.i = 1 THEN {b.h} ELSE WireFrames \cup NoiseWords
\* A beat of a frame the gate has refused that is not refused itself.
Misread(b, h) == ~GateOk(b.h) /\ ~IsCtrl(b.h) /\ (GateOk(h) \/ IsCtrl(h))

-----------------------------------------------------------------------------
(* The receiver.                                                           *)

Relayed(b, end) == Append(relay, [beat |-> b, tlast |-> end])
Unlocked(yes) == locked' = (locked /\ ~yes)

\* A header: the first beat after a frame the receiver has counted to its end.  A frame
\* the gate refuses is not counted: each of its later beats is a header again, and one
\* that passes the gate is copied; with pkt_len 0 it has neither tlast nor other beats.
\* (Variant: the second beat of a frame of Layer 3 is not expected.)
RxHeaderForgets(b) == \E h \in Readings(b) :
    /\ rx = "idle" /\ ~expect
    /\ cur' = Decoded(h)
    /\ expect' = FALSE
    /\ IF Decoded(h).mine /\ h.len > 1
         THEN rx' = "data" /\ remaining' = h.len - 1
         ELSE UNCHANGED <<rx, remaining>>
    /\ relay' = IF ToRelay(h) THEN Relayed(b, h.len = 1) ELSE relay
    /\ delivered' = IF ToLocal(h) THEN b ELSE delivered
    /\ Unlocked(h.kind = "last" /\ h.len = 1)
    /\ misread' = (misread \/ Misread(b, h))
RxHeader(b) == \E h \in Readings(b) :
    /\ rx = "idle" /\ ~expect
    /\ cur' = Decoded(h)
    /\ expect' = IsCtrl(h)
    /\ IF Decoded(h).mine /\ h.len > 1
         THEN rx' = "data" /\ remaining' = h.len - 1
         ELSE UNCHANGED <<rx, remaining>>
    /\ relay' = IF ToRelay(h) THEN Relayed(b, h.len = 1) ELSE relay
    /\ delivered' = IF ToLocal(h) THEN b ELSE delivered
    /\ Unlocked(h.kind = "last" /\ h.len = 1)
    /\ misread' = (misread \/ Misread(b, h))

\* The second beat of a frame of Layer 3.
RxCtrlBeat ==
    /\ rx = "idle" /\ expect
    /\ expect' = FALSE
    /\ UNCHANGED <<rx, remaining, cur, relay, delivered, locked, misread>>

RxData(b) ==
    /\ rx = "data"
    /\ remaining' = remaining - 1
    /\ rx' = IF remaining = 1 THEN "idle" ELSE "data"
    /\ relay' = IF cur.mine /\ cur.toRelay THEN Relayed(b, remaining = 1) ELSE relay
    /\ delivered' = IF cur.mine /\ cur.toLocal THEN b ELSE delivered
    /\ Unlocked(cur.mine /\ cur.last /\ remaining = 1)
    /\ UNCHANGED <<expect, cur, misread>>

Receive(b) ==
    /\ RxHeader(b) \/ RxCtrlBeat \/ RxData(b)
    /\ UNCHANGED <<assigned, transmitter, local, sent, passed>>

Spend(name) == budgets[name] > 0 /\ budgets' = [budgets EXCEPT ![name] = @ - 1]
Beats(h) == IF IsCtrl(h) THEN 2 ELSE h.len
Next1(f) == IF f.beat.i = f.end THEN NoFrame ELSE [f EXCEPT !.beat.i = @ + 1]

\* rx0: a frame begins, goes on, or is cut short by a poison beat; or noise.
RxFrame == \E h \in WireFrames :
    LET f == [beat |-> [h |-> h, i |-> 1, no |-> budgets.wire], end |-> Beats(h)]
    IN /\ arriving = NoFrame /\ Spend("wire")
       /\ Receive(f.beat) /\ arriving' = Next1(f)
RxBeat ==
    /\ arriving # NoFrame
    /\ Receive(arriving.beat) /\ arriving' = Next1(arriving)
    /\ UNCHANGED budgets
RxPoison ==
    /\ arriving # NoFrame /\ Spend("fault")
    /\ Receive(Poison) /\ arriving' = NoFrame
RxNoise == \E h \in NoiseWords :
    /\ arriving = NoFrame /\ ~GateOk(h) /\ Spend("fault")
    /\ Receive([h |-> h, i |-> 1, no |-> 0]) /\ UNCHANGED arriving

\* Layer 3 sets and clears the lock, and assigns total_boards.
LockReq == /\ ~locked /\ locked' = TRUE
           /\ UNCHANGED <<assigned, receiver, relay, transmitter, local, arriving, history,
                          budgets>>
UnlockReq == /\ locked /\ locked' = FALSE
             /\ UNCHANGED <<assigned, receiver, relay, transmitter, local, arriving, history,
                            budgets>>
Assign == /\ assigned < Len(Totals) /\ assigned' = assigned + 1
          /\ arriving = NoFrame
          /\ UNCHANGED <<locked, receiver, relay, transmitter, local, arriving, history,
                         budgets>>

-----------------------------------------------------------------------------
(* The transmitter.                                                        *)

HasRelay == relay # <<>>
LocalCanStart == local # NoFrame /\ ~locked
Rest == <<assigned, receiver, locked, arriving, delivered, misread>>

\* async_fifo_aurora_tx: the dispatcher writes a frame; a reset race may garble it.
LocalFrame == \E h \in LocalFrames, x \in {0, Excess} :
    /\ local = NoFrame /\ Spend("local")
    /\ local' = [beat |-> [h |-> h, i |-> 1, no |-> WireBudget + budgets.local],
                 end |-> h.len + x]
    /\ UNCHANGED <<Rest, relay, transmitter, sent, passed>>

\* TX_IDLE: frames of unknown boards are drained first, then the two sides take turns.
Reading(waiting, b) == IF waiting THEN Readings(b) ELSE {b.h}
RelayHead == IF HasRelay THEN relay[1].beat ELSE NoBeat

\* (Variant: the turn does not pass to the other side.)
GrantRelayAgain ==
    /\ HasRelay /\ (LocalCanStart => ~rrLocal)
    /\ tx' = "relay"
    /\ passed' = [relay |-> 0, local |-> passed.local + IF LocalCanStart THEN 1 ELSE 0]
    /\ UNCHANGED <<budget, rrLocal>>
GrantRelay ==
    /\ HasRelay /\ (LocalCanStart => ~rrLocal)
    /\ tx' = "relay"
    /\ rrLocal' = (LocalCanStart \/ rrLocal)
    /\ passed' = [relay |-> 0, local |-> passed.local + IF LocalCanStart THEN 1 ELSE 0]
    /\ UNCHANGED budget
GrantLocal(h) ==
    /\ LocalCanStart /\ (HasRelay => rrLocal)
    /\ tx' = "local" /\ budget' = h.len
    /\ rrLocal' = (rrLocal /\ ~HasRelay)
    /\ passed' = [local |-> 0, relay |-> passed.relay + IF HasRelay THEN 1 ELSE 0]

\* (Variant: a frame of an unknown board is held back, not drained.)
ChooseHolds == \E r \in Reading(HasRelay, RelayHead), l \in Reading(LocalCanStart, local.beat) :
    /\ tx = "idle" /\ ~abort
    /\ (HasRelay => SrcValid(r)) /\ (LocalCanStart => SrcValid(l))
    /\ GrantRelay \/ GrantLocal(l)
    /\ UNCHANGED <<Rest, relay, abort, local, sent, budgets>>
Choose == \E r \in Reading(HasRelay, RelayHead), l \in Reading(LocalCanStart, local.beat) :
    /\ tx = "idle" /\ ~abort
    /\ \/ /\ HasRelay /\ ~SrcValid(r)
          /\ tx' = "drain_relay" /\ UNCHANGED <<rrLocal, budget, passed>>
       \/ /\ HasRelay => SrcValid(r)
          /\ LocalCanStart /\ ~SrcValid(l)
          /\ tx' = "drain_local" /\ budget' = l.len /\ UNCHANGED <<rrLocal, passed>>
       \/ /\ HasRelay => SrcValid(r)
          /\ LocalCanStart => SrcValid(l)
          /\ GrantRelay \/ GrantLocal(l)
    /\ UNCHANGED <<Rest, relay, abort, local, sent, budgets>>

\* TX_RELAY and TX_DRAIN: the relay FIFO up to the tlast bit.
SendRelay ==
    /\ tx = "relay" /\ HasRelay
    /\ relay' = Tail(relay) /\ sent' = relay[1]
    /\ tx' = IF relay[1].tlast THEN "idle" ELSE tx
    /\ UNCHANGED <<Rest, rrLocal, budget, abort, local, passed, budgets>>
DrainRelay ==
    /\ tx = "drain_relay" /\ HasRelay
    /\ relay' = Tail(relay)
    /\ tx' = IF relay[1].tlast THEN "idle" ELSE tx
    /\ UNCHANGED <<Rest, rrLocal, budget, abort, local, sent, passed, budgets>>

\* TX_LOCAL and TX_DRAIN: this board's frame up to its tlast, or until it has had as
\* many beats as its header announced.
TakeLocal == local' = Next1(local)
LocalLast == local.beat.i = local.end
OverBudget == ~LocalLast /\ budget <= 1
SendLocal ==
    /\ tx = "local" /\ local # NoFrame
    /\ TakeLocal /\ sent' = [beat |-> local.beat, tlast |-> LocalLast]
    /\ tx' = IF LocalLast \/ OverBudget THEN "idle" ELSE tx
    /\ abort' = OverBudget
    /\ budget' = IF LocalLast \/ OverBudget THEN budget ELSE budget - 1
    /\ UNCHANGED <<Rest, relay, rrLocal, passed, budgets>>
DrainLocal ==
    /\ tx = "drain_local" /\ local # NoFrame
    /\ TakeLocal
    /\ tx' = IF LocalLast \/ OverBudget THEN "idle" ELSE tx
    /\ budget' = IF LocalLast \/ OverBudget THEN budget ELSE budget - 1
    /\ UNCHANGED <<Rest, relay, rrLocal, abort, sent, passed, budgets>>

\* The poison beat closes the frame that was given up.
SendPoison ==
    /\ abort /\ abort' = FALSE
    /\ sent' = [beat |-> Poison, tlast |-> TRUE]
    /\ UNCHANGED <<Rest, relay, tx, rrLocal, budget, local, passed, budgets>>

Transmit == Choose \/ SendRelay \/ DrainRelay \/ SendLocal \/ DrainLocal \/ SendPoison

Next == \/ RxFrame \/ RxBeat \/ RxPoison \/ RxNoise
        \/ LockReq \/ UnlockReq \/ Assign
        \/ LocalFrame \/ Transmit

\* data_tx1 is ready again and again; the previous board ends what it began.
Fairness == WF_vars(Transmit) /\ WF_vars(RxBeat)

Spec == Init /\ [][Next]_vars
LiveSpec == Spec /\ Fairness
-----------------------------------------------------------------------------
TypeOK ==
    /\ assigned \in 1..Len(Totals)
    /\ rx \in {"idle", "data"} /\ remaining \in Nat /\ expect \in BOOLEAN
    /\ cur \in [mine : BOOLEAN, toLocal : BOOLEAN, toRelay : BOOLEAN, last : BOOLEAN]
    /\ locked \in BOOLEAN
    /\ relay \in Seq([beat : Beat, tlast : BOOLEAN])
    /\ tx \in {"idle", "relay", "local", "drain_relay", "drain_local"}
    /\ rrLocal \in BOOLEAN /\ budget \in Nat /\ abort \in BOOLEAN
    /\ local \in [beat : Beat, end : Nat] /\ arriving \in [beat : Beat, end : Nat]
    /\ sent \in [beat : Beat, tlast : BOOLEAN] /\ delivered \in Beat
    /\ passed \in [relay : Nat, local : Nat] /\ misread \in BOOLEAN
    /\ budgets \in [wire : Nat, local : Nat, fault : Nat]

\* Frames leave whole: on data_tx1 a frame starts with its header after the tlast of
\* the one before and goes on with its own next beat, and the local output gets each
\* frame from its header to its last beat with nothing of another in between.  For the
\* frames of this board that holds whatever comes in on rx0; for the others as long as
\* no noise came, no frame was cut and no payload of a refused frame passed for a header.
\* Only a frame of this board that is longer than its
\* header says is given up.  A beat the gate refuses where a header is due is neither
\* relayed nor delivered, and the receiver does not count beats after it.
Clean == budgets.fault = FaultBudget /\ ~misread
Own(b) == b.no > WireBudget
Follows(b, a) == b.h = a.h /\ b.no = a.no /\ b.i = a.i + 1
SentWhole ==
    sent' # sent /\ (IF Own(sent'.beat) THEN local.end = local.beat.h.len
                                        ELSE Clean /\ sent'.beat # Poison) =>
        /\ IF sent.tlast THEN sent'.beat.i = 1 ELSE Follows(sent'.beat, sent.beat)
        /\ sent'.tlast <=> sent'.beat.i = sent'.beat.h.len
DeliveredWhole ==
    delivered' # delivered /\ Clean' =>
        IF delivered.i = delivered.h.len THEN delivered'.i = 1 ELSE Follows(delivered', delivered)
OnlyGarbledGivenUp == abort' /\ ~abort => local.end > local.beat.h.len
RefusedIgnored == budgets'.fault # budgets.fault /\ arriving = NoFrame /\ rx = "idle" =>
                      UNCHANGED <<rx, relay, delivered>>
FramesWhole == [][SentWhole /\ DeliveredWhole /\ OnlyGarbledGivenUp /\ RefusedIgnored]_vars

\* Neither side waits for more than one frame of the other once it could start.
FairTurns == passed.relay <= 1 /\ passed.local <= 1

\* Whatever enters the relay FIFO leaves it, and whatever this board sends is sent
\* unless the lock holds it back or the port waits for the rest of a frame that rx0 has
\* broken off or that was never one: no frame of an unknown board and no garbled one
\* keeps the port for ever.
AllLeave == /\ HasRelay ~> ~HasRelay
            /\ local # NoFrame ~> (local = NoFrame \/ locked \/ (~Clean /\ tx \in {"relay", "drain_relay"}))
=============================================================================
