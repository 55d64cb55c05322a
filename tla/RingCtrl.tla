------------------------------ MODULE RingCtrl ------------------------------
(***************************************************************************)
(* Layer 3 of the Aurora ring: the control channel of every board          *)
(* (aurora_ctrl_channel.v), the beat 0 gate in front of it, and the part   *)
(* of Layer 2 (aurora_data_channel_relayfifo.v) it talks to: the lock, the *)
(* busy flag, and the relaying of the two data frames that matter to it.   *)
(*                                                                         *)
(* Board b's tx1/rx1 is cabled to board Succ(b)'s rx0/tx0.  Forward beats  *)
(* travel in fLink[b] from b to Succ(b), backward ones in bLink[b] from b  *)
(* to Pred(b).  Each board runs on its own aurora_clk, so the boards'      *)
(* steps interleave.  A control frame is two beats, a header (beat 0) and  *)
(* a payload (beat 1), which the transmitter reads from its slot at two    *)
(* different moments: a slot overwritten in between sends a torn frame.    *)
(***************************************************************************)
EXTENDS Integers, Sequences, FiniteSets

CONSTANTS
    N,          \* number of boards cabled into the ring
    Master,     \* the board with is_master set; its USB port carries the host
    GroupSel,   \* group_select values the host triggers with
    HostDests,  \* board ids the host passes to a reservation or a DIAG
    AckWidth,   \* width of the ack_bitmask register
    Manual,     \* manual_total_boards_in, 0 when unset
    Budget,     \* how often each host command or fault may happen
    QuickDrain, \* TRUE: a slot drains before the next frame reaches the board
    Paced       \* TRUE: the host leaves the ring time to settle between commands

Board == 0..N-1
Bcast == 65535
Id == 0..Bcast-1
\* board_id of a board that T_BOARD_ID_ASSIGN has not reached.
Unassigned == Bcast - 1
HostOps == {"init", "assign", "trig", "reserve", "diag", "stream", "down", "reset"}

ASSUME BoardAssumption == N \in Nat /\ N >= 2 /\ N <= 16 /\ Master \in Board
ASSUME HostAssumption == /\ GroupSel \subseteq 0..15
                         /\ HostDests \subseteq Id
                         /\ Budget \in [HostOps -> Nat]
ASSUME WidthAssumption == AckWidth \in 1..16 /\ Manual \in 0..16
ASSUME ModeAssumption == QuickDrain \in BOOLEAN /\ Paced \in BOOLEAN

Succ(b) == (b + 1) % N
Pred(b) == (b + N - 1) % N
\* Hops a forward frame of the master makes to reach b.
Dist(b) == (b + N - Master) % N

FwdTypes == {"ENUM_COUNT", "PAUSE_REQ", "GO", "RESERVE_REQ", "DIAG_REQ"}
BwdTypes == {"PAUSE_ACK", "RESERVE_ACK", "DIAG_ACK"}
DataTypes == {"DATA_LAST", "BOARD_ID_ASSIGN"}
Word == 0..511
Beat == [type : FwdTypes \cup BwdTypes \cup DataTypes \cup {"PAYLOAD", "NONE"},
         src : Id, dest : 0..Bcast, pl : Word]

Frame(type, src, dest, pl) == [type |-> type, src |-> src, dest |-> dest, pl |-> pl]
NoFrame == Frame("NONE", 0, 0, 0)
Header(f) == [f EXCEPT !.pl = 0]
Payload(f) == Frame("PAYLOAD", 0, 0, f.pl)
\* The low bits of a beat taken as a payload: for a header, those of dest_id.
Bits(beat) == IF beat.type = "PAYLOAD" THEN beat.pl ELSE beat.dest % 512
Low4(beat) == Bits(beat) % 16
BitOn(beat, k) == (Bits(beat) \div k) % 2 = 1
Bit(x, k) == IF x THEN k ELSE 0

VARIABLES
    fwd, fwdPending, ftxBeat1,    \* forward slot, and "beat 0 is already on the wire"
    bwd, bwdPending, btxBeat1,    \* backward slot, likewise
    fLink, bLink, up,             \* beats in flight and channel_up of each cable
    frx, brx,                     \* latched header of the frame being received
    locked, busy, relayQ,         \* Layer 2: lock, TX_LOCAL, relay FIFO
    boardIndex, boardId, totalIn, \* enumeration result, and what T_BOARD_ID_ASSIGN set
    total, initOk, enumWait,      \* master: enumeration
    ackMask, ackCount, goSent, waiting, pendGroup, goTx,  \* master: trigger
    resWait, resDest, resOk,      \* master: reservation
    diagWait, diagDest, diagRes,  \* master: break-point diagnosis
    fires, bypassed, goLog,       \* history: fires of GOs and local ones, GOs decided
    budget

fwdSlot == <<fwd, fwdPending, ftxBeat1>>
bwdSlot == <<bwd, bwdPending, btxBeat1>>
layer2 == <<locked, busy, relayQ>>
ids == <<boardIndex, boardId, totalIn>>
enumVars == <<total, initOk, enumWait>>
trigVars == <<ackMask, ackCount, goSent, waiting, pendGroup, goTx>>
resVars == <<resWait, resDest, resOk>>
diagVars == <<diagWait, diagDest, diagRes>>
masterVars == <<enumVars, trigVars, resVars, diagVars>>
hist == <<fires, bypassed, goLog>>
links == <<fLink, bLink, up>>
vars == <<fwdSlot, bwdSlot, links, frx, brx, layer2, ids, masterVars, hist, budget>>

NoDiag == [ok |-> FALSE, up0 |-> FALSE, up1 |-> FALSE, blocked |-> FALSE, from |-> 0]

Init ==
    /\ fwd = [b \in Board |-> NoFrame] /\ bwd = [b \in Board |-> NoFrame]
    /\ fwdPending = [b \in Board |-> FALSE] /\ bwdPending = [b \in Board |-> FALSE]
    /\ ftxBeat1 = [b \in Board |-> FALSE] /\ btxBeat1 = [b \in Board |-> FALSE]
    /\ fLink = [b \in Board |-> <<>>] /\ bLink = [b \in Board |-> <<>>]
    /\ up = [b \in Board |-> TRUE]
    /\ frx = [b \in Board |-> NoFrame] /\ brx = [b \in Board |-> NoFrame]
    /\ locked = [b \in Board |-> FALSE] /\ busy = [b \in Board |-> FALSE]
    /\ relayQ = [b \in Board |-> <<>>]
    /\ boardIndex = [b \in Board |-> 0]
    \* The host has made the master board 0 over USB before it numbers the ring.
    /\ boardId = [b \in Board |-> IF b = Master THEN 0 ELSE Unassigned]
    /\ totalIn = [b \in Board |-> 0]
    /\ total = 0 /\ initOk = FALSE /\ enumWait = FALSE
    /\ ackMask = {} /\ ackCount = 0 /\ goSent = FALSE /\ waiting = FALSE
    /\ pendGroup = 0 /\ goTx = FALSE
    /\ resWait = FALSE /\ resDest = 0 /\ resOk = FALSE
    /\ diagWait = FALSE /\ diagDest = 0 /\ diagRes = NoDiag
    /\ fires = [b \in Board |-> <<>>] /\ bypassed = <<>> /\ goLog = <<>>
    /\ budget = Budget

-----------------------------------------------------------------------------
(* Slots, locks and the host's commands.                                   *)

\* A later assignment to the 1-deep slot overwrites an unsent frame.
QueueFwd(b, f) == /\ fwd' = [fwd EXCEPT ![b] = f]
                  /\ fwdPending' = [fwdPending EXCEPT ![b] = TRUE]
                  /\ UNCHANGED ftxBeat1
QueueBwd(b, f) == /\ bwd' = [bwd EXCEPT ![b] = f]
                  /\ bwdPending' = [bwdPending EXCEPT ![b] = TRUE]
                  /\ UNCHANGED btxBeat1
\* (Variant: the lock wire is missing.)
SetLockNever(b, on) == UNCHANGED layer2
SetLock(b, on) == locked' = [locked EXCEPT ![b] = on] /\ UNCHANGED <<busy, relayQ>>

\* Hops by which a board delays its fire so that the last board catches up.
\* (Variant: the board itself counted as a hop.)
NativeHopsLong(b) == IF totalIn[b] >= boardIndex[b] + 1 THEN totalIn[b] - boardIndex[b] ELSE 0
NativeHops(b) == IF totalIn[b] >= boardIndex[b] + 1 THEN totalIn[b] - 1 - boardIndex[b] ELSE 0

TotalEff == IF Manual # 0 THEN Manual ELSE total

\* Variants that miscount the boards: one ACK short, or waiting for the master's own.
GoReadyEarly == /\ waiting /\ ~goSent /\ TotalEff > 0
                /\ ackCount >= TotalEff - 2 /\ ~fwdPending[Master]
GoReadySelf == /\ waiting /\ ~goSent /\ TotalEff > 0
               /\ ackCount = TotalEff /\ ~fwdPending[Master]
GoReady ==
    /\ waiting /\ ~goSent /\ TotalEff > 0
    /\ ackCount = TotalEff - 1
    /\ ~fwdPending[Master]

\* Nothing is queued, in flight or half received, and no GO is about to go.
RingQuiet ==
    /\ ~GoReady
    /\ \A b \in Board : /\ ~fwdPending[b] /\ ~bwdPending[b]
                        /\ fLink[b] = <<>> /\ bLink[b] = <<>> /\ relayQ[b] = <<>>
                        /\ frx[b] = NoFrame /\ brx[b] = NoFrame /\ ~busy[b]

Spend(op) == budget[op] > 0 /\ budget' = [budget EXCEPT ![op] = @ - 1]
Command(op) == Spend(op) /\ (Paced => RingQuiet)

InitStart ==
    /\ Command("init")
    /\ total' = 0 /\ initOk' = FALSE
    /\ IF up[Pred(Master)] /\ up[Master]
         THEN /\ QueueFwd(Master, Frame("ENUM_COUNT", 0, boardId[Master], 0))
              /\ enumWait' = TRUE
         ELSE UNCHANGED <<fwdSlot, enumWait>>
    /\ UNCHANGED <<bwdSlot, links, frx, brx, layer2, ids, trigVars, resVars, diagVars, hist>>

EnumTimeout ==
    /\ enumWait
    /\ enumWait' = FALSE /\ initOk' = FALSE
    /\ UNCHANGED <<total, fwdSlot, bwdSlot, links, frx, brx, layer2, ids,
                   trigVars, resVars, diagVars, hist, budget>>

\* Alone in the ring, or with no partner on tx1: fire locally, no handshake.
TrigBypass(g) ==
    /\ TotalEff = 1 \/ ~up[Master]
    /\ bypassed' = Append(bypassed, g)
    /\ goSent' = TRUE
    /\ UNCHANGED <<ackMask, ackCount, waiting, pendGroup, goTx, fires, goLog, fwdSlot, layer2>>

TrigHandshake(g) ==
    /\ TotalEff # 1 /\ up[Master]
    /\ QueueFwd(Master, Frame("PAUSE_REQ", boardId[Master], Bcast, 0))
    /\ SetLock(Master, TRUE)
    /\ ackMask' = {} /\ ackCount' = 0 /\ goSent' = FALSE
    /\ waiting' = TRUE /\ pendGroup' = g
    /\ UNCHANGED <<goTx, hist>>

TrigStart ==
    /\ Command("trig")
    /\ \E g \in GroupSel : TrigBypass(g) \/ TrigHandshake(g)
    /\ UNCHANGED <<bwdSlot, links, frx, brx, ids, enumVars, resVars, diagVars>>

ReserveStart ==
    /\ Command("reserve")
    /\ IF ~up[Master]
         THEN resOk' = FALSE /\ UNCHANGED <<resWait, resDest, fwdSlot>>
         ELSE \E d \in HostDests :
                /\ QueueFwd(Master, Frame("RESERVE_REQ", boardId[Master], d, 0))
                /\ resWait' = TRUE /\ resDest' = d /\ UNCHANGED resOk
    /\ UNCHANGED <<bwdSlot, links, frx, brx, layer2, ids, enumVars, trigVars, diagVars, hist>>

ReserveTimeout ==
    /\ resWait
    /\ resWait' = FALSE /\ resOk' = FALSE
    /\ UNCHANGED <<resDest, fwdSlot, bwdSlot, links, frx, brx, layer2, ids,
                   enumVars, trigVars, diagVars, hist, budget>>

\* A DIAG command while one is running or the slot is in use is ignored.
DiagStart ==
    /\ Command("diag")
    /\ ~diagWait /\ ~fwdPending[Master]
    /\ \E d \in HostDests :
         /\ diagDest' = d
         /\ \/ /\ d = boardId[Master]
               /\ diagRes' = [ok |-> TRUE, up0 |-> up[Pred(Master)], up1 |-> up[Master],
                              blocked |-> FALSE, from |-> d]
               /\ UNCHANGED <<diagWait, fwdSlot>>
            \/ /\ d # boardId[Master] /\ ~up[Master]
               /\ diagRes' = [diagRes EXCEPT !.ok = FALSE]
               /\ UNCHANGED <<diagWait, fwdSlot>>
            \/ /\ d # boardId[Master] /\ up[Master]
               /\ QueueFwd(Master, Frame("DIAG_REQ", boardId[Master], d, 0))
               /\ diagWait' = TRUE /\ UNCHANGED diagRes
    /\ UNCHANGED <<bwdSlot, links, frx, brx, layer2, ids, enumVars, trigVars, resVars, hist>>

DiagTimeout ==
    /\ diagWait
    /\ diagWait' = FALSE /\ diagRes' = [diagRes EXCEPT !.ok = FALSE]
    /\ UNCHANGED <<diagDest, fwdSlot, bwdSlot, links, frx, brx, layer2, ids,
                   enumVars, trigVars, resVars, hist, budget>>

\* All ACKs are in: the master unlocks itself and queues the GO.
SendGo ==
    /\ GoReady
    /\ QueueFwd(Master, Frame("GO", boardId[Master], Bcast, pendGroup))
    /\ SetLock(Master, FALSE)
    /\ waiting' = FALSE /\ goSent' = TRUE /\ goTx' = TRUE
    /\ goLog' = Append(goLog, pendGroup)
    /\ UNCHANGED <<bwdSlot, links, frx, brx, ids, enumVars, ackMask, ackCount, pendGroup,
                   resVars, diagVars, fires, bypassed, budget>>

-----------------------------------------------------------------------------
(* Transmitters.  FTX_IDLE with a pending frame and FTX_BEAT0 both mean    *)
(* that no beat of the frame has been accepted; ftxBeat1 is FTX_BEAT1.     *)

FwdTxBeat0(b) ==
    /\ fwdPending[b] /\ ~ftxBeat1[b] /\ up[b]
    /\ fLink' = [fLink EXCEPT ![b] = Append(@, Header(fwd[b]))]
    /\ ftxBeat1' = [ftxBeat1 EXCEPT ![b] = TRUE]
    /\ UNCHANGED <<fwd, fwdPending, bwdSlot, bLink, up, frx, brx, layer2, ids,
                   masterVars, hist, budget>>

\* The master fires for its own GO when the last beat of a forward frame leaves.
\* (Variant: trig_go_tx_pending is never cleared.)
MasterFiresAgain(b) ==
    /\ fires' = IF b = Master /\ goTx THEN [fires EXCEPT ![b] = Append(@, pendGroup)] ELSE fires
    /\ UNCHANGED goTx
MasterFires(b) ==
    IF b = Master /\ goTx
      THEN fires' = [fires EXCEPT ![b] = Append(@, pendGroup)] /\ goTx' = FALSE
      ELSE UNCHANGED <<fires, goTx>>

FwdTxBeat1(b) ==
    /\ ftxBeat1[b] /\ up[b]
    /\ fLink' = [fLink EXCEPT ![b] = Append(@, Payload(fwd[b]))]
    /\ ftxBeat1' = [ftxBeat1 EXCEPT ![b] = FALSE]
    /\ fwdPending' = [fwdPending EXCEPT ![b] = FALSE]
    /\ MasterFires(b)
    /\ UNCHANGED <<fwd, bwdSlot, bLink, up, frx, brx, layer2, ids, enumVars, ackMask,
                   ackCount, goSent, waiting, pendGroup, resVars, diagVars, bypassed, goLog, budget>>

BwdTxBeat0(b) ==
    /\ bwdPending[b] /\ ~btxBeat1[b] /\ up[Pred(b)]
    /\ bLink' = [bLink EXCEPT ![b] = Append(@, Header(bwd[b]))]
    /\ btxBeat1' = [btxBeat1 EXCEPT ![b] = TRUE]
    /\ UNCHANGED <<bwd, bwdPending, fwdSlot, fLink, up, frx, brx, layer2, ids,
                   masterVars, hist, budget>>

BwdTxBeat1(b) ==
    /\ btxBeat1[b] /\ up[Pred(b)]
    /\ bLink' = [bLink EXCEPT ![b] = Append(@, Payload(bwd[b]))]
    /\ btxBeat1' = [btxBeat1 EXCEPT ![b] = FALSE]
    /\ bwdPending' = [bwdPending EXCEPT ![b] = FALSE]
    /\ UNCHANGED <<bwd, fwdSlot, fLink, up, frx, brx, layer2, ids, masterVars, hist, budget>>

-----------------------------------------------------------------------------
(* Forward receiver.                                                       *)

\* aurora_rx_beat0_gate: until T_BOARD_ID_ASSIGN arrives, at most 4 boards.
EffMax(b) == IF totalIn[b] # 0 THEN totalIn[b] ELSE 4
GateOk(b, h) == h.src < EffMax(b) /\ (h.dest = Bcast \/ h.dest < EffMax(b))

RoomAt(b) == QuickDrain => ~fwdPending[b] /\ ~bwdPending[b]
FwdHead(b) == Head(fLink[Pred(b)])
PopFwd(b) == fLink' = [fLink EXCEPT ![Pred(b)] = Tail(@)] /\ UNCHANGED <<bLink, up>>

\* FRX_IDLE: a header of ours that passes the gate is latched; anything else
\* that is not a data frame is ignored.
RxHeader(b) ==
    /\ fLink[Pred(b)] # <<>> /\ frx[b] = NoFrame /\ FwdHead(b).type \notin DataTypes
    /\ PopFwd(b)
    /\ IF FwdHead(b).type \in FwdTypes /\ GateOk(b, FwdHead(b))
         THEN frx' = [frx EXCEPT ![b] = FwdHead(b)]
         ELSE UNCHANGED frx
    /\ UNCHANGED <<fwdSlot, bwdSlot, brx, layer2, ids, masterVars, hist, budget>>

\* FRX_BEAT1: whatever beat comes next is the payload of the latched header.
RxPayload(b, type) ==
    /\ fLink[Pred(b)] # <<>> /\ frx[b].type = type /\ RoomAt(b)
    /\ PopFwd(b)
    /\ frx' = [frx EXCEPT ![b] = NoFrame]

\* The counter after this station.  (Variant: not counted.)
CountedNot(beat) == Low4(beat)
Counted(beat) == Low4(beat) + 1

RxEnum(b) ==
    /\ RxPayload(b, "ENUM_COUNT")
    /\ LET count == Counted(FwdHead(b)) IN
         IF frx[b].dest = boardId[b]
           THEN /\ total' = count /\ initOk' = TRUE /\ enumWait' = FALSE
                /\ UNCHANGED <<boardIndex, fwdSlot>>
           ELSE /\ boardIndex' = [boardIndex EXCEPT ![b] = count]
                /\ QueueFwd(b, [frx[b] EXCEPT !.pl = count % 16])
                /\ UNCHANGED enumVars
    /\ UNCHANGED <<bwdSlot, brx, layer2, boardId, totalIn, trigVars, resVars, diagVars, hist, budget>>

\* A broadcast is back at the board that sent it.  (Variant: it goes round again.)
RingReturnMissed(b) == FALSE
RingReturn(b) == frx[b].src = boardId[b]

RxPauseReq(b) ==
    /\ RxPayload(b, "PAUSE_REQ")
    /\ SetLock(b, TRUE)
    /\ IF RingReturn(b) THEN UNCHANGED fwdSlot ELSE QueueFwd(b, [frx[b] EXCEPT !.pl = 0])
    /\ IF b # Master
         THEN QueueBwd(b, Frame("PAUSE_ACK", boardId[b], frx[b].src, boardIndex[b]))
         ELSE UNCHANGED bwdSlot
    /\ UNCHANGED <<brx, ids, masterVars, hist, budget>>

RxGo(b) ==
    /\ RxPayload(b, "GO")
    /\ SetLock(b, FALSE)
    /\ LET g == Low4(FwdHead(b)) IN
         IF RingReturn(b)
           THEN UNCHANGED <<fires, fwdSlot>>
           ELSE /\ fires' = [fires EXCEPT ![b] = Append(@, g)]
                /\ QueueFwd(b, [frx[b] EXCEPT !.pl = g])
    /\ UNCHANGED <<bwdSlot, brx, ids, masterVars, bypassed, goLog, budget>>

\* What a board needs to start a local data frame: no lock, no other frame, a
\* cable, and a source inside the ring (frames of others are drained).
CanStream(b) == ~locked[b] /\ ~busy[b] /\ up[b] /\ boardId[b] < EffMax(b)

\* lock_req is registered, and the lock again: Layer 2 holds back two clocks
\* after the check, and a local frame may start in between.
\* (Variant: the lock wire is missing.)
LockAfterCheckNever(b) == UNCHANGED <<layer2, budget>>
LockAfterCheck(b) ==
    /\ locked' = [locked EXCEPT ![b] = TRUE] /\ UNCHANGED relayQ
    /\ \/ UNCHANGED <<busy, budget>>
       \/ CanStream(b) /\ Spend("stream") /\ busy' = [busy EXCEPT ![b] = TRUE]

RxReserveReq(b) ==
    /\ RxPayload(b, "RESERVE_REQ")
    /\ \/ /\ busy[b]
          /\ QueueBwd(b, Frame("RESERVE_ACK", boardId[b], frx[b].src, 0))
          /\ UNCHANGED <<fwdSlot, layer2, budget>>
       \/ /\ ~busy[b] /\ frx[b].dest = boardId[b]
          /\ LockAfterCheck(b)
          /\ QueueBwd(b, Frame("RESERVE_ACK", boardId[b], frx[b].src, 1))
          /\ UNCHANGED fwdSlot
       \/ /\ ~busy[b] /\ frx[b].dest # boardId[b]
          /\ LockAfterCheck(b)
          /\ QueueFwd(b, [frx[b] EXCEPT !.pl = 0])
          /\ UNCHANGED bwdSlot
    /\ UNCHANGED <<brx, ids, masterVars, hist>>

\* DIAG_ACK payload: target, channel_up_0, channel_up_1, relay_blocked, index.
\* (Variant: relay_blocked inverted.)
DiagAckInverted(b, target) ==
    Frame("DIAG_ACK", boardId[b], frx[b].src,
          Bit(target, 1) + Bit(up[Pred(b)], 2) + Bit(up[b], 4) + Bit(target, 8)
            + 16 * boardIndex[b])
DiagAck(b, target) ==
    Frame("DIAG_ACK", boardId[b], frx[b].src,
          Bit(target, 1) + Bit(up[Pred(b)], 2) + Bit(up[b], 4) + Bit(~target, 8)
            + 16 * boardIndex[b])

RxDiagReq(b) ==
    /\ RxPayload(b, "DIAG_REQ")
    /\ \/ /\ frx[b].dest = boardId[b]
          /\ QueueBwd(b, DiagAck(b, TRUE))
          /\ UNCHANGED <<fwdSlot, diagVars>>
       \/ /\ frx[b].dest # boardId[b] /\ RingReturn(b)
          /\ diagWait' = FALSE
          /\ diagRes' = IF diagWait THEN [diagRes EXCEPT !.ok = FALSE] ELSE diagRes
          /\ UNCHANGED <<fwdSlot, bwdSlot, diagDest>>
       \/ /\ frx[b].dest # boardId[b] /\ ~RingReturn(b) /\ ~up[b]
          /\ QueueBwd(b, DiagAck(b, FALSE))
          /\ UNCHANGED <<fwdSlot, diagVars>>
       \/ /\ frx[b].dest # boardId[b] /\ ~RingReturn(b) /\ up[b]
          /\ QueueFwd(b, [frx[b] EXCEPT !.pl = 0])
          /\ UNCHANGED <<bwdSlot, diagVars>>
    /\ UNCHANGED <<brx, layer2, ids, enumVars, trigVars, resVars, hist, budget>>

-----------------------------------------------------------------------------
(* Backward receiver.                                                      *)

BwdHead(b) == Head(bLink[Succ(b)])
PopBwd(b) == bLink' = [bLink EXCEPT ![Succ(b)] = Tail(@)] /\ UNCHANGED <<fLink, up>>

RxBackHeader(b) ==
    /\ bLink[Succ(b)] # <<>> /\ brx[b] = NoFrame
    /\ PopBwd(b)
    /\ IF BwdHead(b).type \in BwdTypes /\ GateOk(b, BwdHead(b))
         THEN brx' = [brx EXCEPT ![b] = BwdHead(b)]
         ELSE UNCHANGED brx
    /\ UNCHANGED <<fwdSlot, bwdSlot, frx, layer2, ids, masterVars, hist, budget>>

RxBackPayload(b) ==
    /\ bLink[Succ(b)] # <<>> /\ brx[b] # NoFrame /\ RoomAt(b)
    /\ PopBwd(b)
    /\ brx' = [brx EXCEPT ![b] = NoFrame]

RxBackRelay(b) ==
    /\ RxBackPayload(b)
    /\ brx[b].dest # boardId[b]
    /\ QueueBwd(b, [brx[b] EXCEPT !.pl = Bits(BwdHead(b))])
    /\ UNCHANGED <<fwdSlot, frx, layer2, ids, masterVars, hist, budget>>

\* An index beyond the bitmask reads an undefined bit: the ACK may or may not
\* be counted, and the write to the missing bit is lost.
RxPauseAck(b) ==
    /\ RxBackPayload(b)
    /\ brx[b].dest = boardId[b] /\ brx[b].type = "PAUSE_ACK"
    /\ LET i == Low4(BwdHead(b)) IN
         \/ /\ i < AckWidth /\ i \notin ackMask
            /\ ackMask' = ackMask \cup {i} /\ ackCount' = (ackCount + 1) % 32
         \/ /\ i >= AckWidth
            /\ ackCount' = (ackCount + 1) % 32 /\ UNCHANGED ackMask
         \/ /\ i >= AckWidth \/ i \in ackMask
            /\ UNCHANGED <<ackMask, ackCount>>
    /\ UNCHANGED <<fwdSlot, bwdSlot, frx, layer2, ids, enumVars, goSent, waiting, pendGroup,
                   goTx, resVars, diagVars, hist, budget>>

RxReserveAck(b) ==
    /\ RxBackPayload(b)
    /\ brx[b].dest = boardId[b] /\ brx[b].type = "RESERVE_ACK"
    /\ resWait' = FALSE
    /\ resOk' = IF resWait THEN BitOn(BwdHead(b), 1) ELSE resOk
    /\ UNCHANGED <<fwdSlot, bwdSlot, frx, layer2, ids, enumVars, trigVars, resDest,
                   diagVars, hist, budget>>

RxDiagAck(b) ==
    /\ RxBackPayload(b)
    /\ brx[b].dest = boardId[b] /\ brx[b].type = "DIAG_ACK"
    /\ diagWait' = FALSE
    /\ diagRes' = IF diagWait
                    THEN [ok |-> TRUE, up0 |-> BitOn(BwdHead(b), 2),
                          up1 |-> BitOn(BwdHead(b), 4), blocked |-> BitOn(BwdHead(b), 8),
                          from |-> brx[b].src]
                    ELSE diagRes
    /\ UNCHANGED <<fwdSlot, bwdSlot, frx, layer2, ids, enumVars, trigVars, resVars,
                   diagDest, hist, budget>>

-----------------------------------------------------------------------------
(* Layer 2: data frames, relayed through the relay FIFO past the slots.    *)

\* board_cfg_reg: the enumeration's board_index becomes the board_id.
TakeId(b, n) ==
    /\ boardId' = [boardId EXCEPT ![b] = boardIndex[b]]
    /\ totalIn' = [totalIn EXCEPT ![b] = n]
    /\ UNCHANGED boardIndex

\* The host broadcasts T_BOARD_ID_ASSIGN once the ring is numbered.
Assign ==
    /\ Command("assign")
    /\ initOk /\ ~locked[Master] /\ up[Master]
    /\ TakeId(Master, total)
    /\ fLink' = [fLink EXCEPT ![Master] =
                   Append(@, Frame("BOARD_ID_ASSIGN", boardId[Master], Bcast, total))]
    /\ UNCHANGED <<fwdSlot, bwdSlot, bLink, up, frx, brx, layer2, masterVars, hist>>

\* A lock stops a board from starting a local data frame, not from ending one.
StreamStart(b) ==
    /\ Spend("stream") /\ CanStream(b)
    /\ busy' = [busy EXCEPT ![b] = TRUE]
    /\ UNCHANGED <<fwdSlot, bwdSlot, links, frx, brx, locked, relayQ, ids, masterVars, hist>>

StreamEnd(b) ==
    /\ busy[b] /\ up[b] /\ ~ftxBeat1[b]
    /\ busy' = [busy EXCEPT ![b] = FALSE]
    /\ \E d \in Board \ {boardId[b]} :
         fLink' = [fLink EXCEPT ![b] = Append(@, Frame("DATA_LAST", boardId[b], d, 0))]
    /\ UNCHANGED <<fwdSlot, bwdSlot, bLink, up, frx, brx, locked, relayQ, ids, masterVars,
                   hist, budget>>

\* A frame addressed elsewhere goes to the relay FIFO, unless it came full circle.
Relayed(b, h) == IF h.dest = boardId[b] \/ (h.dest = Bcast /\ h.src = boardId[b])
                   THEN relayQ
                   ELSE [relayQ EXCEPT ![b] = Append(@, h)]

\* The last frame of a stream passing rx0 unlocks the board it passes.
RxDataLast(b) ==
    /\ fLink[Pred(b)] # <<>> /\ frx[b] = NoFrame /\ FwdHead(b).type = "DATA_LAST"
    /\ PopFwd(b)
    /\ IF GateOk(b, FwdHead(b))
         THEN /\ locked' = [locked EXCEPT ![b] = FALSE]
              /\ relayQ' = Relayed(b, FwdHead(b))
         ELSE UNCHANGED <<locked, relayQ>>
    /\ UNCHANGED <<fwdSlot, bwdSlot, frx, brx, busy, ids, masterVars, hist, budget>>

RxAssign(b) ==
    /\ fLink[Pred(b)] # <<>> /\ frx[b] = NoFrame /\ FwdHead(b).type = "BOARD_ID_ASSIGN"
    /\ PopFwd(b)
    /\ IF GateOk(b, FwdHead(b)) /\ FwdHead(b).src # boardId[b]
         THEN /\ TakeId(b, FwdHead(b).pl % 32)
              /\ relayQ' = Relayed(b, FwdHead(b))
         ELSE UNCHANGED <<ids, relayQ>>
    /\ UNCHANGED <<fwdSlot, bwdSlot, frx, brx, locked, busy, masterVars, hist, budget>>

RelayTx(b) ==
    /\ relayQ[b] # <<>> /\ up[b] /\ ~ftxBeat1[b]
    /\ fLink' = IF Head(relayQ[b]).src < EffMax(b)
                  THEN [fLink EXCEPT ![b] = Append(@, Head(relayQ[b]))]
                  ELSE fLink
    /\ relayQ' = [relayQ EXCEPT ![b] = Tail(@)]
    /\ UNCHANGED <<fwdSlot, bwdSlot, bLink, up, frx, brx, locked, busy, ids, masterVars,
                   hist, budget>>

-----------------------------------------------------------------------------
(* Faults.                                                                 *)

\* The aurora_clk modules of board b start over; what T_BOARD_ID_ASSIGN set
\* survives in the sys_clk domain.
ResetBoard(b) ==
    /\ fwdPending' = [fwdPending EXCEPT ![b] = FALSE]
    /\ bwdPending' = [bwdPending EXCEPT ![b] = FALSE]
    /\ ftxBeat1' = [ftxBeat1 EXCEPT ![b] = FALSE]
    /\ btxBeat1' = [btxBeat1 EXCEPT ![b] = FALSE]
    /\ frx' = [frx EXCEPT ![b] = NoFrame] /\ brx' = [brx EXCEPT ![b] = NoFrame]
    /\ locked' = [locked EXCEPT ![b] = FALSE] /\ busy' = [busy EXCEPT ![b] = FALSE]
    /\ relayQ' = [relayQ EXCEPT ![b] = <<>>]
    /\ boardIndex' = [boardIndex EXCEPT ![b] = 0]
    /\ IF b = Master
         THEN /\ total' = 0 /\ initOk' = FALSE /\ enumWait' = FALSE
              /\ ackMask' = {} /\ ackCount' = 0 /\ goSent' = FALSE /\ waiting' = FALSE
              /\ pendGroup' = 0 /\ goTx' = FALSE
              /\ resWait' = FALSE /\ resOk' = FALSE
              /\ diagWait' = FALSE /\ diagRes' = NoDiag
              /\ UNCHANGED <<resDest, diagDest>>
         ELSE UNCHANGED masterVars
    /\ UNCHANGED <<fwd, bwd, boardId, totalIn, hist>>

\* TI bit 30 (au_ctrl_rst), pulsed by the host over the board's own USB port.
CtrlReset(b) == Command("reset") /\ ResetBoard(b) /\ UNCHANGED links

\* The cable between b and Succ(b) drops: the beats on it are lost, and Succ(b),
\* whose modules hang on the sys_reset_out of that transceiver, starts over.
LinkDown(b) ==
    /\ Spend("down") /\ up[b]
    /\ up' = [up EXCEPT ![b] = FALSE]
    /\ fLink' = [fLink EXCEPT ![b] = <<>>]
    /\ bLink' = [bLink EXCEPT ![Succ(b)] = <<>>]
    /\ ResetBoard(Succ(b))

LinkUp(b) ==
    /\ ~up[b]
    /\ up' = [up EXCEPT ![b] = TRUE]
    /\ UNCHANGED <<fLink, bLink, fwdSlot, bwdSlot, frx, brx, layer2, ids, masterVars, hist, budget>>

-----------------------------------------------------------------------------
Host == \/ InitStart \/ TrigStart \/ ReserveStart \/ DiagStart \/ Assign
        \/ \E b \in Board : StreamStart(b)
Timeout == EnumTimeout \/ ReserveTimeout \/ DiagTimeout
Tx(b) == FwdTxBeat0(b) \/ FwdTxBeat1(b) \/ RelayTx(b) \/ StreamEnd(b)
TxBack(b) == BwdTxBeat0(b) \/ BwdTxBeat1(b)
Rx(b) == \/ RxHeader(b) \/ RxEnum(b) \/ RxPauseReq(b) \/ RxGo(b)
         \/ RxReserveReq(b) \/ RxDiagReq(b) \/ RxDataLast(b) \/ RxAssign(b)
RxBack(b) == \/ RxBackHeader(b) \/ RxBackRelay(b)
             \/ RxPauseAck(b) \/ RxReserveAck(b) \/ RxDiagAck(b)
Fault == \E b \in Board : LinkDown(b) \/ LinkUp(b) \/ CtrlReset(b)

Next == \/ Host \/ Timeout \/ SendGo \/ Fault
        \/ \E b \in Board : Tx(b) \/ TxBack(b) \/ Rx(b) \/ RxBack(b)

\* Every clocked machine keeps stepping; host commands and faults may not come.
Fairness == /\ WF_vars(SendGo)
            /\ \A b \in Board : /\ WF_vars(Tx(b)) /\ WF_vars(TxBack(b))
                                /\ WF_vars(Rx(b)) /\ WF_vars(RxBack(b))

Spec == Init /\ [][Next]_vars
LiveSpec == Spec /\ Fairness
-----------------------------------------------------------------------------
(* What the protocol promises.                                             *)

SlotTypes ==
    /\ fwd \in [Board -> Beat] /\ fwdPending \in [Board -> BOOLEAN]
    /\ ftxBeat1 \in [Board -> BOOLEAN]
    /\ bwd \in [Board -> Beat] /\ bwdPending \in [Board -> BOOLEAN]
    /\ btxBeat1 \in [Board -> BOOLEAN]
LinkTypes == /\ fLink \in [Board -> Seq(Beat)] /\ bLink \in [Board -> Seq(Beat)]
             /\ up \in [Board -> BOOLEAN]
             /\ frx \in [Board -> Beat] /\ brx \in [Board -> Beat]
Layer2Types == /\ locked \in [Board -> BOOLEAN] /\ busy \in [Board -> BOOLEAN]
               /\ relayQ \in [Board -> Seq(Beat)]
IdTypes == /\ boardIndex \in [Board -> 0..16] /\ boardId \in [Board -> Id]
           /\ totalIn \in [Board -> 0..31]
EnumTypes == total \in 0..16 /\ initOk \in BOOLEAN /\ enumWait \in BOOLEAN
TrigTypes == /\ ackMask \subseteq 0..15 /\ ackCount \in 0..31 /\ goSent \in BOOLEAN
             /\ waiting \in BOOLEAN /\ pendGroup \in 0..15 /\ goTx \in BOOLEAN
ResTypes == resWait \in BOOLEAN /\ resDest \in Id /\ resOk \in BOOLEAN
DiagTypes == /\ diagWait \in BOOLEAN /\ diagDest \in Id
             /\ diagRes \in [ok : BOOLEAN, up0 : BOOLEAN, up1 : BOOLEAN, blocked : BOOLEAN,
                             from : Id]
HistTypes == /\ fires \in [Board -> Seq(0..15)]
             /\ bypassed \in Seq(0..15) /\ goLog \in Seq(0..15)

\* Every register keeps its width: the 4-bit counter of an enumeration yields an
\* index of 0..16, an ACK's payload a bit number of 0..15.
TypeOK == /\ SlotTypes /\ LinkTypes /\ Layer2Types /\ IdTypes /\ EnumTypes /\ TrigTypes
          /\ ResTypes /\ DiagTypes /\ HistTypes /\ budget \in [HostOps -> Nat]

\* A successful enumeration counts every board once and numbers the boards by
\* their distance from the master: each station added one to the counter.
EnumCorrect ==
    initOk => total = N /\ \A b \in Board \ {Master} : boardIndex[b] = Dist(b)

\* The master decides a GO only when every board of the ring, itself included, is
\* holding back its local data for this trigger, unless somebody's stream, whose end
\* unlocks too, is about.
GoOnlyWhenAllPaused ==
    [][Len(goLog') > Len(goLog) /\ budget["stream"] = Budget["stream"] => \A b \in Board : locked[b]]_vars

IsPrefixOf(s, t) == Len(s) <= Len(t) /\ \A i \in 1..Len(s) : s[i] = t[i]
IsSubsequenceOf(s, t) ==
    \E at \in [1..Len(s) -> 1..Len(t)] :
        /\ \A i, j \in 1..Len(s) : i < j => at[i] < at[j]
        /\ \A i \in 1..Len(s) : s[i] = t[at[i]]

\* Every board fires at most once per GO, in the order the GOs were decided and
\* with the group of that GO: no board fires on its own, twice, or for others.
FiresFollowGo == \A b \in Board : IsPrefixOf(fires[b], goLog)

\* The same where a fault may swallow a GO: boards may miss one, never make one up.
FiresAreGos == \A b \in Board : IsSubsequenceOf(fires[b], goLog)

\* The master fires at most once per GO it decided: the fire it still owes for
\* its own GO is counted, and can neither be doubled nor taken by another frame.
MasterFiresOncePerGo ==
    /\ goTx => fwdPending[Master]
    /\ Len(fires[Master]) + (IF goTx THEN 1 ELSE 0) <= Len(goLog)

\* Once T_BOARD_ID_ASSIGN has gone round, the hops a GO travels to a board plus
\* the hops that board still waits are the same on all boards.
FireInstantsAligned ==
    [][\A b \in Board : Len(fires'[b]) > Len(fires[b]) /\ totalIn[Master] # 0
                         => Dist(b) + NativeHops(b) = N - 1]_vars

\* A granted reservation leaves every board from the master's successor to the
\* destination locked, unless somebody's stream, whose end unlocks too, is about.
ReservedPathLocked ==
    [][resWait /\ ~resWait' /\ resOk' /\ budget["stream"] = Budget["stream"] =>
         \A b \in Board : 0 < Dist(b) /\ Dist(b) <= resDest => locked[b]]_vars

\* A DIAG answer comes from the board asked about, or from a board before it
\* that reports its own broken link.
DiagAnswersQuery ==
    [][diagWait /\ ~diagWait' /\ diagRes'.ok =>
         IF diagRes'.blocked
           THEN 0 < diagRes'.from /\ diagRes'.from < diagDest /\ ~diagRes'.up1
           ELSE diagRes'.from = diagDest]_vars

\* A transmitter in its last beat still has its frame pending.
SlotDiscipline ==
    \A b \in Board : /\ ftxBeat1[b] => fwdPending[b]
                     /\ btxBeat1[b] => bwdPending[b]

\* Once the master of a ring whose boards all have their ids has queued its
\* PAUSE_REQ, all ACKs come back and every board fires.  (A board without an id
\* answers with a source the gate of the next board refuses; a cable may fail meanwhile.)
RingNumbered == TotalEff = N /\ \A b \in Board : boardId[b] = Dist(b) /\ totalIn[b] = N
PauseQueued == /\ waiting /\ RingNumbered
               /\ fwdPending[Master] /\ fwd[Master].type = "PAUSE_REQ"
AllFired == ~waiting /\ \A b \in Board : Len(fires[b]) = Len(goLog)
CableFailed == budget["down"] < Budget["down"]
TriggerCompletes == PauseQueued ~> (AllFired \/ CableFailed)
=============================================================================
