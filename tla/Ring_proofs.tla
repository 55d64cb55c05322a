------------------------------ MODULE Ring_proofs ------------------------------
(***************************************************************************)
(* What is proved of the ring control channel, however many boards it has. *)
(*                                                                         *)
(* First, whatever its host does and however the cables fail: type         *)
(* correctness, the slot discipline of the transmitters, and that the      *)
(* master fires once for each GO.                                          *)
(*                                                                         *)
(* Then, that a ring without faults whose host waits for it between        *)
(* commands does what Layer 3 is for: it counts its boards, triggers them  *)
(* together and in order, grants a path only when the path is locked, and  *)
(* answers for the board that was asked.                                   *)
(*                                                                         *)
(* The inductive invariant of the second part is Calm of RingPhases, on    *)
(* top of FireInv of the first: at any time the ring is in one of eight    *)
(* phases, and the phase says which control frame is under way, where it   *)
(* can be, and what the boards it has passed have done.  The proof goes    *)
(*   - by what a step does to one hop of the ring, forward and backward;   *)
(*   - by what that makes of the one frame that is alone on the ring;      *)
(*   - action by action, each of which stays in its phase or leads to the  *)
(*     next one;                                                           *)
(*   - from Calm to the promises, and to the barrier of TriggerBarrier.    *)
(*                                                                         *)
(* Last, that a ring whose cables drop and whose boards start over at any  *)
(* time may lose a GO but makes none up: Losses of RingLosses follows the  *)
(* one GO under way, whatever is left of it.                               *)
(***************************************************************************)
EXTENDS RingLosses, SequenceTheorems, FiniteSetTheorems, TLAPS

-----------------------------------------------------------------------------
(* The operators the actions are built from.                               *)

\* The neighbours of a board are boards.
LEMMA Neighbours == \A b \in Board : Succ(b) \in Board /\ Pred(b) \in Board
  BY BoardAssumption DEF Board, Succ, Pred

\* The constants of the frames fit their fields.
LEMMA BcastWidth == Bcast \in Nat /\ Bcast > 31
  BY DEF Bcast

LEMMA Widths ==
    /\ \A x \in Id : x \in 0..Bcast
    /\ Bcast \in 0..Bcast /\ 0 \in Id
    /\ \A x \in 0..31 : x \in Word
    /\ \A b \in Board : b \in Id
    /\ 0 \in Word /\ 1 \in Word
  <1>1. /\ \A x \in Id : x \in 0..Bcast
        /\ Bcast \in 0..Bcast /\ 0 \in Id
    BY BcastWidth DEF Id
  <1>2. /\ \A x \in 0..31 : x \in Word
        /\ 0 \in Word /\ 1 \in Word
    BY DEF Word
  <1>3. \A b \in Board : b \in Id
    BY BcastWidth, BoardAssumption DEF Board, Id
  <1> QED  BY <1>1, <1>2, <1>3

\* A frame built from fields of the right widths is a beat.
LEMMA FrameInBeat ==
    ASSUME NEW t \in FwdTypes \cup BwdTypes \cup DataTypes \cup {"PAYLOAD", "NONE"},
           NEW s \in Id, NEW d \in 0..Bcast, NEW p \in Word
    PROVE  Frame(t, s, d, p) \in Beat
  BY DEF Frame, Beat

\* No frame is an (idle) beat too.
LEMMA NoFrameInBeat == NoFrame \in Beat
  BY Widths, FrameInBeat DEF NoFrame

\* Both beats of a frame are beats, and so is the frame with another payload.
LEMMA BeatParts ==
    ASSUME NEW f \in Beat
    PROVE  /\ Header(f) \in Beat /\ Payload(f) \in Beat
           /\ \A x \in Word : [f EXCEPT !.pl = x] \in Beat
           /\ f.src \in Id /\ f.dest \in 0..Bcast /\ f.pl \in Word
  <1>1. f.src \in Id /\ f.dest \in 0..Bcast /\ f.pl \in Word
    BY DEF Beat
  <1>2. \A x \in Word : [f EXCEPT !.pl = x] \in Beat
    BY DEF Beat
  <1>3. 0 \in Word /\ 0 \in Id /\ 0 \in 0..Bcast
    BY Widths
  <1>4. Header(f) \in Beat
    BY <1>2, <1>3 DEF Header
  <1>5. Payload(f) \in Beat
    BY <1>1, <1>3, FrameInBeat DEF Payload
  <1> QED  BY <1>1, <1>2, <1>4, <1>5

\* The bits of a beat fit the payload, the low four a nibble.
LEMMA BitsInWord ==
    ASSUME NEW f \in Beat
    PROVE  Bits(f) \in Word /\ Low4(f) \in 0..15
  <1>1. f.pl \in Word /\ f.dest \in 0..Bcast
    BY DEF Beat
  <1>2. \A x \in 0..Bcast : x % 512 \in Word
    BY BcastWidth DEF Word
  <1>3. Bits(f) \in Word
    BY <1>1, <1>2 DEF Bits
  <1>4. Bits(f) % 16 \in 0..15
    BY <1>3 DEF Word
  <1> QED  BY <1>3, <1>4 DEF Low4

\* Queueing a frame keeps the slots well typed.
LEMMA QueueFwdTypes ==
    ASSUME SlotTypes, NEW b \in Board, NEW f \in Beat, QueueFwd(b, f), UNCHANGED bwdSlot
    PROVE  SlotTypes'
  BY DEF SlotTypes, QueueFwd, bwdSlot

LEMMA QueueBwdTypes ==
    ASSUME SlotTypes, NEW b \in Board, NEW f \in Beat, QueueBwd(b, f), UNCHANGED fwdSlot
    PROVE  SlotTypes'
  BY DEF SlotTypes, QueueBwd, fwdSlot

LEMMA QueueBothTypes ==
    ASSUME SlotTypes, NEW b \in Board, NEW f \in Beat, NEW g \in Beat,
           QueueFwd(b, f), QueueBwd(b, g)
    PROVE  SlotTypes'
  BY DEF SlotTypes, QueueFwd, QueueBwd

\* Taking a beat off a link keeps the links well typed, and yields a beat.
LEMMA PopFwdTypes ==
    ASSUME LinkTypes, NEW b \in Board, fLink[Pred(b)] # <<>>, PopFwd(b),
           UNCHANGED brx, frx' \in [Board -> Beat]
    PROVE  LinkTypes' /\ FwdHead(b) \in Beat
  BY Neighbours, HeadTailProperties DEF LinkTypes, PopFwd, FwdHead

LEMMA PopBwdTypes ==
    ASSUME LinkTypes, NEW b \in Board, bLink[Succ(b)] # <<>>, PopBwd(b),
           UNCHANGED frx, brx' \in [Board -> Beat]
    PROVE  LinkTypes' /\ BwdHead(b) \in Beat
  BY Neighbours, HeadTailProperties DEF LinkTypes, PopBwd, BwdHead

\* Sending a beat keeps the links well typed.
LEMMA SendFwdTypes ==
    ASSUME LinkTypes, NEW b \in Board, NEW f \in Beat,
           fLink' = [fLink EXCEPT ![b] = Append(@, f)], UNCHANGED <<bLink, up, frx, brx>>
    PROVE  LinkTypes'
  BY AppendProperties DEF LinkTypes

LEMMA SendBwdTypes ==
    ASSUME LinkTypes, NEW b \in Board, NEW f \in Beat,
           bLink' = [bLink EXCEPT ![b] = Append(@, f)], UNCHANGED <<fLink, up, frx, brx>>
    PROVE  LinkTypes'
  BY AppendProperties DEF LinkTypes

LEMMA SetLockTypes ==
    ASSUME Layer2Types, NEW b \in Board, NEW on \in BOOLEAN, SetLock(b, on)
    PROVE  Layer2Types'
  BY DEF Layer2Types, SetLock

\* A group of registers no action touched keeps its types.
LEMMA KeptTypes ==
    /\ SlotTypes /\ UNCHANGED <<fwdSlot, bwdSlot>> => SlotTypes'
    /\ LinkTypes /\ UNCHANGED <<fLink, bLink, up, frx, brx>> => LinkTypes'
    /\ Layer2Types /\ UNCHANGED layer2 => Layer2Types'
    /\ IdTypes /\ UNCHANGED ids => IdTypes'
    /\ EnumTypes /\ UNCHANGED enumVars => EnumTypes'
    /\ TrigTypes /\ UNCHANGED trigVars => TrigTypes'
    /\ ResTypes /\ UNCHANGED resVars => ResTypes'
    /\ DiagTypes /\ UNCHANGED diagVars => DiagTypes'
    /\ HistTypes /\ UNCHANGED hist => HistTypes'
  BY DEF SlotTypes, LinkTypes, Layer2Types, IdTypes, EnumTypes, TrigTypes, ResTypes, DiagTypes,
         HistTypes, fwdSlot, bwdSlot, layer2, ids, enumVars, trigVars, resVars, diagVars, hist

LEMMA BudgetTypes ==
    ASSUME budget \in [HostOps -> Nat], NEW op \in HostOps, Spend(op)
    PROVE  budget' \in [HostOps -> Nat]
  BY DEF Spend

LEMMA LockAfterCheckTypes ==
    ASSUME Layer2Types, budget \in [HostOps -> Nat], NEW b \in Board, LockAfterCheck(b)
    PROVE  Layer2Types' /\ budget' \in [HostOps -> Nat]
  <1>1. budget' \in [HostOps -> Nat]
    BY BudgetTypes DEF LockAfterCheck, HostOps
  <1> QED  BY <1>1 DEF Layer2Types, LockAfterCheck

-----------------------------------------------------------------------------
(* Every action keeps the types.                                           *)

LEMMA InitStartTypes == TypeOK /\ InitStart => TypeOK'
  <1> SUFFICES ASSUME TypeOK, InitStart PROVE TypeOK'
    OBVIOUS
  <1>1. budget' \in [HostOps -> Nat]
    BY BudgetTypes DEF TypeOK, InitStart, Command, HostOps
  <1>2. EnumTypes'
    <2>1. total' \in 0..16
      BY DEF InitStart
    <2>2. initOk' \in BOOLEAN /\ enumWait' \in BOOLEAN
      BY Zenon DEF TypeOK, EnumTypes, InitStart
    <2> QED  BY <2>1, <2>2 DEF EnumTypes
  <1>3. SlotTypes'
    <2>1. Frame("ENUM_COUNT", 0, boardId[Master], 0) \in Beat
      BY BoardAssumption, Widths, FrameInBeat DEF TypeOK, IdTypes, FwdTypes
    <2> QED  BY <2>1, QueueFwdTypes, KeptTypes, BoardAssumption DEF TypeOK, InitStart
  <1> QED
    BY <1>1, <1>2, <1>3, KeptTypes DEF TypeOK, InitStart, links

LEMMA EnumTimeoutTypes == TypeOK /\ EnumTimeout => TypeOK'
  <1> SUFFICES ASSUME TypeOK, EnumTimeout PROVE TypeOK'
    OBVIOUS
  <1>1. EnumTypes'
    <2>1. total' \in 0..16
      BY DEF TypeOK, EnumTypes, EnumTimeout
    <2>2. initOk' \in BOOLEAN /\ enumWait' \in BOOLEAN
      BY Zenon DEF EnumTimeout
    <2> QED  BY <2>1, <2>2 DEF EnumTypes
  <1> QED
    BY <1>1, KeptTypes DEF TypeOK, EnumTimeout, links

LEMMA TrigStartTypes == TypeOK /\ TrigStart => TypeOK'
  <1> SUFFICES ASSUME TypeOK, TrigStart PROVE TypeOK'
    OBVIOUS
  <1>1. budget' \in [HostOps -> Nat]
    BY BudgetTypes DEF TypeOK, TrigStart, Command, HostOps
  <1>2. PICK g \in GroupSel : TrigBypass(g) \/ TrigHandshake(g)
    BY DEF TrigStart
  <1>3. g \in 0..15
    BY HostAssumption
  <1>4. CASE TrigBypass(g)
    <2>1. HistTypes'
      BY <1>3, <1>4, AppendProperties DEF TypeOK, HistTypes, TrigBypass
    <2>2. TrigTypes'
      <3>1. ackMask' \subseteq 0..15 /\ ackCount' \in 0..31 /\ pendGroup' \in 0..15
        BY <1>4 DEF TypeOK, TrigTypes, TrigBypass
      <3>2. goSent' \in BOOLEAN /\ waiting' \in BOOLEAN /\ goTx' \in BOOLEAN
        BY <1>4, Zenon DEF TypeOK, TrigTypes, TrigBypass
      <3> QED  BY <3>1, <3>2 DEF TrigTypes
    <2> QED
      BY <1>1, <1>4, <2>1, <2>2, KeptTypes DEF TypeOK, TrigStart, TrigBypass, links
  <1>5. CASE TrigHandshake(g)
    <2>1. TrigTypes'
      <3>1. ackMask' \subseteq 0..15 /\ ackCount' \in 0..31 /\ pendGroup' \in 0..15
        BY <1>3, <1>5 DEF TypeOK, TrigTypes, TrigHandshake
      <3>2. goSent' \in BOOLEAN /\ waiting' \in BOOLEAN /\ goTx' \in BOOLEAN
        BY <1>5, Zenon DEF TypeOK, TrigTypes, TrigHandshake
      <3> QED  BY <3>1, <3>2 DEF TrigTypes
    <2>2. SlotTypes'
      <3>1. Frame("PAUSE_REQ", boardId[Master], Bcast, 0) \in Beat
        BY BoardAssumption, Widths, FrameInBeat DEF TypeOK, IdTypes, FwdTypes
      <3> QED
        BY <1>5, <3>1, QueueFwdTypes, BoardAssumption DEF TypeOK, TrigStart, TrigHandshake
    <2>3. Layer2Types'
      BY <1>5, SetLockTypes, BoardAssumption DEF TypeOK, TrigHandshake
    <2> QED
      BY <1>1, <1>5, <2>1, <2>2, <2>3, KeptTypes DEF TypeOK, TrigStart, TrigHandshake, links
  <1> QED  BY <1>2, <1>4, <1>5

LEMMA ReserveStartTypes == TypeOK /\ ReserveStart => TypeOK'
  <1> SUFFICES ASSUME TypeOK, ReserveStart PROVE TypeOK'
    OBVIOUS
  <1>1. budget' \in [HostOps -> Nat]
    BY BudgetTypes DEF TypeOK, ReserveStart, Command, HostOps
  <1>2. CASE ~up[Master]
    <2>1. ResTypes'
      <3>1. resDest' \in Id
        BY <1>2 DEF TypeOK, ResTypes, ReserveStart
      <3>2. resWait' \in BOOLEAN /\ resOk' \in BOOLEAN
        BY <1>2, Zenon DEF TypeOK, ResTypes, ReserveStart
      <3> QED  BY <3>1, <3>2 DEF ResTypes
    <2> QED  BY <1>1, <1>2, <2>1, KeptTypes DEF TypeOK, ReserveStart, links
  <1>3. CASE up[Master]
    <2>1. PICK d \in HostDests :
             /\ QueueFwd(Master, Frame("RESERVE_REQ", boardId[Master], d, 0))
             /\ resWait' = TRUE /\ resDest' = d /\ UNCHANGED resOk
      BY <1>3 DEF ReserveStart
    <2>2. d \in Id /\ d \in 0..Bcast
      BY HostAssumption, Widths
    <2>3. ResTypes'
      <3>1. resDest' \in Id
        BY <2>1, <2>2
      <3>2. resWait' \in BOOLEAN /\ resOk' \in BOOLEAN
        BY <2>1, Zenon DEF TypeOK, ResTypes
      <3> QED  BY <3>1, <3>2 DEF ResTypes
    <2>4. SlotTypes'
      <3>1. Frame("RESERVE_REQ", boardId[Master], d, 0) \in Beat
        BY <2>2, BoardAssumption, Widths, FrameInBeat DEF TypeOK, IdTypes, FwdTypes
      <3> QED
        BY <2>1, <3>1, QueueFwdTypes, BoardAssumption DEF TypeOK, ReserveStart
    <2> QED  BY <1>1, <2>3, <2>4, KeptTypes DEF TypeOK, ReserveStart, links
  <1> QED  BY <1>2, <1>3

LEMMA ReserveTimeoutTypes == TypeOK /\ ReserveTimeout => TypeOK'
  <1> SUFFICES ASSUME TypeOK, ReserveTimeout PROVE TypeOK'
    OBVIOUS
  <1>1. ResTypes'
    <2>1. resDest' \in Id
      BY DEF TypeOK, ResTypes, ReserveTimeout
    <2>2. resWait' \in BOOLEAN /\ resOk' \in BOOLEAN
      BY Zenon DEF ReserveTimeout
    <2> QED  BY <2>1, <2>2 DEF ResTypes
  <1> QED
    BY <1>1, KeptTypes DEF TypeOK, ReserveTimeout, links

\* The result of a DIAG has its types.
LEMMA DiagResTypes ==
    ASSUME NEW ok \in BOOLEAN, NEW up0 \in BOOLEAN, NEW up1 \in BOOLEAN,
           NEW blocked \in BOOLEAN, NEW from \in Id
    PROVE  [ok |-> ok, up0 |-> up0, up1 |-> up1, blocked |-> blocked, from |-> from]
             \in [ok : BOOLEAN, up0 : BOOLEAN, up1 : BOOLEAN, blocked : BOOLEAN, from : Id]
  OBVIOUS

LEMMA DiagFailTypes ==
    ASSUME DiagTypes
    PROVE  [diagRes EXCEPT !.ok = FALSE]
             \in [ok : BOOLEAN, up0 : BOOLEAN, up1 : BOOLEAN, blocked : BOOLEAN, from : Id]
  BY DEF DiagTypes

LEMMA DiagStartTypes == TypeOK /\ DiagStart => TypeOK'
  <1> SUFFICES ASSUME TypeOK, DiagStart PROVE TypeOK'
    OBVIOUS
  <1>1. budget' \in [HostOps -> Nat]
    BY BudgetTypes DEF TypeOK, DiagStart, Command, HostOps
  <1>2. PICK d \in HostDests :
         /\ diagDest' = d
         /\ \/ /\ d = boardId[Master]
               /\ diagRes' = [ok |-> TRUE, up0 |-> up[Pred(Master)], up1 |-> up[Master],
                              blocked |-> FALSE, from |-> d]
               /\ UNCHANGED <<diagWait, fwdSlot>>
            \/ /\ d # boardId[Master] /\ ~up[Master]
               /\ diagRes' = [diagRes EXCEPT !.ok = FALSE]
               /\ UNCHANGED <<diagWait, fwdSlot>>
            \/ /\ d # boardId[Master] /\ up[Master]
               /\ QueueFwd(Master, Frame("DIAG_REQ", boardId[Master], d, 0))
               /\ diagWait' = TRUE /\ UNCHANGED diagRes
    BY DEF DiagStart
  <1>3. d \in Id /\ d \in 0..Bcast
    BY HostAssumption, Widths
  <1>4. DiagTypes'
    <2>1. diagWait' \in BOOLEAN
      BY <1>2, Zenon DEF TypeOK, DiagTypes
    <2>2. up[Pred(Master)] \in BOOLEAN /\ up[Master] \in BOOLEAN
      BY Neighbours, BoardAssumption DEF TypeOK, LinkTypes
    <2>3. diagRes' \in [ok : BOOLEAN, up0 : BOOLEAN, up1 : BOOLEAN, blocked : BOOLEAN,
                        from : Id]
      <3>1. CASE diagRes' = [ok |-> TRUE, up0 |-> up[Pred(Master)], up1 |-> up[Master],
                             blocked |-> FALSE, from |-> d]
        BY <1>3, <2>2, <3>1
      <3>2. CASE diagRes' = [diagRes EXCEPT !.ok = FALSE]
        BY <3>2, DiagFailTypes DEF TypeOK
      <3>3. CASE UNCHANGED diagRes
        BY <3>3 DEF TypeOK, DiagTypes
      <3> QED  BY <1>2, <3>1, <3>2, <3>3
    <2> QED  BY <1>2, <1>3, <2>1, <2>3 DEF DiagTypes
  <1>5. SlotTypes'
    <2>1. Frame("DIAG_REQ", boardId[Master], d, 0) \in Beat
      BY <1>3, BoardAssumption, Widths, FrameInBeat DEF TypeOK, IdTypes, FwdTypes
    <2> QED
      BY <1>2, <2>1, QueueFwdTypes, KeptTypes, BoardAssumption DEF TypeOK, DiagStart
  <1> QED  BY <1>1, <1>4, <1>5, KeptTypes DEF TypeOK, DiagStart, links

LEMMA DiagTimeoutTypes == TypeOK /\ DiagTimeout => TypeOK'
  <1> SUFFICES ASSUME TypeOK, DiagTimeout PROVE TypeOK'
    OBVIOUS
  <1>1. DiagTypes'
    <2>1. diagWait' \in BOOLEAN
      BY Zenon DEF DiagTimeout
    <2> QED  BY <2>1, DiagFailTypes DEF TypeOK, DiagTypes, DiagTimeout
  <1> QED
    BY <1>1, KeptTypes DEF TypeOK, DiagTimeout, links

LEMMA SendGoTypes == TypeOK /\ SendGo => TypeOK'
  <1> SUFFICES ASSUME TypeOK, SendGo PROVE TypeOK'
    OBVIOUS
  <1>1. pendGroup \in 0..15 /\ pendGroup \in Word
    BY DEF TypeOK, TrigTypes, Word
  <1>2. SlotTypes'
    <2>1. Frame("GO", boardId[Master], Bcast, pendGroup) \in Beat
      BY <1>1, BoardAssumption, Widths, FrameInBeat DEF TypeOK, IdTypes, FwdTypes
    <2> QED
      BY <2>1, QueueFwdTypes, BoardAssumption DEF TypeOK, SendGo
  <1>3. Layer2Types'
    BY SetLockTypes, BoardAssumption DEF TypeOK, SendGo
  <1>4. TrigTypes'
    <2>1. ackMask' \subseteq 0..15 /\ ackCount' \in 0..31 /\ pendGroup' \in 0..15
      BY DEF TypeOK, TrigTypes, SendGo
    <2>2. goSent' \in BOOLEAN /\ waiting' \in BOOLEAN /\ goTx' \in BOOLEAN
      BY Zenon DEF SendGo
    <2> QED  BY <2>1, <2>2 DEF TrigTypes
  <1>5. HistTypes'
    BY <1>1, AppendProperties DEF TypeOK, HistTypes, SendGo
  <1> QED
    BY <1>2, <1>3, <1>4, <1>5, KeptTypes DEF TypeOK, SendGo, links

LEMMA FwdTxBeat0Types == ASSUME TypeOK, NEW b \in Board, FwdTxBeat0(b) PROVE TypeOK'
  <1>1. Header(fwd[b]) \in Beat
    BY BeatParts DEF TypeOK, SlotTypes
  <1>2. LinkTypes'
    BY <1>1, SendFwdTypes DEF TypeOK, FwdTxBeat0
  <1>3. SlotTypes'
    BY DEF TypeOK, SlotTypes, FwdTxBeat0, bwdSlot
  <1> QED
    BY <1>2, <1>3, KeptTypes DEF TypeOK, FwdTxBeat0, masterVars

LEMMA FwdTxBeat1Types == ASSUME TypeOK, NEW b \in Board, FwdTxBeat1(b) PROVE TypeOK'
  <1>1. Payload(fwd[b]) \in Beat
    BY BeatParts DEF TypeOK, SlotTypes
  <1>2. LinkTypes'
    BY <1>1, SendFwdTypes DEF TypeOK, FwdTxBeat1
  <1>3. SlotTypes'
    BY DEF TypeOK, SlotTypes, FwdTxBeat1, bwdSlot
  <1>4. HistTypes'
    <2>1. fires' \in [Board -> Seq(0..15)]
      <3>1. fires \in [Board -> Seq(0..15)] /\ pendGroup \in 0..15
        BY DEF TypeOK, HistTypes, TrigTypes
      <3>2. Append(fires[b], pendGroup) \in Seq(0..15)
        BY <3>1, AppendProperties
      <3>3. \/ fires' = [fires EXCEPT ![b] = Append(fires[b], pendGroup)]
            \/ fires' = fires
        BY Zenon DEF FwdTxBeat1, MasterFires
      <3> QED  BY <3>1, <3>2, <3>3
    <2> QED  BY <2>1 DEF TypeOK, HistTypes, FwdTxBeat1
  <1>5. TrigTypes'
    <2>1. goTx' \in BOOLEAN
      BY Zenon DEF TypeOK, TrigTypes, FwdTxBeat1, MasterFires
    <2> QED  BY <2>1 DEF TypeOK, TrigTypes, FwdTxBeat1
  <1> QED
    BY <1>2, <1>3, <1>4, <1>5, KeptTypes DEF TypeOK, FwdTxBeat1

LEMMA BwdTxBeat0Types == ASSUME TypeOK, NEW b \in Board, BwdTxBeat0(b) PROVE TypeOK'
  <1>1. Header(bwd[b]) \in Beat
    BY BeatParts DEF TypeOK, SlotTypes
  <1>2. LinkTypes'
    BY <1>1, SendBwdTypes DEF TypeOK, BwdTxBeat0
  <1>3. SlotTypes'
    BY DEF TypeOK, SlotTypes, BwdTxBeat0, fwdSlot
  <1> QED
    BY <1>2, <1>3, KeptTypes DEF TypeOK, BwdTxBeat0, masterVars

LEMMA BwdTxBeat1Types == ASSUME TypeOK, NEW b \in Board, BwdTxBeat1(b) PROVE TypeOK'
  <1>1. Payload(bwd[b]) \in Beat
    BY BeatParts DEF TypeOK, SlotTypes
  <1>2. LinkTypes'
    BY <1>1, SendBwdTypes DEF TypeOK, BwdTxBeat1
  <1>3. SlotTypes'
    BY DEF TypeOK, SlotTypes, BwdTxBeat1, fwdSlot
  <1> QED
    BY <1>2, <1>3, KeptTypes DEF TypeOK, BwdTxBeat1, masterVars

LEMMA RxHeaderTypes == ASSUME TypeOK, NEW b \in Board, RxHeader(b) PROVE TypeOK'
  <1>1. FwdHead(b) \in Beat
    BY Neighbours, HeadTailProperties DEF TypeOK, LinkTypes, RxHeader, FwdHead
  <1>2. frx' \in [Board -> Beat]
    BY <1>1 DEF TypeOK, LinkTypes, RxHeader
  <1>3. LinkTypes'
    BY <1>2, PopFwdTypes DEF TypeOK, RxHeader
  <1> QED
    BY <1>3, KeptTypes DEF TypeOK, RxHeader, masterVars

\* Receiving a payload keeps the links well typed, and yields a beat.
LEMMA RxPayloadTypes ==
    ASSUME TypeOK, NEW b \in Board, NEW t, RxPayload(b, t), UNCHANGED brx
    PROVE  LinkTypes' /\ FwdHead(b) \in Beat /\ frx[b] \in Beat
  <1>1. frx' \in [Board -> Beat] /\ frx[b] \in Beat
    BY NoFrameInBeat DEF TypeOK, LinkTypes, RxPayload
  <1> QED
    BY <1>1, PopFwdTypes DEF TypeOK, RxPayload

LEMMA RxEnumTypes == ASSUME TypeOK, NEW b \in Board, RxEnum(b) PROVE TypeOK'
  <1> DEFINE count == Counted(FwdHead(b))
  <1>1. LinkTypes' /\ FwdHead(b) \in Beat /\ frx[b] \in Beat
    BY RxPayloadTypes DEF RxEnum
  <1>2. count \in 0..16 /\ count % 16 \in 0..31
    BY <1>1, BitsInWord DEF Counted
  <1>3. CASE frx[b].dest = boardId[b]
    <2>1. EnumTypes'
      <3>1. total' \in 0..16
        BY <1>2, <1>3 DEF RxEnum
      <3>2. initOk' \in BOOLEAN /\ enumWait' \in BOOLEAN
        BY <1>3, Zenon DEF RxEnum
      <3> QED  BY <3>1, <3>2 DEF EnumTypes
    <2>2. IdTypes'
      BY <1>3 DEF TypeOK, IdTypes, RxEnum
    <2> QED
      BY <1>1, <1>3, <2>1, <2>2, KeptTypes DEF TypeOK, RxEnum
  <1>4. CASE frx[b].dest # boardId[b]
    <2>1. IdTypes'
      BY <1>2, <1>4 DEF TypeOK, IdTypes, RxEnum
    <2>2. [frx[b] EXCEPT !.pl = count % 16] \in Beat
      BY <1>1, <1>2, BeatParts, Widths
    <2>3. SlotTypes'
      BY <1>4, <2>2, QueueFwdTypes DEF TypeOK, RxEnum
    <2> QED
      BY <1>1, <1>4, <2>1, <2>3, KeptTypes DEF TypeOK, RxEnum
  <1> QED  BY <1>3, <1>4

\* A frame relayed with an empty payload is a beat.
LEMMA RelayedFrame == ASSUME NEW f \in Beat PROVE [f EXCEPT !.pl = 0] \in Beat
  BY BeatParts, Widths

LEMMA RxPauseReqTypes == ASSUME TypeOK, NEW b \in Board, RxPauseReq(b) PROVE TypeOK'
  <1>1. LinkTypes' /\ frx[b] \in Beat
    BY RxPayloadTypes DEF RxPauseReq
  <1>2. [frx[b] EXCEPT !.pl = 0] \in Beat
    BY <1>1, RelayedFrame
  <1>3. Frame("PAUSE_ACK", boardId[b], frx[b].src, boardIndex[b]) \in Beat
    <2>1. boardIndex[b] \in 0..31 /\ boardId[b] \in Id
      BY DEF TypeOK, IdTypes
    <2>2. frx[b].src \in 0..Bcast
      BY <1>1, BeatParts, Widths
    <2> QED  BY <2>1, <2>2, Widths, FrameInBeat DEF BwdTypes
  <1>4. SlotTypes'
    BY <1>2, <1>3, QueueFwdTypes, QueueBwdTypes, QueueBothTypes, KeptTypes
       DEF TypeOK, RxPauseReq
  <1>5. Layer2Types'
    BY SetLockTypes DEF TypeOK, RxPauseReq
  <1> QED
    BY <1>1, <1>4, <1>5, KeptTypes DEF TypeOK, RxPauseReq, masterVars

LEMMA RxGoTypes == ASSUME TypeOK, NEW b \in Board, RxGo(b) PROVE TypeOK'
  <1> DEFINE g == Low4(FwdHead(b))
  <1>1. LinkTypes' /\ FwdHead(b) \in Beat /\ frx[b] \in Beat
    BY RxPayloadTypes DEF RxGo
  <1>2. g \in 0..15 /\ g \in 0..31
    BY <1>1, BitsInWord
  <1>3. [frx[b] EXCEPT !.pl = g] \in Beat
    BY <1>1, <1>2, BeatParts, Widths
  <1>4. Append(fires[b], g) \in Seq(0..15)
    BY <1>2, AppendProperties DEF TypeOK, HistTypes
  <1>5. SlotTypes'
    BY <1>3, QueueFwdTypes, KeptTypes DEF TypeOK, RxGo
  <1>6. HistTypes'
    BY <1>4 DEF TypeOK, HistTypes, RxGo
  <1>7. Layer2Types'
    BY SetLockTypes DEF TypeOK, RxGo
  <1> QED
    BY <1>1, <1>5, <1>6, <1>7, KeptTypes DEF TypeOK, RxGo, masterVars

LEMMA RxReserveReqTypes == ASSUME TypeOK, NEW b \in Board, RxReserveReq(b) PROVE TypeOK'
  <1>1. LinkTypes' /\ frx[b] \in Beat
    BY RxPayloadTypes DEF RxReserveReq
  <1>2. [frx[b] EXCEPT !.pl = 0] \in Beat
    BY <1>1, RelayedFrame
  <1>3. \A x \in {0, 1} : Frame("RESERVE_ACK", boardId[b], frx[b].src, x) \in Beat
    <2>1. boardId[b] \in Id /\ frx[b].src \in 0..Bcast
      BY <1>1, BeatParts, Widths DEF TypeOK, IdTypes
    <2> QED  BY <2>1, Widths, FrameInBeat DEF BwdTypes
  <1>4. SlotTypes'
    BY <1>2, <1>3, QueueFwdTypes, QueueBwdTypes DEF TypeOK, RxReserveReq
  <1>5. Layer2Types' /\ budget' \in [HostOps -> Nat]
    <2>1. LockAfterCheck(b) \/ UNCHANGED <<layer2, budget>>
      BY DEF RxReserveReq
    <2>2. CASE LockAfterCheck(b)
      BY <2>2, LockAfterCheckTypes DEF TypeOK
    <2>3. CASE UNCHANGED <<layer2, budget>>
      BY <2>3, KeptTypes DEF TypeOK
    <2> QED  BY <2>1, <2>2, <2>3
  <1> QED
    BY <1>1, <1>4, <1>5, KeptTypes DEF TypeOK, RxReserveReq, masterVars

\* A DIAG answer fits the payload: four flags and the index above them.
LEMMA DiagAckInBeat ==
    ASSUME TypeOK, NEW b \in Board, frx[b] \in Beat, NEW target \in BOOLEAN
    PROVE  DiagAck(b, target) \in Beat
  <1>1. boardId[b] \in Id /\ frx[b].src \in 0..Bcast /\ boardIndex[b] \in 0..16
    BY BeatParts, Widths DEF TypeOK, IdTypes
  <1>2. /\ Bit(target, 1) \in {0, 1} /\ Bit(up[Pred(b)], 2) \in {0, 2}
        /\ Bit(up[b], 4) \in {0, 4} /\ Bit(~target, 8) \in {0, 8}
    BY Zenon DEF Bit
  <1>3. \A w \in {0, 1}, x \in {0, 2}, y \in {0, 4}, z \in {0, 8}, i \in 0..16 :
          w + x + y + z + 16 * i \in Word
    BY DEF Word
  <1> DEFINE pl == Bit(target, 1) + Bit(up[Pred(b)], 2) + Bit(up[b], 4) + Bit(~target, 8)
                     + 16 * boardIndex[b]
  <1>4. pl \in Word
    BY <1>1, <1>2, <1>3
  <1> HIDE DEF pl
  <1>5. Frame("DIAG_ACK", boardId[b], frx[b].src, pl) \in Beat
    BY <1>1, <1>4, FrameInBeat DEF BwdTypes
  <1> QED  BY <1>5 DEF DiagAck, pl

LEMMA RxDiagReqTypes == ASSUME TypeOK, NEW b \in Board, RxDiagReq(b) PROVE TypeOK'
  <1>1. LinkTypes' /\ frx[b] \in Beat
    BY RxPayloadTypes DEF RxDiagReq
  <1>2. [frx[b] EXCEPT !.pl = 0] \in Beat
    BY <1>1, RelayedFrame
  <1>3. DiagAck(b, TRUE) \in Beat /\ DiagAck(b, FALSE) \in Beat
    BY <1>1, DiagAckInBeat
  <1>4. SlotTypes'
    BY <1>2, <1>3, QueueFwdTypes, QueueBwdTypes, KeptTypes DEF TypeOK, RxDiagReq
  <1>5. DiagTypes'
    <2>1. CASE UNCHANGED diagVars
      BY <2>1, KeptTypes DEF TypeOK
    <2>2. CASE /\ diagWait' = FALSE /\ UNCHANGED diagDest
               /\ diagRes' = IF diagWait THEN [diagRes EXCEPT !.ok = FALSE] ELSE diagRes
      <3>1. diagWait' \in BOOLEAN
        BY <2>2, Zenon
      <3>2. diagDest' \in Id
        BY <2>2 DEF TypeOK, DiagTypes
      <3>3. diagRes' \in [ok : BOOLEAN, up0 : BOOLEAN, up1 : BOOLEAN, blocked : BOOLEAN,
                          from : Id]
        BY <2>2, DiagFailTypes DEF TypeOK, DiagTypes
      <3> QED  BY <3>1, <3>2, <3>3 DEF DiagTypes
    <2> QED  BY <2>1, <2>2 DEF RxDiagReq
  <1> QED
    BY <1>1, <1>4, <1>5, KeptTypes DEF TypeOK, RxDiagReq

LEMMA RxBackHeaderTypes == ASSUME TypeOK, NEW b \in Board, RxBackHeader(b) PROVE TypeOK'
  <1>1. BwdHead(b) \in Beat
    BY Neighbours, HeadTailProperties DEF TypeOK, LinkTypes, RxBackHeader, BwdHead
  <1>2. brx' \in [Board -> Beat]
    BY <1>1 DEF TypeOK, LinkTypes, RxBackHeader
  <1>3. LinkTypes'
    BY <1>2, PopBwdTypes DEF TypeOK, RxBackHeader
  <1> QED
    BY <1>3, KeptTypes DEF TypeOK, RxBackHeader, masterVars

LEMMA RxBackPayloadTypes ==
    ASSUME TypeOK, NEW b \in Board, RxBackPayload(b), UNCHANGED frx
    PROVE  LinkTypes' /\ BwdHead(b) \in Beat /\ brx[b] \in Beat
  <1>1. brx' \in [Board -> Beat] /\ brx[b] \in Beat
    BY NoFrameInBeat DEF TypeOK, LinkTypes, RxBackPayload
  <1> QED
    BY <1>1, PopBwdTypes DEF TypeOK, RxBackPayload

LEMMA RxBackRelayTypes == ASSUME TypeOK, NEW b \in Board, RxBackRelay(b) PROVE TypeOK'
  <1>1. LinkTypes' /\ BwdHead(b) \in Beat /\ brx[b] \in Beat
    BY RxBackPayloadTypes DEF RxBackRelay
  <1>2. [brx[b] EXCEPT !.pl = Bits(BwdHead(b))] \in Beat
    BY <1>1, BitsInWord, BeatParts
  <1>3. SlotTypes'
    BY <1>2, QueueBwdTypes DEF TypeOK, RxBackRelay
  <1> QED
    BY <1>1, <1>3, KeptTypes DEF TypeOK, RxBackRelay, masterVars

LEMMA RxPauseAckTypes == ASSUME TypeOK, NEW b \in Board, RxPauseAck(b) PROVE TypeOK'
  <1> DEFINE i == Low4(BwdHead(b))
  <1>1. LinkTypes' /\ BwdHead(b) \in Beat
    BY RxBackPayloadTypes DEF RxPauseAck
  <1>2. i \in 0..15
    BY <1>1, BitsInWord
  <1>3. ackMask \subseteq 0..15 /\ ackCount \in 0..31
    BY DEF TypeOK, TrigTypes
  <1>4. /\ ackMask' = ackMask \cup {i} \/ ackMask' = ackMask
        /\ ackCount' = (ackCount + 1) % 32 \/ ackCount' = ackCount
    BY Zenon DEF RxPauseAck
  <1>5. ackMask' \subseteq 0..15
    BY <1>2, <1>3, <1>4
  <1>6. ackCount' \in 0..31
    BY <1>3, <1>4
  <1>7. UNCHANGED <<goSent, waiting, pendGroup, goTx>>
    BY DEF RxPauseAck
  <1>8. TrigTypes'
    BY <1>5, <1>6, <1>7 DEF TypeOK, TrigTypes
  <1> QED
    BY <1>1, <1>8, KeptTypes DEF TypeOK, RxPauseAck

LEMMA RxReserveAckTypes == ASSUME TypeOK, NEW b \in Board, RxReserveAck(b) PROVE TypeOK'
  <1>1. LinkTypes'
    BY RxBackPayloadTypes DEF RxReserveAck
  <1>2. ResTypes'
    <2>1. resDest' \in Id
      BY DEF TypeOK, ResTypes, RxReserveAck
    <2>2. resWait' \in BOOLEAN /\ resOk' \in BOOLEAN
      BY Zenon DEF TypeOK, ResTypes, RxReserveAck, BitOn
    <2> QED  BY <2>1, <2>2 DEF ResTypes
  <1> QED
    BY <1>1, <1>2, KeptTypes DEF TypeOK, RxReserveAck

LEMMA RxDiagAckTypes == ASSUME TypeOK, NEW b \in Board, RxDiagAck(b) PROVE TypeOK'
  <1>1. LinkTypes' /\ brx[b] \in Beat
    BY RxBackPayloadTypes DEF RxDiagAck
  <1>2. diagWait' \in BOOLEAN
    BY Zenon DEF RxDiagAck
  <1>3. brx[b].src \in Id
    BY <1>1, BeatParts
  <1>4. \A k \in {2, 4, 8} : BitOn(BwdHead(b), k) \in BOOLEAN
    BY Zenon DEF BitOn
  <1>5. diagRes' \in [ok : BOOLEAN, up0 : BOOLEAN, up1 : BOOLEAN, blocked : BOOLEAN,
                      from : Id]
    BY <1>3, <1>4, DiagResTypes DEF TypeOK, DiagTypes, RxDiagAck
  <1>6. DiagTypes'
    BY <1>2, <1>5 DEF TypeOK, DiagTypes, RxDiagAck
  <1> QED
    BY <1>1, <1>6, KeptTypes DEF TypeOK, RxDiagAck

\* Adopting an index as the board id keeps the ids well typed.
LEMMA TakeIdTypes ==
    ASSUME IdTypes, NEW b \in Board, NEW n \in 0..31, TakeId(b, n)
    PROVE  IdTypes'
  <1>1. boardIndex[b] \in Id
    BY BcastWidth DEF IdTypes, Id
  <1> QED  BY <1>1 DEF IdTypes, TakeId

LEMMA AssignTypes == TypeOK /\ Assign => TypeOK'
  <1> SUFFICES ASSUME TypeOK, Assign PROVE TypeOK'
    OBVIOUS
  <1>1. budget' \in [HostOps -> Nat]
    BY BudgetTypes DEF TypeOK, Assign, Command, HostOps
  <1>2. Master \in Board /\ total \in 0..31 /\ boardId[Master] \in Id
    BY BoardAssumption DEF TypeOK, EnumTypes, IdTypes
  <1>3. Frame("BOARD_ID_ASSIGN", boardId[Master], Bcast, total) \in Beat
    BY <1>2, Widths, FrameInBeat DEF DataTypes
  <1>4. LinkTypes'
    BY <1>2, <1>3, SendFwdTypes DEF TypeOK, Assign
  <1>5. IdTypes'
    BY <1>2, TakeIdTypes DEF TypeOK, Assign
  <1> QED
    BY <1>1, <1>4, <1>5, KeptTypes DEF TypeOK, Assign, masterVars

LEMMA StreamStartTypes == ASSUME TypeOK, NEW b \in Board, StreamStart(b) PROVE TypeOK'
  <1>1. budget' \in [HostOps -> Nat]
    BY BudgetTypes DEF TypeOK, StreamStart, HostOps
  <1>2. Layer2Types'
    BY DEF TypeOK, Layer2Types, StreamStart
  <1> QED
    BY <1>1, <1>2, KeptTypes DEF TypeOK, StreamStart, masterVars, links

LEMMA StreamEndTypes == ASSUME TypeOK, NEW b \in Board, StreamEnd(b) PROVE TypeOK'
  <1>1. PICK d \in Board : fLink' = [fLink EXCEPT ![b] =
                                     Append(@, Frame("DATA_LAST", boardId[b], d, 0))]
    BY DEF StreamEnd
  <1>2. Frame("DATA_LAST", boardId[b], d, 0) \in Beat
    BY Widths, FrameInBeat DEF TypeOK, IdTypes, DataTypes
  <1>3. LinkTypes'
    BY <1>1, <1>2, SendFwdTypes DEF TypeOK, StreamEnd
  <1>4. Layer2Types'
    BY DEF TypeOK, Layer2Types, StreamEnd
  <1> QED
    BY <1>3, <1>4, KeptTypes DEF TypeOK, StreamEnd, masterVars

\* What the relay FIFO takes in keeps it well typed.
LEMMA RelayedTypes ==
    ASSUME Layer2Types, NEW b \in Board, NEW h \in Beat
    PROVE  Relayed(b, h) \in [Board -> Seq(Beat)]
  <1>1. Append(relayQ[b], h) \in Seq(Beat)
    BY AppendProperties DEF Layer2Types
  <1> QED  BY <1>1 DEF Layer2Types, Relayed

\* A data frame at the head of the link is a beat, and taking it off is typed.
LEMMA RxDataTypes ==
    ASSUME TypeOK, NEW b \in Board, fLink[Pred(b)] # <<>>, PopFwd(b), UNCHANGED <<frx, brx>>
    PROVE  LinkTypes' /\ FwdHead(b) \in Beat
  <1>1. frx' \in [Board -> Beat]
    BY DEF TypeOK, LinkTypes
  <1> QED  BY <1>1, PopFwdTypes DEF TypeOK

LEMMA RxDataLastTypes == ASSUME TypeOK, NEW b \in Board, RxDataLast(b) PROVE TypeOK'
  <1>1. LinkTypes' /\ FwdHead(b) \in Beat
    BY RxDataTypes DEF RxDataLast
  <1>2. Relayed(b, FwdHead(b)) \in [Board -> Seq(Beat)]
    BY <1>1, RelayedTypes DEF TypeOK
  <1>3. Layer2Types'
    BY <1>2 DEF TypeOK, Layer2Types, RxDataLast
  <1> QED
    BY <1>1, <1>3, KeptTypes DEF TypeOK, RxDataLast, masterVars

LEMMA RxAssignTypes == ASSUME TypeOK, NEW b \in Board, RxAssign(b) PROVE TypeOK'
  <1>1. LinkTypes' /\ FwdHead(b) \in Beat
    BY RxDataTypes DEF RxAssign
  <1>2. Relayed(b, FwdHead(b)) \in [Board -> Seq(Beat)]
    BY <1>1, RelayedTypes DEF TypeOK
  <1>3. FwdHead(b).pl % 32 \in 0..31
    <2>1. FwdHead(b).pl \in 0..511
      BY <1>1, BeatParts DEF Word
    <2>2. \A x \in 0..511 : x % 32 \in 0..31
      OBVIOUS
    <2> QED  BY <2>1, <2>2
  <1>4. Layer2Types'
    BY <1>2 DEF TypeOK, Layer2Types, RxAssign
  <1>5. IdTypes'
    BY <1>3, TakeIdTypes, KeptTypes DEF TypeOK, RxAssign
  <1> QED
    BY <1>1, <1>4, <1>5, KeptTypes DEF TypeOK, RxAssign, masterVars

LEMMA RelayTxTypes == ASSUME TypeOK, NEW b \in Board, RelayTx(b) PROVE TypeOK'
  <1>1. Head(relayQ[b]) \in Beat /\ Tail(relayQ[b]) \in Seq(Beat)
    BY HeadTailProperties DEF TypeOK, Layer2Types, RelayTx
  <1>2. LinkTypes'
    BY <1>1, SendFwdTypes, KeptTypes DEF TypeOK, RelayTx
  <1>3. Layer2Types'
    BY <1>1 DEF TypeOK, Layer2Types, RelayTx
  <1> QED
    BY <1>2, <1>3, KeptTypes DEF TypeOK, RelayTx, masterVars

-----------------------------------------------------------------------------
(* Faults.                                                                 *)

\* A reset puts every register of the board back into range; the beats on the
\* cables are the caller's.
LEMMA ResetBoardTypes ==
    ASSUME TypeOK, NEW b \in Board, ResetBoard(b)
    PROVE  /\ SlotTypes' /\ Layer2Types' /\ IdTypes' /\ EnumTypes' /\ TrigTypes'
           /\ ResTypes' /\ DiagTypes' /\ HistTypes'
           /\ frx' \in [Board -> Beat] /\ brx' \in [Board -> Beat]
  <1>1. SlotTypes'
    BY DEF TypeOK, SlotTypes, ResetBoard
  <1>2. Layer2Types'
    <2>1. relayQ' \in [Board -> Seq(Beat)]
      BY EmptySeq DEF TypeOK, Layer2Types, ResetBoard
    <2> QED  BY <2>1 DEF TypeOK, Layer2Types, ResetBoard
  <1>3. IdTypes'
    BY DEF TypeOK, IdTypes, ResetBoard
  <1>4. HistTypes'
    BY KeptTypes DEF TypeOK, ResetBoard
  <1>5. frx' \in [Board -> Beat] /\ brx' \in [Board -> Beat]
    BY NoFrameInBeat DEF TypeOK, LinkTypes, ResetBoard
  <1>6. CASE b # Master
    BY <1>1, <1>2, <1>3, <1>4, <1>5, <1>6, KeptTypes DEF TypeOK, ResetBoard, masterVars
  <1>7. CASE b = Master
    <2>1. total' \in 0..16 /\ ackMask' \subseteq 0..15 /\ ackCount' \in 0..31
          /\ pendGroup' \in 0..15
      BY <1>7 DEF ResetBoard
    <2>2. resDest' \in Id /\ diagDest' \in Id
      BY <1>7 DEF TypeOK, ResTypes, DiagTypes, ResetBoard
    <2>3. /\ initOk' \in BOOLEAN /\ enumWait' \in BOOLEAN
          /\ goSent' \in BOOLEAN /\ waiting' \in BOOLEAN /\ goTx' \in BOOLEAN
          /\ resWait' \in BOOLEAN /\ resOk' \in BOOLEAN /\ diagWait' \in BOOLEAN
      BY <1>7, Zenon DEF ResetBoard
    <2>4. diagRes' \in [ok : BOOLEAN, up0 : BOOLEAN, up1 : BOOLEAN, blocked : BOOLEAN,
                        from : Id]
      BY <1>7, Widths, DiagResTypes DEF ResetBoard, NoDiag
    <2> QED
      BY <1>1, <1>2, <1>3, <1>4, <1>5, <2>1, <2>2, <2>3, <2>4
         DEF EnumTypes, TrigTypes, ResTypes, DiagTypes
  <1> QED  BY <1>6, <1>7

LEMMA CtrlResetTypes == ASSUME TypeOK, NEW b \in Board, CtrlReset(b) PROVE TypeOK'
  <1>1. budget' \in [HostOps -> Nat]
    BY BudgetTypes DEF TypeOK, CtrlReset, Command, HostOps
  <1>2. /\ SlotTypes' /\ Layer2Types' /\ IdTypes' /\ EnumTypes' /\ TrigTypes'
        /\ ResTypes' /\ DiagTypes' /\ HistTypes'
        /\ frx' \in [Board -> Beat] /\ brx' \in [Board -> Beat]
    BY ResetBoardTypes DEF CtrlReset
  <1>3. LinkTypes'
    BY <1>2 DEF TypeOK, LinkTypes, CtrlReset, links
  <1> QED  BY <1>1, <1>2, <1>3 DEF TypeOK

LEMMA LinkDownTypes == ASSUME TypeOK, NEW b \in Board, LinkDown(b) PROVE TypeOK'
  <1>1. budget' \in [HostOps -> Nat]
    BY BudgetTypes DEF TypeOK, LinkDown, HostOps
  <1>2. /\ SlotTypes' /\ Layer2Types' /\ IdTypes' /\ EnumTypes' /\ TrigTypes'
        /\ ResTypes' /\ DiagTypes' /\ HistTypes'
        /\ frx' \in [Board -> Beat] /\ brx' \in [Board -> Beat]
    BY Neighbours, ResetBoardTypes DEF LinkDown
  <1>3. LinkTypes'
    BY <1>2, EmptySeq DEF TypeOK, LinkTypes, LinkDown
  <1> QED  BY <1>1, <1>2, <1>3 DEF TypeOK

LEMMA LinkUpTypes == ASSUME TypeOK, NEW b \in Board, LinkUp(b) PROVE TypeOK'
  <1>1. LinkTypes'
    BY DEF TypeOK, LinkTypes, LinkUp
  <1> QED
    BY <1>1, KeptTypes DEF TypeOK, LinkUp, masterVars

-----------------------------------------------------------------------------
(* Type correctness.                                                       *)

LEMMA InitTypes == Init => TypeOK
  <1> SUFFICES ASSUME Init PROVE TypeOK
    OBVIOUS
  <1>1. SlotTypes
    BY NoFrameInBeat DEF Init, SlotTypes
  <1>2. LinkTypes
    BY NoFrameInBeat, EmptySeq DEF Init, LinkTypes
  <1>3. Layer2Types
    BY EmptySeq DEF Init, Layer2Types
  <1>4. IdTypes
    BY BcastWidth DEF Init, IdTypes, Id, Unassigned
  <1>5. total \in 0..16 /\ ackMask \subseteq 0..15 /\ ackCount \in 0..31 /\ pendGroup \in 0..15
    BY DEF Init
  <1>6. resDest \in Id /\ diagDest \in Id
    BY Widths DEF Init
  <1>7. /\ initOk \in BOOLEAN /\ enumWait \in BOOLEAN
        /\ goSent \in BOOLEAN /\ waiting \in BOOLEAN /\ goTx \in BOOLEAN
        /\ resWait \in BOOLEAN /\ resOk \in BOOLEAN /\ diagWait \in BOOLEAN
    BY Zenon DEF Init
  <1>8. diagRes \in [ok : BOOLEAN, up0 : BOOLEAN, up1 : BOOLEAN, blocked : BOOLEAN, from : Id]
    BY Widths, DiagResTypes DEF Init, NoDiag
  <1>9. HistTypes
    BY EmptySeq DEF Init, HistTypes
  <1>10. budget \in [HostOps -> Nat]
    BY HostAssumption DEF Init
  <1> QED
    BY <1>1, <1>2, <1>3, <1>4, <1>5, <1>6, <1>7, <1>8, <1>9, <1>10
       DEF TypeOK, EnumTypes, TrigTypes, ResTypes, DiagTypes

LEMMA NextTypes == TypeOK /\ [Next]_vars => TypeOK'
  <1> SUFFICES ASSUME TypeOK, [Next]_vars PROVE TypeOK'
    OBVIOUS
  <1>1. CASE Host
    BY <1>1, InitStartTypes, TrigStartTypes, ReserveStartTypes, DiagStartTypes, AssignTypes,
       StreamStartTypes DEF Host
  <1>2. CASE Timeout
    BY <1>2, EnumTimeoutTypes, ReserveTimeoutTypes, DiagTimeoutTypes DEF Timeout
  <1>3. CASE SendGo
    BY <1>3, SendGoTypes
  <1>4. CASE Fault
    BY <1>4, LinkDownTypes, LinkUpTypes, CtrlResetTypes DEF Fault
  <1>5. ASSUME NEW b \in Board, Tx(b) \/ TxBack(b) PROVE TypeOK'
    BY <1>5, FwdTxBeat0Types, FwdTxBeat1Types, RelayTxTypes, StreamEndTypes,
       BwdTxBeat0Types, BwdTxBeat1Types DEF Tx, TxBack
  <1>6. ASSUME NEW b \in Board, Rx(b) PROVE TypeOK'
    BY <1>6, RxHeaderTypes, RxEnumTypes, RxPauseReqTypes, RxGoTypes, RxReserveReqTypes,
       RxDiagReqTypes, RxDataLastTypes, RxAssignTypes DEF Rx
  <1>7. ASSUME NEW b \in Board, RxBack(b) PROVE TypeOK'
    BY <1>7, RxBackHeaderTypes, RxBackRelayTypes, RxPauseAckTypes, RxReserveAckTypes,
       RxDiagAckTypes DEF RxBack
  <1>8. CASE UNCHANGED vars
    BY <1>8, KeptTypes DEF TypeOK, vars, links, masterVars
  <1> QED
    BY <1>1, <1>2, <1>3, <1>4, <1>5, <1>6, <1>7, <1>8 DEF Next

\* Every register of every board keeps its width, whatever the number of boards
\* and the host's commands: no counter, index, id or frame field ever overflows.
THEOREM TypeCorrect == Spec => []TypeOK
  BY InitTypes, NextTypes, PTL DEF Spec

-----------------------------------------------------------------------------
(* The master fires once per GO.  The master owes a fire only while its GO *)
(* is in its slot; and no GO that comes back to it can make it fire again, *)
(* because it knows its own frames: its id stays 0, every GO carries it as *)
(* source, and no enumeration gives the master another index.              *)

Own(f) == /\ f.type = "GO" => f.src = 0
          /\ f.type = "ENUM_COUNT" => f.dest = 0
OwnBeat == {f \in Beat : Own(f)}

MasterKnown == boardId[Master] = 0 /\ boardIndex[Master] = 0
OwnFrames == /\ fwd \in [Board -> OwnBeat] /\ frx \in [Board -> OwnBeat]
             /\ fLink \in [Board -> Seq(OwnBeat)] /\ relayQ \in [Board -> Seq(OwnBeat)]

OwnInv == TypeOK /\ MasterKnown /\ OwnFrames

\* Frames of other types, and payloads, are never mistaken for the master's.
LEMMA OtherOwn ==
    ASSUME NEW f \in Beat, f.type \notin {"GO", "ENUM_COUNT"}
    PROVE  f \in OwnBeat
  BY DEF OwnBeat, Own

\* The type of a frame is the one it was built with.
LEMMA TypeOfFrame ==
    /\ \A t, s, d, p : /\ Frame(t, s, d, p).type = t /\ Frame(t, s, d, p).src = s
                       /\ Frame(t, s, d, p).dest = d
    /\ \A f \in Beat, x \in Word : LET g == [f EXCEPT !.pl = x]
                                   IN  g.type = f.type /\ g.src = f.src /\ g.dest = f.dest
  <1>1. \A f \in Beat, x \in Word : LET g == [f EXCEPT !.pl = x]
                                   IN  g.type = f.type /\ g.src = f.src /\ g.dest = f.dest
    BY DEF Beat
  <1> QED  BY <1>1 DEF Frame

\* Another payload leaves a frame the master's own; so does cutting it in two.
LEMMA OwnParts ==
    ASSUME NEW f \in OwnBeat
    PROVE  /\ \A x \in Word : [f EXCEPT !.pl = x] \in OwnBeat
           /\ Header(f) \in OwnBeat /\ Payload(f) \in OwnBeat
  <1>1. f \in Beat /\ Own(f)
    BY DEF OwnBeat
  <1>2. \A x \in Word : [f EXCEPT !.pl = x] \in OwnBeat
    BY <1>1, BeatParts, TypeOfFrame DEF OwnBeat, Own
  <1>3. Header(f) \in OwnBeat
    BY <1>2, Widths DEF Header
  <1>4. Payload(f) \in OwnBeat
    BY <1>1, BeatParts, TypeOfFrame, OtherOwn DEF Payload
  <1> QED  BY <1>2, <1>3, <1>4

\* A frame of the master with its own id is its own.
LEMMA MasterFrame ==
    ASSUME NEW t \in FwdTypes \cup BwdTypes \cup DataTypes, NEW s \in Id, NEW d \in 0..Bcast,
           NEW p \in Word, t = "GO" => s = 0, t = "ENUM_COUNT" => d = 0
    PROVE  Frame(t, s, d, p) \in OwnBeat
  <1>1. Frame(t, s, d, p) \in Beat
    BY FrameInBeat
  <1> QED  BY <1>1, TypeOfFrame DEF OwnBeat, Own

LEMMA NoFrameOwn == NoFrame \in OwnBeat
  BY NoFrameInBeat, TypeOfFrame, OtherOwn DEF NoFrame

\* What no action touched stays the master's own.
LEMMA KeptOwn ==
    /\ MasterKnown /\ UNCHANGED ids => MasterKnown'
    /\ fwd \in [Board -> OwnBeat] /\ UNCHANGED fwdSlot => fwd' \in [Board -> OwnBeat]
    /\ fLink \in [Board -> Seq(OwnBeat)] /\ UNCHANGED links => fLink' \in [Board -> Seq(OwnBeat)]
    /\ relayQ \in [Board -> Seq(OwnBeat)] /\ UNCHANGED layer2
         => relayQ' \in [Board -> Seq(OwnBeat)]
  BY DEF MasterKnown, ids, fwdSlot, links, layer2

LEMMA QueueFwdOwn ==
    ASSUME OwnFrames, NEW b \in Board, NEW f \in OwnBeat, QueueFwd(b, f)
    PROVE  fwd' \in [Board -> OwnBeat]
  BY DEF OwnFrames, QueueFwd

LEMMA PopFwdOwn ==
    ASSUME OwnFrames, NEW b \in Board, fLink[Pred(b)] # <<>>, PopFwd(b)
    PROVE  fLink' \in [Board -> Seq(OwnBeat)] /\ FwdHead(b) \in OwnBeat
  BY Neighbours, HeadTailProperties DEF OwnFrames, PopFwd, FwdHead

LEMMA SendFwdOwn ==
    ASSUME OwnFrames, NEW b \in Board, NEW f \in OwnBeat,
           fLink' = [fLink EXCEPT ![b] = Append(@, f)]
    PROVE  fLink' \in [Board -> Seq(OwnBeat)]
  BY AppendProperties DEF OwnFrames

LEMMA SetLockOwn ==
    ASSUME OwnFrames, NEW b \in Board, NEW on, SetLock(b, on)
    PROVE  relayQ' \in [Board -> Seq(OwnBeat)]
  BY DEF OwnFrames, SetLock

LEMMA LockAfterCheckOwn ==
    ASSUME OwnFrames, NEW b \in Board, LockAfterCheck(b)
    PROVE  relayQ' \in [Board -> Seq(OwnBeat)]
  BY DEF OwnFrames, LockAfterCheck

LEMMA HostOwn == OwnInv /\ Host => MasterKnown' /\ OwnFrames'
  <1> SUFFICES ASSUME OwnInv, Host PROVE MasterKnown' /\ OwnFrames'
    OBVIOUS
  <1>1. /\ Master \in Board /\ boardId[Master] = 0 /\ boardId[Master] \in Id
        /\ boardIndex[Master] = 0
    BY BoardAssumption DEF OwnInv, TypeOK, IdTypes, MasterKnown
  <1>2. /\ Frame("ENUM_COUNT", 0, boardId[Master], 0) \in OwnBeat
        /\ Frame("PAUSE_REQ", boardId[Master], Bcast, 0) \in OwnBeat
        /\ \A d \in HostDests : /\ Frame("RESERVE_REQ", boardId[Master], d, 0) \in OwnBeat
                                /\ Frame("DIAG_REQ", boardId[Master], d, 0) \in OwnBeat
    BY <1>1, HostAssumption, Widths, MasterFrame DEF FwdTypes
  <1>3. CASE InitStart
    BY <1>1, <1>2, <1>3, QueueFwdOwn, KeptOwn DEF OwnInv, OwnFrames, InitStart
  <1>4. CASE TrigStart
    <2>1. PICK g \in GroupSel : TrigBypass(g) \/ TrigHandshake(g)
      BY <1>4 DEF TrigStart
    <2>2. fwd' \in [Board -> OwnBeat] /\ relayQ' \in [Board -> Seq(OwnBeat)]
      <3>1. CASE TrigBypass(g)
        BY <3>1, KeptOwn DEF OwnInv, OwnFrames, TrigBypass
      <3>2. CASE TrigHandshake(g)
        BY <1>1, <1>2, <3>2, QueueFwdOwn, SetLockOwn DEF OwnInv, TrigHandshake
      <3> QED  BY <2>1, <3>1, <3>2
    <2> QED  BY <1>4, <2>2, KeptOwn DEF OwnInv, OwnFrames, TrigStart
  <1>5. CASE ReserveStart
    BY <1>1, <1>2, <1>5, QueueFwdOwn, KeptOwn DEF OwnInv, OwnFrames, ReserveStart
  <1>6. CASE DiagStart
    BY <1>1, <1>2, <1>6, QueueFwdOwn, KeptOwn DEF OwnInv, OwnFrames, DiagStart
  <1>7. CASE Assign
    <2>1. total \in Word
      BY Widths DEF OwnInv, TypeOK, EnumTypes
    <2>2. Frame("BOARD_ID_ASSIGN", boardId[Master], Bcast, total) \in OwnBeat
      BY <1>1, <2>1, Widths, MasterFrame DEF DataTypes
    <2>3. fLink' \in [Board -> Seq(OwnBeat)]
      BY <1>1, <1>7, <2>2, SendFwdOwn DEF OwnInv, Assign
    <2>4. MasterKnown'
      BY <1>1, <1>7 DEF Assign, TakeId, MasterKnown, OwnInv, TypeOK, IdTypes
    <2> QED  BY <1>7, <2>3, <2>4, KeptOwn DEF OwnInv, OwnFrames, Assign
  <1>8. ASSUME NEW b \in Board, StreamStart(b) PROVE MasterKnown' /\ OwnFrames'
    BY <1>8, KeptOwn DEF OwnInv, OwnFrames, StreamStart
  <1> QED  BY <1>3, <1>4, <1>5, <1>6, <1>7, <1>8 DEF Host

LEMMA TxOwn ==
    ASSUME OwnInv, NEW b \in Board, Tx(b) \/ TxBack(b) PROVE MasterKnown' /\ OwnFrames'
  <1>1. CASE FwdTxBeat0(b)
    <2>1. Header(fwd[b]) \in OwnBeat
      BY OwnParts DEF OwnInv, OwnFrames
    <2> QED  BY <1>1, <2>1, SendFwdOwn, KeptOwn DEF OwnInv, OwnFrames, FwdTxBeat0
  <1>2. CASE FwdTxBeat1(b)
    <2>1. Payload(fwd[b]) \in OwnBeat
      BY OwnParts DEF OwnInv, OwnFrames
    <2> QED  BY <1>2, <2>1, SendFwdOwn, KeptOwn DEF OwnInv, OwnFrames, FwdTxBeat1
  <1>3. CASE RelayTx(b)
    <2>1. Head(relayQ[b]) \in OwnBeat /\ Tail(relayQ[b]) \in Seq(OwnBeat)
      BY <1>3, HeadTailProperties DEF OwnInv, OwnFrames, RelayTx
    <2>2. fLink' \in [Board -> Seq(OwnBeat)]
      BY <1>3, <2>1, SendFwdOwn DEF OwnInv, OwnFrames, RelayTx
    <2>3. relayQ' \in [Board -> Seq(OwnBeat)]
      BY <1>3, <2>1 DEF OwnInv, OwnFrames, RelayTx
    <2> QED  BY <1>3, <2>2, <2>3, KeptOwn DEF OwnInv, OwnFrames, RelayTx
  <1>4. CASE StreamEnd(b)
    <2>1. PICK d \in Board : fLink' = [fLink EXCEPT ![b] =
                                       Append(@, Frame("DATA_LAST", boardId[b], d, 0))]
      BY <1>4 DEF StreamEnd
    <2>2. Frame("DATA_LAST", boardId[b], d, 0) \in OwnBeat
      BY Widths, MasterFrame DEF OwnInv, TypeOK, IdTypes, DataTypes
    <2>3. fLink' \in [Board -> Seq(OwnBeat)]
      BY <2>1, <2>2, SendFwdOwn DEF OwnInv
    <2> QED  BY <1>4, <2>3, KeptOwn DEF OwnInv, OwnFrames, StreamEnd
  <1>5. CASE BwdTxBeat0(b) \/ BwdTxBeat1(b)
    BY <1>5, KeptOwn DEF OwnInv, OwnFrames, BwdTxBeat0, BwdTxBeat1
  <1> QED  BY <1>1, <1>2, <1>3, <1>4, <1>5 DEF Tx, TxBack

LEMMA RxOwn ==
    ASSUME OwnInv, NEW b \in Board, Rx(b) PROVE MasterKnown' /\ OwnFrames'
  <1>1. CASE RxHeader(b)
    <2>1. fLink' \in [Board -> Seq(OwnBeat)] /\ FwdHead(b) \in OwnBeat
      BY <1>1, PopFwdOwn DEF OwnInv, RxHeader
    <2>2. frx' \in [Board -> OwnBeat]
      BY <1>1, <2>1 DEF OwnInv, OwnFrames, RxHeader
    <2> QED  BY <1>1, <2>1, <2>2, KeptOwn DEF OwnInv, OwnFrames, RxHeader
  <1>2. ASSUME NEW t, RxPayload(b, t)
        PROVE  /\ fLink' \in [Board -> Seq(OwnBeat)] /\ frx' \in [Board -> OwnBeat]
               /\ FwdHead(b) \in Beat /\ frx[b] \in OwnBeat /\ frx[b] \in Beat
    <2>1. fLink' \in [Board -> Seq(OwnBeat)] /\ FwdHead(b) \in OwnBeat
      BY <1>2, PopFwdOwn DEF OwnInv, RxPayload
    <2>2. frx' \in [Board -> OwnBeat] /\ frx[b] \in OwnBeat
      BY <1>2, NoFrameOwn DEF OwnInv, OwnFrames, RxPayload
    <2> QED  BY <2>1, <2>2 DEF OwnBeat
  <1>3. CASE RxEnum(b)
    <2> DEFINE count == Counted(FwdHead(b))
    <2>1. /\ fLink' \in [Board -> Seq(OwnBeat)] /\ frx' \in [Board -> OwnBeat]
          /\ FwdHead(b) \in Beat /\ frx[b] \in OwnBeat /\ frx[b].type = "ENUM_COUNT"
      BY <1>2, <1>3 DEF RxEnum, RxPayload
    <2>2. count \in 0..16 /\ count % 16 \in 0..31
      <3>1. Low4(FwdHead(b)) \in 0..15
        BY <2>1, BitsInWord
      <3> QED  BY <3>1 DEF Counted
    <2>3. frx[b].dest = 0
      BY <2>1 DEF OwnBeat, Own
    <2>4. CASE frx[b].dest = boardId[b]
      BY <1>3, <2>1, <2>4, KeptOwn DEF OwnInv, OwnFrames, RxEnum, MasterKnown
    <2>5. CASE frx[b].dest # boardId[b]
      <3>1. b # Master
        BY <2>3, <2>5 DEF OwnInv, MasterKnown
      <3>2. MasterKnown'
        BY <1>3, <2>5, <3>1, BoardAssumption DEF OwnInv, MasterKnown, RxEnum, TypeOK, IdTypes
      <3>3. [frx[b] EXCEPT !.pl = count % 16] \in OwnBeat
        BY <2>1, <2>2, OwnParts, Widths
      <3>4. fwd' \in [Board -> OwnBeat]
        BY <1>3, <2>5, <3>3, QueueFwdOwn DEF OwnInv, RxEnum
      <3> QED  BY <1>3, <2>1, <3>2, <3>4, KeptOwn DEF OwnInv, OwnFrames, RxEnum
    <2> QED  BY <2>4, <2>5
  <1>4. frx[b] \in OwnBeat => [frx[b] EXCEPT !.pl = 0] \in OwnBeat
    BY OwnParts, Widths
  <1>5. CASE RxPauseReq(b)
    <2>1. fLink' \in [Board -> Seq(OwnBeat)] /\ frx' \in [Board -> OwnBeat] /\ frx[b] \in OwnBeat
      BY <1>2, <1>5 DEF RxPauseReq
    <2>2. fwd' \in [Board -> OwnBeat]
      BY <1>4, <1>5, <2>1, QueueFwdOwn, KeptOwn DEF OwnInv, OwnFrames, RxPauseReq
    <2>3. relayQ' \in [Board -> Seq(OwnBeat)]
      BY <1>5, SetLockOwn DEF OwnInv, RxPauseReq
    <2> QED  BY <1>5, <2>1, <2>2, <2>3, KeptOwn DEF OwnInv, OwnFrames, RxPauseReq
  <1>6. CASE RxGo(b)
    <2> DEFINE g == Low4(FwdHead(b))
    <2>1. /\ fLink' \in [Board -> Seq(OwnBeat)] /\ frx' \in [Board -> OwnBeat]
          /\ FwdHead(b) \in Beat /\ frx[b] \in OwnBeat
      BY <1>2, <1>6 DEF RxGo
    <2>2. g \in 0..31
      BY <2>1, BitsInWord
    <2>3. [frx[b] EXCEPT !.pl = g] \in OwnBeat
      BY <2>1, <2>2, OwnParts, Widths
    <2>4. fwd' \in [Board -> OwnBeat]
      BY <1>6, <2>3, QueueFwdOwn, KeptOwn DEF OwnInv, OwnFrames, RxGo
    <2>5. relayQ' \in [Board -> Seq(OwnBeat)]
      BY <1>6, SetLockOwn DEF OwnInv, RxGo
    <2> QED  BY <1>6, <2>1, <2>4, <2>5, KeptOwn DEF OwnInv, OwnFrames, RxGo
  <1>7. CASE RxReserveReq(b)
    <2>1. fLink' \in [Board -> Seq(OwnBeat)] /\ frx' \in [Board -> OwnBeat] /\ frx[b] \in OwnBeat
      BY <1>2, <1>7 DEF RxReserveReq
    <2>2. fwd' \in [Board -> OwnBeat]
      BY <1>4, <1>7, <2>1, QueueFwdOwn, KeptOwn DEF OwnInv, OwnFrames, RxReserveReq
    <2>3. relayQ' \in [Board -> Seq(OwnBeat)]
      BY <1>7, LockAfterCheckOwn, KeptOwn DEF OwnInv, OwnFrames, RxReserveReq
    <2> QED  BY <1>7, <2>1, <2>2, <2>3, KeptOwn DEF OwnInv, OwnFrames, RxReserveReq
  <1>8. CASE RxDiagReq(b)
    <2>1. fLink' \in [Board -> Seq(OwnBeat)] /\ frx' \in [Board -> OwnBeat] /\ frx[b] \in OwnBeat
      BY <1>2, <1>8 DEF RxDiagReq
    <2>2. fwd' \in [Board -> OwnBeat]
      BY <1>4, <1>8, <2>1, QueueFwdOwn, KeptOwn DEF OwnInv, OwnFrames, RxDiagReq
    <2> QED  BY <1>8, <2>1, <2>2, KeptOwn DEF OwnInv, OwnFrames, RxDiagReq
  <1>9. ASSUME NEW h \in OwnBeat PROVE Relayed(b, h) \in [Board -> Seq(OwnBeat)]
    BY AppendProperties DEF OwnInv, OwnFrames, Relayed
  <1>10. CASE RxDataLast(b)
    <2>1. fLink' \in [Board -> Seq(OwnBeat)] /\ FwdHead(b) \in OwnBeat
      BY <1>10, PopFwdOwn DEF OwnInv, RxDataLast
    <2>2. relayQ' \in [Board -> Seq(OwnBeat)]
      BY <1>9, <1>10, <2>1 DEF OwnInv, OwnFrames, RxDataLast
    <2> QED  BY <1>10, <2>1, <2>2, KeptOwn DEF OwnInv, OwnFrames, RxDataLast
  <1>11. CASE RxAssign(b)
    <2>1. fLink' \in [Board -> Seq(OwnBeat)] /\ FwdHead(b) \in OwnBeat
      BY <1>11, PopFwdOwn DEF OwnInv, RxAssign
    <2>2. relayQ' \in [Board -> Seq(OwnBeat)]
      BY <1>9, <1>11, <2>1 DEF OwnInv, OwnFrames, RxAssign
    <2>3. MasterKnown'
      BY <1>11, BoardAssumption
         DEF OwnInv, MasterKnown, RxAssign, TakeId, ids, TypeOK, IdTypes
    <2> QED  BY <1>11, <2>1, <2>2, <2>3, KeptOwn DEF OwnInv, OwnFrames, RxAssign
  <1> QED
    BY <1>1, <1>3, <1>5, <1>6, <1>7, <1>8, <1>10, <1>11 DEF Rx

LEMMA RxBackOwn ==
    ASSUME OwnInv, NEW b \in Board, RxBack(b) PROVE MasterKnown' /\ OwnFrames'
  <1>1. UNCHANGED <<fwdSlot, fLink, frx, layer2, ids>>
    BY DEF RxBack, RxBackHeader, RxBackRelay, RxPauseAck, RxReserveAck, RxDiagAck,
           RxBackPayload, PopBwd
  <1> QED  BY <1>1, KeptOwn DEF OwnInv, OwnFrames

LEMMA ResetOwn ==
    ASSUME OwnInv, NEW b \in Board, ResetBoard(b)
    PROVE  /\ MasterKnown' /\ fwd' \in [Board -> OwnBeat] /\ frx' \in [Board -> OwnBeat]
           /\ relayQ' \in [Board -> Seq(OwnBeat)]
  <1>1. MasterKnown'
    BY BoardAssumption DEF OwnInv, TypeOK, IdTypes, MasterKnown, ResetBoard
  <1>2. fwd' \in [Board -> OwnBeat] /\ frx' \in [Board -> OwnBeat]
    BY NoFrameOwn DEF OwnInv, OwnFrames, ResetBoard
  <1>3. relayQ' \in [Board -> Seq(OwnBeat)]
    BY EmptySeq DEF OwnInv, OwnFrames, ResetBoard
  <1> QED  BY <1>1, <1>2, <1>3

LEMMA FaultOwn == OwnInv /\ Fault => MasterKnown' /\ OwnFrames'
  <1> SUFFICES ASSUME OwnInv, Fault PROVE MasterKnown' /\ OwnFrames'
    OBVIOUS
  <1>1. ASSUME NEW b \in Board, LinkDown(b) PROVE MasterKnown' /\ OwnFrames'
    <2>1. fLink' \in [Board -> Seq(OwnBeat)]
      BY <1>1, EmptySeq DEF OwnInv, OwnFrames, LinkDown
    <2> QED  BY <1>1, <2>1, Neighbours, ResetOwn DEF OwnFrames, LinkDown
  <1>2. ASSUME NEW b \in Board, LinkUp(b) PROVE MasterKnown' /\ OwnFrames'
    BY <1>2, KeptOwn DEF OwnInv, OwnFrames, LinkUp
  <1>3. ASSUME NEW b \in Board, CtrlReset(b) PROVE MasterKnown' /\ OwnFrames'
    BY <1>3, KeptOwn, ResetOwn DEF OwnInv, OwnFrames, CtrlReset
  <1> QED  BY <1>1, <1>2, <1>3 DEF Fault

LEMMA NextOwn == OwnInv /\ [Next]_vars => OwnInv'
  <1> SUFFICES ASSUME OwnInv, [Next]_vars PROVE MasterKnown' /\ OwnFrames'
    BY NextTypes DEF OwnInv
  <1>1. CASE Timeout
    BY <1>1, KeptOwn
       DEF OwnInv, OwnFrames, Timeout, EnumTimeout, ReserveTimeout, DiagTimeout
  <1>2. CASE SendGo
    <2>1. pendGroup \in Word /\ boardId[Master] = 0
      BY Widths DEF OwnInv, MasterKnown, TypeOK, TrigTypes, Word
    <2>2. Frame("GO", boardId[Master], Bcast, pendGroup) \in OwnBeat
      BY <2>1, Widths, MasterFrame DEF FwdTypes
    <2>3. fwd' \in [Board -> OwnBeat] /\ relayQ' \in [Board -> Seq(OwnBeat)]
      BY <1>2, <2>2, BoardAssumption, QueueFwdOwn, SetLockOwn DEF OwnInv, SendGo
    <2> QED  BY <1>2, <2>3, KeptOwn DEF OwnInv, OwnFrames, SendGo
  <1>3. CASE UNCHANGED vars
    BY <1>3, KeptOwn DEF OwnInv, OwnFrames, vars
  <1> QED
    BY <1>1, <1>2, <1>3, HostOwn, TxOwn, RxOwn, RxBackOwn, FaultOwn DEF Next

LEMMA InitOwn == Init => OwnInv
  <1> SUFFICES ASSUME Init PROVE MasterKnown /\ OwnFrames
    BY InitTypes DEF OwnInv
  <1>1. MasterKnown
    BY BoardAssumption DEF Init, MasterKnown
  <1>2. OwnFrames
    BY NoFrameOwn, EmptySeq DEF Init, OwnFrames
  <1> QED  BY <1>1, <1>2

-----------------------------------------------------------------------------
(* The debt of the master: at most the GO in its slot.                     *)

FireInv == OwnInv /\ SlotDiscipline /\ MasterFiresOncePerGo

\* Types the arithmetic needs.
LEMMA FireTypes ==
    ASSUME OwnInv
    PROVE  /\ Master \in Board /\ Len(fires[Master]) \in Nat /\ Len(goLog) \in Nat
           /\ fires \in [Board -> Seq(0..15)] /\ goLog \in Seq(0..15)
           /\ pendGroup \in 0..15
           /\ fwdPending \in [Board -> BOOLEAN] /\ ftxBeat1 \in [Board -> BOOLEAN]
           /\ bwdPending \in [Board -> BOOLEAN] /\ btxBeat1 \in [Board -> BOOLEAN]
  <1>1. Master \in Board
    BY BoardAssumption
  <1>2. fires \in [Board -> Seq(0..15)] /\ goLog \in Seq(0..15)
    BY DEF OwnInv, TypeOK, HistTypes
  <1>3. Len(fires[Master]) \in Nat /\ Len(goLog) \in Nat
    BY <1>1, <1>2, LenProperties
  <1> QED  BY <1>1, <1>2, <1>3 DEF OwnInv, TypeOK, TrigTypes, SlotTypes

\* Queueing a frame and leaving the debt alone keeps the debt.
LEMMA FireKept ==
    ASSUME FireInv, UNCHANGED <<goTx, goLog>>, fires'[Master] = fires[Master],
           \A b \in Board : /\ fwdPending[b] => fwdPending'[b]
                            /\ ftxBeat1'[b] => ftxBeat1[b]
                            /\ bwdPending[b] => bwdPending'[b]
                            /\ btxBeat1'[b] => btxBeat1[b]
    PROVE  SlotDiscipline' /\ MasterFiresOncePerGo'
  <1>1. Master \in Board
    BY BoardAssumption
  <1>2. SlotDiscipline'
    BY Zenon DEF FireInv, SlotDiscipline
  <1>3. goTx' => fwdPending'[Master]
    <2>1. (goTx' <=> goTx) /\ (fwdPending[Master] => fwdPending'[Master])
      BY <1>1, Zenon
    <2>2. goTx => fwdPending[Master]
      BY Zenon DEF FireInv, MasterFiresOncePerGo
    <2> QED  BY <2>1, <2>2, Zenon
  <1>4. Len(fires'[Master]) + (IF goTx' THEN 1 ELSE 0) <= Len(goLog')
    <2>1. (IF goTx' THEN 1 ELSE 0) = (IF goTx THEN 1 ELSE 0)
      BY Zenon
    <2>2. Len(fires[Master]) + (IF goTx THEN 1 ELSE 0) <= Len(goLog)
      BY Zenon DEF FireInv, MasterFiresOncePerGo
    <2> QED  BY <2>1, <2>2, Zenon
  <1> QED  BY <1>2, <1>3, <1>4 DEF MasterFiresOncePerGo

\* A board other than the one that acts keeps its slots: the queue sets a bit.
LEMMA QueueFwdKeeps ==
    ASSUME OwnInv, NEW b \in Board, NEW f, QueueFwd(b, f)
    PROVE  /\ \A c \in Board : fwdPending[c] => fwdPending'[c]
           /\ UNCHANGED ftxBeat1
  BY FireTypes DEF QueueFwd

LEMMA QueueBwdKeeps ==
    ASSUME OwnInv, NEW b \in Board, NEW f, QueueBwd(b, f)
    PROVE  /\ \A c \in Board : bwdPending[c] => bwdPending'[c]
           /\ UNCHANGED btxBeat1
  BY FireTypes DEF QueueBwd

LEMMA HostFires == FireInv /\ Host => SlotDiscipline' /\ MasterFiresOncePerGo'
  <1> SUFFICES ASSUME FireInv, Host PROVE SlotDiscipline' /\ MasterFiresOncePerGo'
    OBVIOUS
  <1>1. OwnInv /\ Master \in Board
    BY FireTypes DEF FireInv
  <1>2. UNCHANGED <<goTx, goLog, fires>> /\ UNCHANGED bwdSlot
    <2>1. CASE InitStart
      BY <2>1 DEF InitStart, trigVars, hist
    <2>2. CASE TrigStart
      BY <2>2 DEF TrigStart, TrigBypass, TrigHandshake, hist
    <2>3. CASE ReserveStart
      BY <2>3 DEF ReserveStart, trigVars, hist
    <2>4. CASE DiagStart
      BY <2>4 DEF DiagStart, trigVars, hist
    <2>5. CASE Assign
      BY <2>5 DEF Assign, masterVars, trigVars, hist
    <2>6. CASE \E b \in Board : StreamStart(b)
      BY <2>6 DEF StreamStart, masterVars, trigVars, hist
    <2> QED  BY <2>1, <2>2, <2>3, <2>4, <2>5, <2>6 DEF Host
  <1>3. \/ UNCHANGED fwdSlot
        \/ \E f : QueueFwd(Master, f)
    <2>1. CASE InitStart
      BY <2>1 DEF InitStart
    <2>2. CASE TrigStart
      BY <2>2 DEF TrigStart, TrigBypass, TrigHandshake
    <2>3. CASE ReserveStart
      BY <2>3 DEF ReserveStart
    <2>4. CASE DiagStart
      BY <2>4 DEF DiagStart
    <2>5. CASE Assign
      BY <2>5 DEF Assign
    <2>6. CASE \E b \in Board : StreamStart(b)
      BY <2>6 DEF StreamStart
    <2> QED  BY <2>1, <2>2, <2>3, <2>4, <2>5, <2>6 DEF Host
  <1>4. /\ \A c \in Board : fwdPending[c] => fwdPending'[c]
        /\ UNCHANGED ftxBeat1
    BY <1>1, <1>3, QueueFwdKeeps DEF fwdSlot
  <1> QED  BY <1>2, <1>4, FireKept DEF bwdSlot

LEMMA SendGoFires == FireInv /\ SendGo => SlotDiscipline' /\ MasterFiresOncePerGo'
  <1> SUFFICES ASSUME FireInv, SendGo PROVE SlotDiscipline' /\ MasterFiresOncePerGo'
    OBVIOUS
  <1>1. ~goTx
    BY DEF FireInv, MasterFiresOncePerGo, SendGo, GoReady
  <1>2. Len(goLog') = Len(goLog) + 1
    BY FireTypes, AppendProperties DEF FireInv, SendGo
  <1>3. SlotDiscipline'
    BY FireTypes DEF FireInv, SlotDiscipline, SendGo, QueueFwd, bwdSlot
  <1>4. fwdPending'[Master] /\ goTx' /\ fires' = fires
    BY FireTypes DEF FireInv, SendGo, QueueFwd
  <1> QED
    BY <1>1, <1>2, <1>3, <1>4, FireTypes DEF FireInv, MasterFiresOncePerGo

LEMMA TxFires ==
    ASSUME FireInv, NEW b \in Board, Tx(b) \/ TxBack(b)
    PROVE  SlotDiscipline' /\ MasterFiresOncePerGo'
  <1>1. CASE FwdTxBeat0(b)
    <2>1. SlotDiscipline'
      BY <1>1, FireTypes DEF FireInv, SlotDiscipline, FwdTxBeat0, bwdSlot
    <2> QED
      BY <1>1, <2>1 DEF FireInv, MasterFiresOncePerGo, FwdTxBeat0, masterVars, trigVars, hist
  <1>2. CASE FwdTxBeat1(b)
    <2>1. SlotDiscipline'
      BY <1>2, FireTypes DEF FireInv, SlotDiscipline, FwdTxBeat1, bwdSlot
    <2>2. CASE b = Master /\ goTx
      <3>1. ~goTx' /\ fires' = [fires EXCEPT ![Master] = Append(fires[Master], pendGroup)]
            /\ goLog' = goLog
        BY <1>2, <2>2 DEF FwdTxBeat1, MasterFires
      <3>2. Len(fires'[Master]) = Len(fires[Master]) + 1
        BY <3>1, FireTypes, AppendProperties DEF FireInv
      <3> QED
        BY <2>1, <2>2, <3>1, <3>2, FireTypes DEF FireInv, MasterFiresOncePerGo
    <2>3. CASE ~(b = Master /\ goTx)
      <3>1. goTx' = goTx /\ fires' = fires /\ goLog' = goLog
        BY <1>2, <2>3 DEF FwdTxBeat1, MasterFires
      <3>2. goTx => fwdPending'[Master]
        BY <1>2, <2>3, FireTypes DEF FireInv, MasterFiresOncePerGo, FwdTxBeat1
      <3> QED
        BY <2>1, <3>1, <3>2 DEF FireInv, MasterFiresOncePerGo
    <2> QED  BY <2>2, <2>3
  <1>3. CASE BwdTxBeat0(b)
    <2>1. SlotDiscipline'
      BY <1>3, FireTypes DEF FireInv, SlotDiscipline, BwdTxBeat0, fwdSlot
    <2> QED
      BY <1>3, <2>1
         DEF FireInv, MasterFiresOncePerGo, BwdTxBeat0, fwdSlot, masterVars, trigVars, hist
  <1>4. CASE BwdTxBeat1(b)
    <2>1. SlotDiscipline'
      BY <1>4, FireTypes DEF FireInv, SlotDiscipline, BwdTxBeat1, fwdSlot
    <2> QED
      BY <1>4, <2>1
         DEF FireInv, MasterFiresOncePerGo, BwdTxBeat1, fwdSlot, masterVars, trigVars, hist
  <1>5. CASE RelayTx(b) \/ StreamEnd(b)
    <2>1. UNCHANGED <<fwdSlot, bwdSlot, goTx, goLog, fires>>
      BY <1>5 DEF RelayTx, StreamEnd, masterVars, trigVars, hist
    <2> QED  BY <2>1, FireKept DEF fwdSlot, bwdSlot
  <1> QED  BY <1>1, <1>2, <1>3, <1>4, <1>5 DEF Tx, TxBack
LEMMA RxFires ==
    ASSUME FireInv, NEW b \in Board, Rx(b)
    PROVE  SlotDiscipline' /\ MasterFiresOncePerGo'
  <1>1. OwnInv /\ Master \in Board
    BY FireTypes DEF FireInv
  <1>2. UNCHANGED fwdSlot \/ \E f : QueueFwd(b, f)
    BY Zenon DEF Rx, RxHeader, RxEnum, RxPauseReq, RxGo, RxReserveReq, RxDiagReq,
                 RxDataLast, RxAssign
  <1>3. UNCHANGED bwdSlot \/ \E f : QueueBwd(b, f)
    BY Zenon DEF Rx, RxHeader, RxEnum, RxPauseReq, RxGo, RxReserveReq, RxDiagReq,
                 RxDataLast, RxAssign
  <1>4. UNCHANGED <<goTx, goLog>>
    BY DEF Rx, RxHeader, RxEnum, RxPauseReq, RxGo, RxReserveReq, RxDiagReq,
           RxDataLast, RxAssign, masterVars, trigVars, hist
  \* A GO that reaches the master is its own: it does not fire a second time.
  <1>5. fires'[Master] = fires[Master]
    <2>1. CASE RxGo(b)
      <3>1. CASE b = Master
        <4>1. frx[Master].type = "GO" /\ frx[Master] \in OwnBeat
          BY <1>1, <2>1, <3>1 DEF RxGo, RxPayload, OwnInv, OwnFrames
        <4>2. RingReturn(Master)
          BY <1>1, <4>1 DEF OwnBeat, Own, RingReturn, OwnInv, MasterKnown
        <4> QED  BY <2>1, <3>1, <4>2 DEF RxGo
      <3>2. CASE b # Master
        BY <2>1, <3>2, FireTypes, <1>1 DEF RxGo
      <3> QED  BY <3>1, <3>2
    <2>2. CASE ~RxGo(b)
      BY <2>2 DEF Rx, RxHeader, RxEnum, RxPauseReq, RxReserveReq, RxDiagReq,
                  RxDataLast, RxAssign, hist
    <2> QED  BY <2>1, <2>2
  <1>6. /\ \A c \in Board : fwdPending[c] => fwdPending'[c]
        /\ UNCHANGED ftxBeat1
    BY <1>1, <1>2, QueueFwdKeeps DEF fwdSlot
  <1>7. /\ \A c \in Board : bwdPending[c] => bwdPending'[c]
        /\ UNCHANGED btxBeat1
    BY <1>1, <1>3, QueueBwdKeeps DEF bwdSlot
  <1> QED  BY <1>4, <1>5, <1>6, <1>7, FireKept

LEMMA RxBackFires ==
    ASSUME FireInv, NEW b \in Board, RxBack(b)
    PROVE  SlotDiscipline' /\ MasterFiresOncePerGo'
  <1>1. UNCHANGED <<fwdSlot, goTx, goLog, fires>>
    BY DEF RxBack, RxBackHeader, RxBackRelay, RxPauseAck, RxReserveAck, RxDiagAck,
           masterVars, trigVars, hist
  <1>2. UNCHANGED bwdSlot \/ \E f : QueueBwd(b, f)
    BY Zenon DEF RxBack, RxBackHeader, RxBackRelay, RxPauseAck, RxReserveAck, RxDiagAck
  <1>3. OwnInv
    BY DEF FireInv
  <1>4. /\ \A c \in Board : bwdPending[c] => bwdPending'[c]
        /\ UNCHANGED btxBeat1
    BY <1>2, <1>3, QueueBwdKeeps DEF bwdSlot
  <1> QED  BY <1>1, <1>4, FireKept DEF fwdSlot

\* A reset empties the slots of the board, and with the master's the debt.
LEMMA ResetFires ==
    ASSUME FireInv, NEW b \in Board, ResetBoard(b)
    PROVE  SlotDiscipline' /\ MasterFiresOncePerGo'
  <1>1. SlotDiscipline'
    BY FireTypes DEF FireInv, SlotDiscipline, ResetBoard
  <1>2. UNCHANGED <<fires, goLog>>
    BY DEF ResetBoard, hist
  <1>3. CASE b = Master
    <2>1. ~goTx'
      BY <1>3 DEF ResetBoard
    <2> QED  BY <1>1, <1>2, <2>1, FireTypes DEF FireInv, MasterFiresOncePerGo
  <1>4. CASE b # Master
    <2>1. goTx' = goTx /\ fwdPending'[Master] = fwdPending[Master]
      BY <1>4, FireTypes DEF FireInv, ResetBoard, masterVars, trigVars
    <2> QED  BY <1>1, <1>2, <2>1 DEF FireInv, MasterFiresOncePerGo
  <1> QED  BY <1>3, <1>4

LEMMA NextFires == FireInv /\ [Next]_vars => FireInv'
  <1> SUFFICES ASSUME FireInv, [Next]_vars PROVE SlotDiscipline' /\ MasterFiresOncePerGo'
    BY NextOwn DEF FireInv
  <1>1. CASE Timeout
    <2>1. UNCHANGED <<fwdSlot, bwdSlot, goTx, goLog, fires>>
      BY <1>1 DEF Timeout, EnumTimeout, ReserveTimeout, DiagTimeout, trigVars, hist
    <2> QED  BY <2>1, FireKept DEF fwdSlot, bwdSlot
  <1>2. CASE Fault
    <2>1. PICK b \in Board : LinkDown(b) \/ LinkUp(b) \/ CtrlReset(b)
      BY <1>2 DEF Fault
    <2>2. CASE LinkDown(b)
      BY <2>2, Neighbours, ResetFires DEF LinkDown
    <2>3. CASE LinkUp(b)
      <3>1. UNCHANGED <<fwdSlot, bwdSlot, goTx, goLog, fires>>
        BY <2>3 DEF LinkUp, masterVars, trigVars, hist
      <3> QED  BY <3>1, FireKept DEF fwdSlot, bwdSlot
    <2>4. CASE CtrlReset(b)
      BY <2>4, ResetFires DEF CtrlReset
    <2> QED  BY <2>1, <2>2, <2>3, <2>4
  <1>3. CASE UNCHANGED vars
    <2>1. UNCHANGED <<fwdSlot, bwdSlot, goTx, goLog, fires>>
      BY <1>3 DEF vars, masterVars, trigVars, hist
    <2> QED  BY <2>1, FireKept DEF fwdSlot, bwdSlot
  <1> QED
    BY <1>1, <1>2, <1>3, HostFires, SendGoFires, TxFires, RxFires, RxBackFires DEF Next

LEMMA InitFires == Init => FireInv
  <1> SUFFICES ASSUME Init PROVE SlotDiscipline /\ MasterFiresOncePerGo
    BY InitOwn DEF FireInv
  <1>1. SlotDiscipline
    BY DEF Init, SlotDiscipline
  <1>2. ~goTx /\ Len(fires[Master]) = 0 /\ Len(goLog) = 0
    BY BoardAssumption, EmptySeq DEF Init
  <1> QED  BY <1>1, <1>2 DEF MasterFiresOncePerGo

\* In every reachable state, for every ring size, budget and host behaviour,
\* with slots overwritten, cables dropped and boards reset: the master has
\* fired at most once per GO it decided.  The trig_go_tx_pending register of
\* aurora_ctrl_channel.v is the whole of the argument: it is set with the GO,
\* cleared with the next forward frame that leaves, and the GO that comes back
\* round carries the master's own board id.
THEOREM MasterFiresAtMostOnce == Spec => []MasterFiresOncePerGo
  <1>1. Init => FireInv
    BY InitFires
  <1>2. FireInv /\ [Next]_vars => FireInv'
    BY NextFires
  <1>3. FireInv => MasterFiresOncePerGo
    BY DEF FireInv
  <1> QED  BY <1>1, <1>2, <1>3, PTL DEF Spec

\* A transmitter that has sent a header still holds the frame: no handler of
\* the board empties the slot between the two beats.
THEOREM SlotsHeld == Spec => []SlotDiscipline
  <1>1. Init => FireInv
    BY InitFires
  <1>2. FireInv /\ [Next]_vars => FireInv'
    BY NextFires
  <1>3. FireInv => SlotDiscipline
    BY DEF FireInv
  <1> QED  BY <1>1, <1>2, <1>3, PTL DEF Spec

-----------------------------------------------------------------------------
(* The ring's geometry.                                                    *)

\* One turn of the ring brings a number back.
LEMMA OnceRound ==
    ASSUME NEW y \in Nat, y < N
    PROVE  y % N = y /\ (y + N) % N = y
  BY BoardAssumption

\* Successor, predecessor and distance from the master without the remainders.
LEMMA Places ==
    \A b \in Board : /\ Succ(b) = IF b + 1 < N THEN b + 1 ELSE 0
                     /\ Pred(b) = IF b > 0 THEN b - 1 ELSE N - 1
                     /\ Dist(b) = IF b >= Master THEN b - Master ELSE b + N - Master
  <1>0. N \in Nat /\ N >= 2 /\ N <= 16 /\ Master \in 0..N-1
    BY BoardAssumption DEF Board
  <1> SUFFICES ASSUME NEW b \in 0..N-1
               PROVE  /\ Succ(b) = IF b + 1 < N THEN b + 1 ELSE 0
                      /\ Pred(b) = IF b > 0 THEN b - 1 ELSE N - 1
                      /\ Dist(b) = IF b >= Master THEN b - Master ELSE b + N - Master
    BY DEF Board
  <1>1. Succ(b) = IF b + 1 < N THEN b + 1 ELSE 0
    <2>1. CASE b + 1 < N
      BY <1>0, <2>1, OnceRound DEF Succ
    <2>2. CASE b + 1 = N
      <3>1. (0 + N) % N = 0
        BY <1>0, OnceRound
      <3> QED  BY <1>0, <2>2, <3>1 DEF Succ
    <2> QED  BY <1>0, <2>1, <2>2
  <1>2. Pred(b) = IF b > 0 THEN b - 1 ELSE N - 1
    <2>1. CASE b > 0
      <3>1. PICK y \in Nat : y = b - 1 /\ y < N /\ b + N - 1 = y + N
        BY <1>0, <2>1
      <3> QED  BY <2>1, <3>1, OnceRound DEF Pred
    <2>2. CASE b = 0
      BY <1>0, <2>2, OnceRound DEF Pred
    <2> QED  BY <2>1, <2>2
  <1>3. Dist(b) = IF b >= Master THEN b - Master ELSE b + N - Master
    <2>1. CASE b >= Master
      <3>1. PICK y \in Nat : y = b - Master /\ y < N /\ b + N - Master = y + N
        BY <1>0, <2>1
      <3> QED  BY <2>1, <3>1, OnceRound DEF Dist
    <2>2. CASE b < Master
      <3>1. b + N - Master \in Nat /\ b + N - Master < N
        BY <1>0, <2>2
      <3> QED  BY <1>0, <2>2, <3>1, OnceRound DEF Dist
    <2> QED  BY <1>0, <2>1, <2>2
  <1> QED  BY <1>1, <1>2, <1>3

\* The places of the boards: the ring closes at LastBoard, and the distance from the master names a board.
LEMMA Ring ==
    /\ Master \in Board /\ LastBoard \in Board /\ LastBoard # Master
    /\ Dist(Master) = 0 /\ Dist(LastBoard) = N - 1 /\ Succ(LastBoard) = Master
    /\ \A b \in Board :
         /\ Succ(b) \in Board /\ Pred(b) \in Board
         /\ Succ(Pred(b)) = b /\ Pred(Succ(b)) = b
         /\ Dist(b) \in 0..N-1
         /\ Dist(b) = 0 => b = Master
         /\ Dist(b) = N - 1 => b = LastBoard
         /\ Succ(b) = Master => b = LastBoard
         /\ b # LastBoard => Dist(Succ(b)) = Dist(b) + 1
         /\ b # Master => Dist(b) = Dist(Pred(b)) + 1
    /\ \A b, c \in Board : Dist(b) = Dist(c) => b = c
  <1>0. N \in Nat /\ N >= 2 /\ N <= 16 /\ Master \in 0..N-1
    BY BoardAssumption DEF Board
  <1>1. \A b \in Board : Succ(b) \in Board /\ Pred(b) \in Board
    BY <1>0, Places DEF Board
  <1>2. \A b \in Board : Succ(Pred(b)) = b /\ Pred(Succ(b)) = b
    BY <1>0, <1>1, Places DEF Board
  <1>3. /\ Master \in Board /\ LastBoard \in Board /\ LastBoard # Master
        /\ Dist(Master) = 0 /\ Dist(LastBoard) = N - 1 /\ Succ(LastBoard) = Master
    BY <1>0, <1>1, <1>2, Places DEF Board, LastBoard
  <1>4. \A b \in Board : Dist(b) \in 0..N-1 /\ (Dist(b) = 0 => b = Master)
    BY <1>0, Places DEF Board
  <1>5. \A b, c \in Board : Dist(b) = Dist(c) => b = c
    BY <1>0, Places DEF Board
  <1>6. ASSUME NEW b \in Board PROVE Succ(b) = Master => b = LastBoard
    BY <1>2 DEF LastBoard
  <1>7. ASSUME NEW b \in Board PROVE b # LastBoard => Dist(Succ(b)) = Dist(b) + 1
    <2>1. Succ(b) \in Board /\ (b # LastBoard => Succ(b) # Master)
      BY <1>1, <1>6
    <2>2. b \in 0..N-1 /\ Succ(b) = IF b + 1 < N THEN b + 1 ELSE 0
      BY Places DEF Board
    <2>3. Dist(b) = IF b >= Master THEN b - Master ELSE b + N - Master
      BY Places
    <2>4. Dist(Succ(b)) = IF Succ(b) >= Master THEN Succ(b) - Master ELSE Succ(b) + N - Master
      BY <2>1, Places
    <2>5. CASE b + 1 < N
      BY <1>0, <2>1, <2>2, <2>3, <2>4, <2>5
    <2>6. CASE b = N - 1
      <3>1. Succ(b) = 0 /\ Dist(b) = N - 1 - Master
        BY <1>0, <2>2, <2>3, <2>6
      <3>2. b # LastBoard => Master # 0
        BY <2>1, <3>1
      <3>3. Master # 0 => Dist(Succ(b)) = N - Master
        <4>1. 0 \in Board /\ Dist(0) = IF 0 >= Master THEN 0 - Master ELSE 0 + N - Master
          BY <2>1, <3>1, Places
        <4>2. Master # 0 => Dist(0) = N - Master
          BY <1>0, <4>1, SMT
        <4> QED  BY <3>1, <4>2
      <3> QED  BY <1>0, <3>1, <3>2, <3>3
    <2> QED  BY <1>0, <2>2, <2>5, <2>6
  <1>8. ASSUME NEW b \in Board PROVE b # Master => Dist(b) = Dist(Pred(b)) + 1
    BY <1>0, <1>1, Places DEF Board
  <1>9. ASSUME NEW b \in Board
        PROVE  /\ Succ(b) \in Board /\ Pred(b) \in Board
               /\ Succ(Pred(b)) = b /\ Pred(Succ(b)) = b
               /\ Dist(b) \in 0..N-1
               /\ Dist(b) = 0 => b = Master
               /\ Dist(b) = N - 1 => b = LastBoard
               /\ Succ(b) = Master => b = LastBoard
               /\ b # LastBoard => Dist(Succ(b)) = Dist(b) + 1
               /\ b # Master => Dist(b) = Dist(Pred(b)) + 1
    <2>1. Dist(b) = N - 1 => b = LastBoard
      BY <1>3, <1>5
    <2>2. Succ(b) \in Board /\ Pred(b) \in Board
      BY <1>1
    <2>3. Succ(Pred(b)) = b /\ Pred(Succ(b)) = b
      BY <1>2
    <2>4. Dist(b) \in 0..N-1 /\ (Dist(b) = 0 => b = Master)
      BY <1>4
    <2>5. Succ(b) = Master => b = LastBoard
      BY <1>6
    <2>6. b # LastBoard => Dist(Succ(b)) = Dist(b) + 1
      BY <1>7
    <2>7. b # Master => Dist(b) = Dist(Pred(b)) + 1
      BY <1>8
    <2> QED  BY <2>1, <2>2, <2>3, <2>4, <2>5, <2>6, <2>7
  <1> QED  BY <1>3, <1>5, <1>9
-----------------------------------------------------------------------------
(* One hop forward.  h is the hop before a step, k the hop after it.       *)

\* What is positive and not 1 is at least 2.
LEMMA AboveOne == \A n \in Nat : n >= 1 /\ n # 1 => n >= 2
  OBVIOUS

\* Only the empty sequence has length 0.
LEMMA BeatSeqs ==
    /\ <<>> \in Seq(Beat) /\ Len(<<>>) = 0
    /\ \A q \in Seq(Beat) : Len(q) \in Nat /\ (q = <<>> <=> Len(q) = 0)
  BY EmptySeq, LenProperties

\* What sending one beat does to a cable.
LEMMA AppendBeat ==
    ASSUME NEW q \in Seq(Beat), NEW e \in Beat
    PROVE  /\ Append(q, e) \in Seq(Beat) /\ Append(q, e) # <<>>
           /\ Len(q) \in Nat /\ Len(Append(q, e)) = Len(q) + 1
           /\ \A i \in 1..Len(q) : Append(q, e)[i] = q[i] /\ q[i] \in Beat
           /\ Append(q, e)[Len(q) + 1] = e
           /\ Len(q) # 0 => Append(q, e)[1] = q[1]
  <1>1. Len(q) \in Nat /\ \A i \in 1..Len(q) : q[i] \in Beat
    BY LenProperties, ElementOfSeq
  <1>2. /\ Append(q, e) \in Seq(Beat) /\ Append(q, e) # <<>>
        /\ Len(Append(q, e)) = Len(q) + 1
        /\ \A i \in 1..Len(q) : Append(q, e)[i] = q[i]
        /\ Append(q, e)[Len(q) + 1] = e
    BY AppendProperties
  <1>3. Len(q) # 0 => 1 \in 1..Len(q)
    BY <1>1
  <1> QED  BY <1>1, <1>2, <1>3

\* What taking the first beat does to a cable.
LEMMA TailBeats ==
    ASSUME NEW q \in Seq(Beat), q # <<>>
    PROVE  /\ Tail(q) \in Seq(Beat) /\ Len(q) \in Nat /\ Len(q) >= 1
           /\ Len(Tail(q)) = Len(q) - 1
           /\ Head(q) = q[1] /\ q[1] \in Beat
           /\ \A i \in 1..Len(q) - 1 : Tail(q)[i] = q[i + 1]
           /\ Len(q) = 1 => Tail(q) = <<>>
  <1>1. Len(q) \in Nat /\ Len(q) >= 1 /\ 1 \in 1..Len(q)
    BY BeatSeqs
  <1>2. Head(q) = q[1] /\ q[1] \in Beat
    BY <1>1, ElementOfSeq
  <1>3. /\ Tail(q) \in Seq(Beat) /\ Len(Tail(q)) = Len(q) - 1
        /\ \A i \in 1..Len(q) - 1 : Tail(q)[i] = q[i + 1]
    BY HeadTailProperties
  <1>4. Len(q) = 1 => Tail(q) = <<>>
    <2>1. Len(q) = 1 => Len(Tail(q)) = 0
      BY <1>3
    <2> QED  BY <1>3, <2>1, BeatSeqs, Zenon
  <1> QED  BY <1>1, <1>2, <1>3, <1>4

\* Headers are requests of known kinds, whatever their payload.
ReqSet(H) == \A f \in H : /\ f \in Beat /\ f.type \in FwdTypes
                          /\ \A x \in Word : [f EXCEPT !.pl = x] \in H

\* The header and the payload beat of a request of the set.
LEMMA ReqParts ==
    ASSUME NEW H, ReqSet(H), NEW f \in H
    PROVE  /\ f \in Beat /\ Header(f) \in H /\ Header(f) \in Beat /\ Payload(f) \in Beat
           /\ f.type \notin DataTypes /\ f.type # "PAYLOAD"
           /\ Payload(f).type = "PAYLOAD" /\ Payload(f).pl = f.pl
           /\ f # NoFrame
  <1>1. f \in Beat /\ f.type \in FwdTypes /\ 0 \in Word
    BY Widths DEF ReqSet
  <1>2. Header(f) \in H /\ Header(f) \in Beat /\ Payload(f) \in Beat
    BY <1>1, BeatParts DEF ReqSet, Header
  <1>3. Payload(f).type = "PAYLOAD" /\ Payload(f).pl = f.pl
    BY DEF Payload, Frame
  <1>4. f.type \notin DataTypes /\ f.type # "PAYLOAD" /\ f.type # "NONE"
    BY <1>1 DEF FwdTypes, DataTypes
  <1>5. f # NoFrame
    BY <1>4 DEF NoFrame, Frame
  <1> QED  BY <1>1, <1>2, <1>3, <1>4, <1>5

\* Two hops with nothing to tell them apart.
Same(h, k) == /\ k.slot = h.slot /\ k.link = h.link /\ k.latch = h.latch
              /\ k.pending = h.pending /\ k.half = h.half

\* A step leaves what a hop carries as it is.
HopKept(h, k) ==
    /\ Idle(h) => Idle(k)
    /\ \A H, P, D : ReqSet(H) /\ Carries(h, H, P, D) => Carries(k, H, P, D)
    /\ \A H : ReqSet(H) /\ Ends(h, H) => Ends(k, H)

\* The header goes out: the hop is never idle.
LEMMA SendHeader ==
    ASSUME NEW h, NEW k, h.link \in Seq(Beat), h.pending, ~h.half,
           k.slot = h.slot, k.latch = h.latch, k.pending, k.half,
           k.link = Append(h.link, Header(h.slot))
    PROVE  HopKept(h, k) /\ ~Idle(h)
  <1>1. ~Idle(h)
    BY DEF Idle
  <1>2. ASSUME NEW H, NEW P, NEW D, ReqSet(H), Carries(h, H, P, D)
        PROVE  Carries(k, H, P, D)
    <2>1. InSlot(h, H, P)
      BY <1>2 DEF Carries, HeaderSent, HeaderTaken, Sent, PayloadLeft
    <2>2. Header(h.slot) \in H /\ Header(h.slot) \in Beat
      BY <1>2, <2>1, ReqParts DEF InSlot
    <2>3. /\ k.link # <<>> /\ Len(k.link) = Len(h.link) + 1 /\ Len(h.link) \in Nat
          /\ k.link[Len(k.link)] = Header(h.slot)
          /\ \A i \in 1..Len(h.link) : k.link[i] = h.link[i]
      BY <2>2, AppendBeat
    <2>4. OnlyData(k.link, {Len(k.link)})
      <3>1. \A i \in 1..Len(k.link) : i \in 1..Len(h.link) \/ i = Len(k.link)
        BY <2>3
      <3> QED  BY <2>1, <2>3, <3>1 DEF InSlot, OnlyData
    <2> QED  BY <2>1, <2>2, <2>3, <2>4 DEF Carries, InSlot, HeaderSent
  <1>3. ASSUME NEW H, ReqSet(H), Ends(h, H) PROVE Ends(k, H)
    <2>1. h.slot \in H
      BY <1>3 DEF Ends
    <2>2. Header(h.slot) \in H /\ Header(h.slot) \in Beat
      BY <1>3, <2>1, ReqParts
    <2>3. /\ Len(k.link) = Len(h.link) + 1 /\ Len(h.link) \in Nat
          /\ k.link[Len(h.link) + 1] = Header(h.slot)
          /\ \A i \in 1..Len(h.link) : k.link[i] = h.link[i]
      BY <2>2, AppendBeat
    <2>4. \A i \in 1..Len(k.link) : i \in 1..Len(h.link) \/ i = Len(h.link) + 1
      BY <2>3
    <2> QED  BY <1>3, <2>2, <2>3, <2>4 DEF Ends
  <1> QED  BY <1>1, <1>2, <1>3 DEF HopKept

\* The payload beat follows its header and frees the slot.
LEMMA SendPayload ==
    ASSUME NEW h, NEW k, h.link \in Seq(Beat), h.slot \in Beat, h.half,
           k.slot = h.slot, k.latch = h.latch, ~k.pending, ~k.half,
           k.link = Append(h.link, Payload(h.slot))
    PROVE  HopKept(h, k) /\ ~Idle(h)
  <1>1. ~Idle(h)
    BY DEF Idle
  <1>2. Payload(h.slot) \in Beat /\ Payload(h.slot).type = "PAYLOAD" /\ Payload(h.slot).pl = h.slot.pl
    BY BeatParts DEF Payload, Frame
  <1>3. /\ k.link # <<>> /\ Len(k.link) = Len(h.link) + 1 /\ Len(h.link) \in Nat
        /\ k.link[Len(h.link) + 1] = Payload(h.slot)
        /\ \A i \in 1..Len(h.link) : k.link[i] = h.link[i]
    BY <1>2, AppendBeat
  <1>4. ASSUME NEW H, NEW P, NEW D, ReqSet(H), Carries(h, H, P, D)
        PROVE  Carries(k, H, P, D)
    <2>1. CASE HeaderSent(h, H, P)
      <3>1. PICK n \in Nat : n = Len(h.link) /\ n >= 1 /\ n \in 1..n
        BY <2>1, BeatSeqs DEF HeaderSent
      <3>2. Len(k.link) = n + 1 /\ k.link[n] = h.link[n] /\ k.link[n + 1] = Payload(h.slot)
        BY <1>3, <3>1
      <3>3. OnlyData(k.link, {n, n + 1})
        <4>1. ASSUME NEW i \in 1..n + 1
              PROVE  i \in {n, n + 1} \/ k.link[i].type \in DataTypes
          BY <1>3, <2>1, <3>1 DEF HeaderSent, OnlyData
        <4> QED  BY <3>2, <4>1 DEF OnlyData
      <3>4. n \in 1..Len(k.link) - 1
        BY <3>1, <3>2
      <3>5. k.link[n] \in H /\ IsPayload(k.link[n + 1], P)
        BY <1>2, <2>1, <3>1, <3>2 DEF HeaderSent, IsPayload
      <3> QED  BY <2>1, <3>3, <3>4, <3>5 DEF HeaderSent, Sent, Carries
    <2>2. CASE HeaderTaken(h, H, P, D)
      <3>1. Len(h.link) = 0 /\ k.link[1] = Payload(h.slot) /\ Len(k.link) = 1
        BY <1>3, <2>2, BeatSeqs DEF HeaderTaken
      <3>2. OnlyData(k.link, {1})
        BY <3>1 DEF OnlyData
      <3> QED  BY <1>2, <1>3, <2>2, <3>1, <3>2 DEF HeaderTaken, PayloadLeft, Carries, IsPayload
    <2> QED  BY <1>4, <2>1, <2>2 DEF Carries, InSlot, Sent, PayloadLeft
  <1>5. ASSUME NEW H, ReqSet(H), Ends(h, H) PROVE Ends(k, H)
    <2>1. \A i \in 1..Len(k.link) : i \in 1..Len(h.link) \/ i = Len(h.link) + 1
      BY <1>3
    <2> QED  BY <1>2, <1>3, <1>5, <2>1 DEF Ends
  <1> QED  BY <1>1, <1>4, <1>5 DEF HopKept

\* A data frame follows: no frame of the control channel is half sent.
LEMMA SendData ==
    ASSUME NEW h, NEW k, h.link \in Seq(Beat), NEW d \in Beat, d.type \in DataTypes, ~h.half,
           k.slot = h.slot, k.latch = h.latch, k.pending = h.pending, k.half = h.half,
           k.link = Append(h.link, d)
    PROVE  HopKept(h, k)
  <1>1. /\ k.link # <<>> /\ Len(k.link) = Len(h.link) + 1 /\ Len(h.link) \in Nat
        /\ k.link[Len(h.link) + 1] = d
        /\ \A i \in 1..Len(h.link) : k.link[i] = h.link[i]
    BY AppendBeat
  <1>2. \A i \in 1..Len(k.link) : i \in 1..Len(h.link) \/ i = Len(h.link) + 1
    BY <1>1
  <1>3. \A K : OnlyData(h.link, K) => OnlyData(k.link, K)
    BY <1>1, <1>2 DEF OnlyData
  <1>4. Idle(h) => Idle(k)
    BY <1>3 DEF Idle
  <1>5. ASSUME NEW H, NEW P, NEW D, ReqSet(H), Carries(h, H, P, D)
        PROVE  Carries(k, H, P, D)
    <2>1. CASE InSlot(h, H, P)
      BY <1>3, <2>1 DEF InSlot, Carries
    <2>2. CASE Sent(h, H, P)
      <3>1. PICK i \in 1..Len(h.link) - 1 :
              /\ h.link[i] \in H /\ IsPayload(h.link[i + 1], P)
              /\ OnlyData(h.link, {i, i + 1})
        BY <2>2 DEF Sent
      <3>2. /\ i \in 1..Len(h.link) /\ i + 1 \in 1..Len(h.link)
            /\ i \in 1..Len(k.link) - 1
        BY <1>1, <3>1
      <3> QED  BY <1>1, <1>3, <2>2, <3>1, <3>2 DEF Sent, Carries
    <2>3. CASE PayloadLeft(h, P, D)
      <3>1. 1 \in 1..Len(h.link)
        BY <1>1, <2>3, BeatSeqs DEF PayloadLeft
      <3> QED  BY <1>1, <1>3, <2>3, <3>1 DEF PayloadLeft, Carries
    <2> QED  BY <1>5, <2>1, <2>2, <2>3 DEF Carries, HeaderSent, HeaderTaken
  <1>6. ASSUME NEW H, ReqSet(H), Ends(h, H) PROVE Ends(k, H)
    BY <1>1, <1>2, <1>6 DEF Ends
  <1> QED  BY <1>4, <1>5, <1>6 DEF HopKept

\* The successor takes a data frame, or anything it does not latch a header for.
LEMMA TakeData ==
    ASSUME NEW h, NEW k, h.link \in Seq(Beat), h.link # <<>>, h.latch = NoFrame,
           Head(h.link).type \in DataTypes,
           k.slot = h.slot, k.latch = h.latch, k.pending = h.pending, k.half = h.half,
           k.link = Tail(h.link)
    PROVE  HopKept(h, k)
  <1>1. /\ Len(h.link) \in Nat /\ Len(h.link) >= 1 /\ Len(k.link) = Len(h.link) - 1
        /\ k.link \in Seq(Beat)
        /\ h.link[1].type \in DataTypes
        /\ \A i \in 1..Len(h.link) - 1 : k.link[i] = h.link[i + 1]
    BY TailBeats
  <1>2. ASSUME NEW K, NEW L, OnlyData(h.link, K),
               \A i \in 1..Len(k.link) : i + 1 \in K => i \in L
        PROVE  OnlyData(k.link, L)
    BY <1>1, <1>2 DEF OnlyData
  <1>3. OnlyData(h.link, {}) => OnlyData(k.link, {})
    BY <1>2
  <1>4. Idle(h) => Idle(k)
    BY <1>3 DEF Idle
  <1>5. \A H : ReqSet(H) => h.link[1] \notin H
    BY <1>1, ReqParts
  <1>6. ASSUME NEW H, NEW P, NEW D, ReqSet(H), Carries(h, H, P, D)
        PROVE  Carries(k, H, P, D)
    <2>1. CASE InSlot(h, H, P)
      BY <1>3, <2>1 DEF InSlot, Carries
    <2>2. CASE HeaderSent(h, H, P)
      <3>1. PICK n \in Nat : n = Len(h.link) /\ Len(k.link) = n - 1 /\ n >= 2
        <4>1. Len(h.link) # 1
          BY <1>5, <1>6, <2>2 DEF HeaderSent
        <4>2. Len(h.link) \in Nat /\ Len(h.link) >= 1 /\ Len(k.link) = Len(h.link) - 1
          BY <1>1
        <4>3. Len(h.link) >= 2
          BY <4>1, <4>2, AboveOne
        <4> QED  BY <4>2, <4>3
      <3>2. k.link[n - 1] = h.link[n] /\ Len(k.link) # 0
        <4>1. PICK m \in Nat : m = n - 1 /\ m >= 1 /\ m + 1 = n
          BY <3>1
        <4>2. \A i \in 1..m : k.link[i] = h.link[i + 1]
          BY <1>1, <3>1, <4>1
        <4> QED  BY <3>1, <4>1, <4>2
      <3>4. k.link # <<>>
        BY <3>2, BeatSeqs, Zenon
      <3>3. OnlyData(k.link, {n - 1})
        <4>1. \A i \in 1..Len(k.link) : i + 1 \in {n} => i \in {n - 1}
          BY <3>1
        <4> QED  BY <1>2, <2>2, <3>1, <4>1 DEF HeaderSent
      <3> QED  BY <2>2, <3>1, <3>2, <3>3, <3>4 DEF HeaderSent, Carries
    <2>3. CASE Sent(h, H, P)
      <3>1. PICK i \in 1..Len(h.link) - 1 :
              /\ h.link[i] \in H /\ IsPayload(h.link[i + 1], P)
              /\ OnlyData(h.link, {i, i + 1})
        BY <2>3 DEF Sent
      <3>2. PICK j \in Nat : i = j + 1 /\ j \in 1..Len(k.link) - 1
        <4>1. i # 1
          BY <1>5, <1>6, <3>1
        <4>2. PICK n \in Nat : n = Len(h.link) /\ Len(k.link) = n - 1
          BY <1>1
        <4>3. i \in 1..n - 1
          BY <4>2
        <4>4. i - 1 \in Nat /\ i = (i - 1) + 1 /\ i - 1 \in 1..(n - 1) - 1
          BY <4>1, <4>3
        <4> QED  BY <4>2, <4>4
      <3>3. k.link[j] = h.link[i] /\ k.link[j + 1] = h.link[i + 1]
        BY <1>1, <3>1, <3>2
      <3>4. OnlyData(k.link, {j, j + 1})
        <4>1. \A m \in 1..Len(k.link) : m + 1 \in {i, i + 1} => m \in {j, j + 1}
          BY <1>1, <3>2
        <4> QED  BY <1>2, <3>1, <4>1
      <3> QED  BY <2>3, <3>1, <3>2, <3>3, <3>4 DEF Sent, Carries
    <2>4. ~PayloadLeft(h, P, D) /\ ~HeaderTaken(h, H, P, D)
      BY <1>1 DEF PayloadLeft, HeaderTaken, IsPayload, DataTypes
    <2> QED  BY <1>6, <2>1, <2>2, <2>3, <2>4 DEF Carries
  <1>7. ASSUME NEW H, ReqSet(H), Ends(h, H) PROVE Ends(k, H)
    BY <1>1, <1>7 DEF Ends
  <1> QED  BY <1>4, <1>6, <1>7 DEF HopKept

\* The successor reads a beat where it expects a header.  A header of the kind the
\* hop carries is latched or, where the gate may refuse it, dropped.
LEMMA TakeHeader ==
    ASSUME NEW h, NEW k, h.link \in Seq(Beat), h.link # <<>>, h.latch = NoFrame,
           Head(h.link).type \notin DataTypes,
           k.slot = h.slot, k.pending = h.pending, k.half = h.half,
           k.link = Tail(h.link),
           \/ k.latch = Head(h.link)
           \/ k.latch = NoFrame
    PROVE  /\ ~Idle(h)
           /\ \A H, P, D :
                /\ ReqSet(H) /\ Carries(h, H, P, D)
                /\ Head(h.link) \in H => k.latch \in D
                /\ Head(h.link).type = "PAYLOAD" => k.latch = NoFrame
                => Carries(k, H, P, D) \/ (Idle(k) /\ NoFrame \in D)
           /\ \A H : /\ ReqSet(H) /\ Ends(h, H)
                     /\ Head(h.link).type = "PAYLOAD" => k.latch = NoFrame
                     => Ends(k, H)
  <1>1. /\ Len(h.link) \in Nat /\ Len(h.link) >= 1 /\ Len(k.link) = Len(h.link) - 1
        /\ k.link \in Seq(Beat)
        /\ Head(h.link) = h.link[1] /\ h.link[1].type \notin DataTypes
        /\ \A i \in 1..Len(h.link) - 1 : k.link[i] = h.link[i + 1]
        /\ Len(h.link) = 1 => k.link = <<>>
    BY TailBeats
  <1>2. \A K : OnlyData(h.link, K) => 1 \in K
    BY <1>1 DEF OnlyData
  <1>3. ~Idle(h)
    BY <1>2 DEF Idle
  <1>4. ASSUME NEW H, NEW P, NEW D, ReqSet(H), Carries(h, H, P, D),
               Head(h.link) \in H => k.latch \in D,
               Head(h.link).type = "PAYLOAD" => k.latch = NoFrame
        PROVE  Carries(k, H, P, D) \/ (Idle(k) /\ NoFrame \in D)
    <2>1. ~InSlot(h, H, P) /\ ~HeaderTaken(h, H, P, D)
      BY <1>2 DEF InSlot, HeaderTaken
    <2>2. CASE HeaderSent(h, H, P)
      <3>1. Len(h.link) = 1
        BY <1>1, <1>2, <2>2 DEF HeaderSent
      <3>2. HeaderTaken(k, H, P, D)
        BY <1>1, <1>4, <2>2, <3>1 DEF HeaderSent, HeaderTaken
      <3> QED  BY <3>2 DEF Carries
    <2>3. CASE Sent(h, H, P)
      <3>1. PICK i \in 1..Len(h.link) - 1 :
              /\ h.link[i] \in H /\ IsPayload(h.link[i + 1], P)
              /\ OnlyData(h.link, {i, i + 1})
        BY <2>3 DEF Sent
      <3>2. i = 1
        BY <1>1, <1>2, <3>1
      <3>6. Len(k.link) # 0 /\ k.link[1] = h.link[2]
        BY <1>1, <3>1, <3>2
      <3>3. k.link[1] = h.link[2] /\ k.link # <<>>
        BY <3>6, BeatSeqs, Zenon
      <3>4. OnlyData(k.link, {1})
        BY <1>1, <3>1, <3>2 DEF OnlyData
      <3>5. PayloadLeft(k, P, D)
        BY <1>1, <1>4, <2>3, <3>1, <3>2, <3>3, <3>4 DEF Sent, PayloadLeft
      <3> QED  BY <3>5 DEF Carries
    <2>4. CASE PayloadLeft(h, P, D)
      <3>1. k.latch = NoFrame /\ NoFrame \in D
        BY <1>1, <1>4, <2>4 DEF PayloadLeft, IsPayload
      <3>2. OnlyData(k.link, {})
        BY <1>1, <2>4 DEF PayloadLeft, OnlyData
      <3> QED  BY <2>4, <3>1, <3>2 DEF PayloadLeft, Idle
    <2> QED  BY <1>4, <2>1, <2>2, <2>3, <2>4 DEF Carries
  <1>5. ASSUME NEW H, ReqSet(H), Ends(h, H),
               Head(h.link).type = "PAYLOAD" => k.latch = NoFrame
        PROVE  Ends(k, H)
    <2>1. h.link[1] \in H \/ h.link[1].type = "PAYLOAD"
      BY <1>1, <1>5 DEF Ends
    <2> QED  BY <1>1, <1>5, <2>1 DEF Ends
  <1> QED  BY <1>3, <1>4, <1>5

\* The successor reads the payload of the header it has latched: the frame has arrived.
LEMMA TakePayload ==
    ASSUME NEW h, NEW k, h.link \in Seq(Beat), h.link # <<>>, h.latch # NoFrame,
           k.slot = h.slot, k.pending = h.pending, k.half = h.half,
           k.link = Tail(h.link), k.latch = NoFrame
    PROVE  /\ ~Idle(h)
           /\ \A H, P, D : Carries(h, H, P, D) =>
                /\ Idle(k) /\ h.latch \in D /\ ~h.pending
                /\ IsPayload(Head(h.link), P)
           /\ \A H : Ends(h, H) => Ends(k, H) /\ h.latch \in H
  <1>1. /\ Len(h.link) \in Nat /\ Len(h.link) >= 1 /\ Len(k.link) = Len(h.link) - 1
        /\ k.link \in Seq(Beat)
        /\ Head(h.link) = h.link[1]
        /\ \A i \in 1..Len(h.link) - 1 : k.link[i] = h.link[i + 1]
    BY TailBeats
  <1>2. ASSUME NEW H, NEW P, NEW D, Carries(h, H, P, D)
        PROVE  Idle(k) /\ h.latch \in D /\ ~h.pending /\ IsPayload(Head(h.link), P)
    <2>1. PayloadLeft(h, P, D)
      BY <1>2 DEF Carries, InSlot, HeaderSent, HeaderTaken, Sent
    <2>2. OnlyData(k.link, {})
      BY <1>1, <2>1 DEF PayloadLeft, OnlyData
    <2> QED  BY <1>1, <2>1, <2>2 DEF PayloadLeft, Idle
  <1>3. ASSUME NEW H, Ends(h, H) PROVE Ends(k, H) /\ h.latch \in H
    BY <1>1, <1>3 DEF Ends
  <1> QED  BY <1>2, <1>3 DEF Idle

\* A frame queued on an idle hop is the only one there.
LEMMA QueueFrame ==
    ASSUME NEW h, NEW k, NEW H, NEW P, NEW D, k.slot \in H, k.slot.pl \in P, k.pending,
           k.half = h.half, k.link = h.link, k.latch = h.latch
    PROVE  /\ Idle(h) => Carries(k, H, P, D)
           /\ Ends(h, H) => Ends(k, H)
  <1>1. Idle(h) => Carries(k, H, P, D)
    BY DEF Idle, Carries, InSlot
  <1>2. Ends(h, H) => Ends(k, H)
    BY DEF Ends
  <1> QED  BY <1>1, <1>2

\* What a hop carries is of its kind only; an idle hop carries nothing.
LEMMA HopEnds ==
    ASSUME NEW h, NEW H, NEW P, NEW D, D \subseteq H \cup {NoFrame}, h.link \in Seq(Beat)
    PROVE  /\ Carries(h, H, P, D) => Ends(h, H) /\ ~Idle(h)
           /\ Idle(h) => Ends(h, H)
  <1>1. Len(h.link) \in Nat
    BY LenProperties
  <1>2. Idle(h) => Ends(h, H)
    BY DEF Idle, Ends, OnlyData
  <1>3. InSlot(h, H, P) => Ends(h, H) /\ ~Idle(h)
    BY DEF Idle, InSlot, Ends, OnlyData
  <1>4. HeaderSent(h, H, P) => Ends(h, H) /\ ~Idle(h)
    BY DEF Idle, HeaderSent, Ends, OnlyData
  <1>5. HeaderTaken(h, H, P, D) => Ends(h, H) /\ ~Idle(h)
    BY <1>1, BeatSeqs DEF Idle, HeaderTaken, Ends
  <1>6. Sent(h, H, P) => Ends(h, H)
    BY DEF Sent, Ends, OnlyData, IsPayload
  <1>7. Sent(h, H, P) => ~Idle(h)
    BY <1>1 DEF Sent, Idle, OnlyData, IsPayload, DataTypes
  <1>8. PayloadLeft(h, P, D) => Ends(h, H)
    BY DEF PayloadLeft, Ends, OnlyData, IsPayload
  <1>9. PayloadLeft(h, P, D) => ~Idle(h)
    BY <1>1, BeatSeqs DEF PayloadLeft, Idle, OnlyData, IsPayload, DataTypes
  <1> QED  BY <1>2, <1>3, <1>4, <1>5, <1>6, <1>7, <1>8, <1>9 DEF Carries

-----------------------------------------------------------------------------
(* One hop backward.                                                       *)

\* A set of ACK frames that does not look at payloads.
AckSet(A) == \A f \in A : /\ f \in Beat /\ f.type \in BwdTypes
                          /\ \A x \in Word : [f EXCEPT !.pl = x] \in A

\* The header and the payload beat of an ACK of the set.
LEMMA AckParts ==
    ASSUME NEW A, AckSet(A), NEW f \in A
    PROVE  /\ f \in Beat /\ Header(f) \in A /\ Header(f) \in Beat
           /\ Payload(f) \in Beat /\ Payload(f).type = "PAYLOAD" /\ Payload(f).pl = f.pl
           /\ f.type # "PAYLOAD" /\ f # NoFrame
  <1>1. f \in Beat /\ f.type \in BwdTypes /\ 0 \in Word
    BY Widths DEF AckSet
  <1>2. Header(f) \in A /\ Header(f) \in Beat /\ Payload(f) \in Beat
    BY <1>1, BeatParts DEF AckSet, Header
  <1>3. Payload(f).type = "PAYLOAD" /\ Payload(f).pl = f.pl
    BY DEF Payload, Frame
  <1>4. f.type # "PAYLOAD" /\ f.type # "NONE"
    BY <1>1 DEF BwdTypes
  <1>5. f # NoFrame
    BY <1>4 DEF NoFrame, Frame
  <1> QED  BY <1>1, <1>2, <1>3, <1>4, <1>5

\* An ACK's header sent leaves the hop's ACKs what they were.
LEMMA SendAckHeader ==
    ASSUME NEW h, NEW k, NEW A, NEW V, AckSet(A), h.link \in Seq(Beat), Answers(h, A, V),
           h.pending, ~h.half, k.slot = h.slot, k.latch = h.latch, k.pending, k.half,
           k.link = Append(h.link, Header(h.slot))
    PROVE  Answers(k, A, V)
  <1>1. Header(h.slot) \in A /\ Header(h.slot) \in Beat
    BY AckParts DEF Answers
  <1>2. /\ k.link # <<>> /\ Len(k.link) = Len(h.link) + 1 /\ Len(h.link) \in Nat
        /\ k.link[Len(h.link) + 1] = Header(h.slot)
        /\ \A i \in 1..Len(h.link) : k.link[i] = h.link[i]
        /\ Len(h.link) # 0 => k.link[1] = h.link[1]
        /\ h.link # <<>> => Len(h.link) # 0
    BY <1>1, AppendBeat, BeatSeqs
  <1>3. \A i \in 1..Len(k.link) : i \in 1..Len(h.link) \/ i = Len(h.link) + 1
    BY <1>2
  <1>4. \A i \in 1..Len(k.link) : k.link[i] \in A \/ IsPayload(k.link[i], V)
    BY <1>1, <1>2, <1>3 DEF Answers
  <1>5. ASSUME NEW i \in 1..Len(k.link) - 1, k.link[i].type # "PAYLOAD"
        PROVE  k.link[i + 1].type = "PAYLOAD"
    <2>1. i \in 1..Len(h.link) /\ k.link[i] = h.link[i]
      BY <1>2
    <2>2. CASE i = Len(h.link)
      <3>1. h.link # <<>>
        BY <1>2, <2>1, <2>2, BeatSeqs
      <3> QED  BY <1>5, <2>1, <2>2, <3>1 DEF Answers, Framed
    <2>3. CASE i # Len(h.link)
      <3>1. i \in 1..Len(h.link) - 1 /\ i + 1 \in 1..Len(h.link)
        BY <1>2, <2>1, <2>3
      <3> QED  BY <1>2, <1>5, <2>1, <3>1 DEF Answers, Framed
    <2> QED  BY <2>2, <2>3
  <1>6. k.latch # NoFrame => IF k.link = <<>> THEN k.half ELSE k.link[1].type = "PAYLOAD"
    BY <1>2 DEF Answers, Framed
  <1> QED  BY <1>4, <1>5, <1>6 DEF Answers, Framed

\* So does its payload sent.
LEMMA SendAckPayload ==
    ASSUME NEW h, NEW k, NEW A, NEW V, AckSet(A), h.link \in Seq(Beat), Answers(h, A, V),
           h.half, k.slot = h.slot, k.latch = h.latch, ~k.pending, ~k.half,
           k.link = Append(h.link, Payload(h.slot))
    PROVE  Answers(k, A, V)
  <1>1. /\ Payload(h.slot) \in Beat /\ Payload(h.slot).type = "PAYLOAD"
        /\ IsPayload(Payload(h.slot), V)
    BY AckParts DEF Answers, IsPayload
  <1>2. /\ k.link # <<>> /\ Len(k.link) = Len(h.link) + 1 /\ Len(h.link) \in Nat
        /\ k.link[Len(h.link) + 1] = Payload(h.slot)
        /\ \A i \in 1..Len(h.link) : k.link[i] = h.link[i]
        /\ Len(h.link) # 0 => k.link[1] = h.link[1]
        /\ h.link = <<>> <=> Len(h.link) = 0
    BY <1>1, AppendBeat, BeatSeqs
  <1>3. \A i \in 1..Len(k.link) : i \in 1..Len(h.link) \/ i = Len(h.link) + 1
    BY <1>2
  <1>4. \A i \in 1..Len(k.link) : k.link[i] \in A \/ IsPayload(k.link[i], V)
    BY <1>1, <1>2, <1>3 DEF Answers
  <1>5. ASSUME NEW i \in 1..Len(k.link) - 1, k.link[i].type # "PAYLOAD"
        PROVE  k.link[i + 1].type = "PAYLOAD"
    <2>1. i \in 1..Len(h.link) /\ k.link[i] = h.link[i]
      BY <1>2
    <2>2. CASE i = Len(h.link)
      BY <1>1, <1>2, <2>2
    <2>3. CASE i # Len(h.link)
      <3>1. i \in 1..Len(h.link) - 1 /\ i + 1 \in 1..Len(h.link)
        BY <1>2, <2>1, <2>3
      <3> QED  BY <1>2, <1>5, <2>1, <3>1 DEF Answers, Framed
    <2> QED  BY <2>2, <2>3
  <1>6. k.latch # NoFrame => IF k.link = <<>> THEN k.half ELSE k.link[1].type = "PAYLOAD"
    <2>1. CASE Len(h.link) = 0
      BY <1>1, <1>2, <2>1
    <2>2. CASE Len(h.link) # 0
      BY <1>2, <2>2 DEF Answers, Framed
    <2> QED  BY <2>1, <2>2
  <1>7. k.link[Len(k.link)].type = "PAYLOAD"
    BY <1>1, <1>2
  <1> QED  BY <1>4, <1>5, <1>6, <1>7 DEF Answers, Framed

\* What is left of a hop when its first beat is taken is still framed.
LEMMA TailAnswers ==
    ASSUME NEW h, NEW k, NEW A, NEW V, h.link \in Seq(Beat), h.link # <<>>, Answers(h, A, V),
           k.slot = h.slot, k.pending = h.pending, k.half = h.half, k.link = Tail(h.link),
           \/ k.latch = NoFrame
           \/ /\ k.latch = Head(h.link) /\ k.latch \in A /\ k.latch.src # Unassigned
              /\ k.latch.type # "PAYLOAD"
    PROVE  Answers(k, A, V)
  <1>1. /\ Len(h.link) \in Nat /\ Len(h.link) >= 1 /\ Len(k.link) = Len(h.link) - 1
        /\ Head(h.link) = h.link[1]
        /\ \A i \in 1..Len(h.link) - 1 : k.link[i] = h.link[i + 1]
        /\ Len(h.link) = 1 => k.link = <<>>
        /\ k.link \in Seq(Beat)
    BY TailBeats
  <1>2. \A i \in 1..Len(k.link) : k.link[i] \in A \/ IsPayload(k.link[i], V)
    BY <1>1 DEF Answers
  <1>3. ASSUME NEW i \in 1..Len(k.link) - 1, k.link[i].type # "PAYLOAD"
        PROVE  k.link[i + 1].type = "PAYLOAD"
    <2>1. PICK j \in Nat : j = i + 1 /\ j \in 1..Len(h.link) - 1 /\ j \in 1..Len(k.link)
      BY <1>1
    <2>2. k.link[i] = h.link[j] /\ k.link[j] = h.link[j + 1]
      BY <1>1, <2>1
    <2> QED  BY <1>3, <2>1, <2>2 DEF Answers, Framed
  <1>4. k.link # <<>> => Len(h.link) >= 2 /\ k.link[1] = h.link[2]
                         /\ k.link[Len(k.link)] = h.link[Len(h.link)]
    <2> SUFFICES ASSUME k.link # <<>>
                 PROVE  Len(h.link) >= 2 /\ k.link[1] = h.link[2]
                        /\ k.link[Len(k.link)] = h.link[Len(h.link)]
      OBVIOUS
    <2>1. Len(k.link) \in Nat /\ Len(k.link) >= 1
      BY <1>1, BeatSeqs
    <2>2. PICK m \in Nat : m >= 1 /\ Len(k.link) = m /\ Len(h.link) = m + 1
      <3>1. \A n \in Nat, j \in Nat : j = n - 1 => n = j + 1
        OBVIOUS
      <3>2. Len(h.link) = Len(k.link) + 1
        BY <1>1, <2>1, <3>1
      <3> QED  BY <2>1, <3>2
    <2>3. \A i \in 1..m : k.link[i] = h.link[i + 1]
      BY <1>1, <2>2
    <2> QED  BY <2>2, <2>3
  <1>5. k.link # <<>> /\ k.link[Len(k.link)].type # "PAYLOAD" => k.half
    BY <1>4 DEF Answers, Framed
  <1>6. k.latch # NoFrame => IF k.link = <<>> THEN k.half ELSE k.link[1].type = "PAYLOAD"
    <2> SUFFICES ASSUME k.latch # NoFrame
                 PROVE  IF k.link = <<>> THEN k.half ELSE k.link[1].type = "PAYLOAD"
      OBVIOUS
    <2>1. h.link[1].type # "PAYLOAD"
      BY <1>1
    <2>2. CASE k.link # <<>>
      <3>1. 1 \in 1..Len(h.link) - 1
        BY <1>1, <1>4, <2>2
      <3> QED  BY <1>4, <2>1, <2>2, <3>1 DEF Answers, Framed
    <2>3. CASE k.link = <<>>
      <3>1. Len(k.link) = 0
        BY <2>3, BeatSeqs
      <3>2. Len(h.link) = 1
        BY <1>1, <3>1
      <3> QED  BY <2>1, <2>3, <3>2 DEF Answers, Framed
    <2> QED  BY <2>2, <2>3
  <1> QED  BY <1>2, <1>3, <1>5, <1>6 DEF Answers, Framed

\* The beat that follows a latched ACK header is its payload.
LEMMA TakeAckPayload ==
    ASSUME NEW h, NEW A, NEW V, AckSet(A), h.link \in Seq(Beat), h.link # <<>>,
           Answers(h, A, V), h.latch # NoFrame
    PROVE  IsPayload(Head(h.link), V) /\ h.latch \in A /\ h.latch.src # Unassigned
  <1>1. Head(h.link) = h.link[1] /\ 1 \in 1..Len(h.link)
    <2>1. Len(h.link) \in Nat /\ Len(h.link) >= 1
      BY TailBeats
    <2> QED  BY <2>1, TailBeats
  <1>2. h.link[1].type = "PAYLOAD"
    BY DEF Answers, Framed
  <1>3. h.link[1] \notin A
    BY <1>2, AckParts
  <1> QED  BY <1>1, <1>3 DEF Answers, IsPayload

\* An ACK written into the slot, over a waiting one too.
LEMMA QueueAck ==
    ASSUME NEW h, NEW k, NEW A, NEW V, Answers(h, A, V),
           k.slot \in A, k.slot.pl \in V, k.pending,
           k.half = h.half, k.link = h.link, k.latch = h.latch
    PROVE  Answers(k, A, V)
  BY DEF Answers, Framed

\* Larger sets of headers and payloads describe the hop as well.
LEMMA WiderAnswers ==
    ASSUME NEW h, NEW A, NEW V, NEW A2, NEW V2, A \subseteq A2, V \subseteq V2,
           Answers(h, A, V)
    PROVE  Answers(h, A2, V2)
  BY DEF Answers, IsPayload

\* An idle hop carries ACKs of any kind.
LEMMA NoAnswers ==
    ASSUME NEW h, NEW A, NEW V, BackIdle(h)
    PROVE  Answers(h, A, V)
  <1>1. h.link = <<>> /\ Len(h.link) = 0
    BY BeatSeqs DEF BackIdle
  <1> QED  BY <1>1 DEF BackIdle, Answers, Framed


\* A hop that nothing touches carries what it did.
LEMMA SameHop == ASSUME NEW h, NEW k, Same(h, k) PROVE HopKept(h, k)
  <1>1. Idle(h) => Idle(k)
    BY DEF Same, Idle
  <1>2. ASSUME NEW H, NEW P, NEW D, Carries(h, H, P, D) PROVE Carries(k, H, P, D)
    BY <1>2 DEF Same, Carries, InSlot, HeaderSent, HeaderTaken, Sent, PayloadLeft
  <1>3. ASSUME NEW H, Ends(h, H) PROVE Ends(k, H)
    BY <1>3 DEF Same, Ends
  <1> QED  BY <1>1, <1>2, <1>3 DEF HopKept

\* A step leaves the answers on a hop backward as they are.
BackKept(h, k) ==
    /\ BackIdle(h) => BackIdle(k)
    /\ \A A, V : AckSet(A) /\ Answers(h, A, V) => Answers(k, A, V)

\* A backward hop that nothing touches carries what it did.
LEMMA SameBack == ASSUME NEW h, NEW k, Same(h, k) PROVE BackKept(h, k)
  <1>1. BackIdle(h) => BackIdle(k)
    BY DEF Same, BackIdle
  <1>2. ASSUME NEW A, NEW V, Answers(h, A, V) PROVE Answers(k, A, V)
    BY <1>2 DEF Same, Answers, Framed
  <1> QED  BY <1>1, <1>2 DEF BackKept

-----------------------------------------------------------------------------
(* The hops of a ring that takes a step.                                   *)

\* Every hop of the ring carries what it did.
HopsKept == \A b \in Board : HopKept(Hop(b), Hop(b)')
BacksKept == \A b \in Board : BackKept(Back(b), Back(b)')

\* A hop's parts, and the same after a step.
LEMMA HopParts ==
    \A b \in Board :
      /\ Hop(b).slot = fwd[b] /\ Hop(b).pending = fwdPending[b] /\ Hop(b).half = ftxBeat1[b]
      /\ Hop(b).link = fLink[b] /\ Hop(b).latch = frx[Succ(b)]
      /\ (Hop(b)').slot = fwd'[b] /\ (Hop(b)').pending = fwdPending'[b]
      /\ (Hop(b)').half = ftxBeat1'[b]
      /\ (Hop(b)').link = fLink'[b] /\ (Hop(b)').latch = frx'[Succ(b)]
  BY DEF Hop

\* A backward hop's parts, and the same after a step.
LEMMA BackParts ==
    \A b \in Board :
      /\ Back(b).slot = bwd[b] /\ Back(b).pending = bwdPending[b] /\ Back(b).half = btxBeat1[b]
      /\ Back(b).link = bLink[b] /\ Back(b).latch = brx[Pred(b)]
      /\ (Back(b)').slot = bwd'[b] /\ (Back(b)').pending = bwdPending'[b]
      /\ (Back(b)').half = btxBeat1'[b]
      /\ (Back(b)').link = bLink'[b] /\ (Back(b)').latch = brx'[Pred(b)]
  BY DEF Back

\* The types of what a hop is made of.
LEMMA HopTypes ==
    ASSUME TypeOK, NEW b \in Board
    PROVE  /\ fLink[b] \in Seq(Beat) /\ bLink[b] \in Seq(Beat)
           /\ fwd[b] \in Beat /\ bwd[b] \in Beat /\ frx[b] \in Beat /\ brx[b] \in Beat
           /\ relayQ[b] \in Seq(Beat)
           /\ boardId[b] \in Id /\ boardIndex[b] \in 0..16 /\ totalIn[b] \in 0..31
  BY DEF TypeOK, SlotTypes, LinkTypes, Layer2Types, IdTypes

\* What a step does not touch is kept.
LEMMA ForwardKept ==
    UNCHANGED <<fwdSlot, fLink, frx>> => \A b \in Board : Same(Hop(b), Hop(b)')
  BY DEF fwdSlot, Hop, Same

\* A step that leaves the ACK slots, cables and latches alone leaves the backward hops.
LEMMA BackwardKept ==
    UNCHANGED <<bwdSlot, bLink, brx>> => \A b \in Board : Same(Back(b), Back(b)')
  BY DEF bwdSlot, Back, Same

\* Hops left alone are hops kept.
LEMMA HopsSame == (\A b \in Board : Same(Hop(b), Hop(b)')) => HopsKept
  BY SameHop DEF HopsKept

\* Backward hops left alone are kept.
LEMMA BacksSame == (\A b \in Board : Same(Back(b), Back(b)')) => BacksKept
  BY SameBack DEF BacksKept

\* A step that touches one hop keeps the ring's hops if it keeps that one.
LEMMA OneHop ==
    ASSUME NEW b \in Board, HopKept(Hop(b), Hop(b)'),
           \A c \in Board : c # b => Same(Hop(c), Hop(c)')
    PROVE  HopsKept
  BY SameHop DEF HopsKept

\* A step that touches one backward hop keeps them all if it keeps that one.
LEMMA OneBack ==
    ASSUME NEW b \in Board, BackKept(Back(b), Back(b)'),
           \A c \in Board : c # b => Same(Back(c), Back(c)')
    PROVE  BacksKept
  BY SameBack DEF BacksKept

\* The transmitter's first beat moves its frame one stage on.
LEMMA FwdTxBeat0Hops ==
    ASSUME TypeOK, NEW b \in Board, FwdTxBeat0(b)
    PROVE  HopsKept /\ ~Idle(Hop(b))
  <1>1. \A c \in Board : c # b => Same(Hop(c), Hop(c)')
    BY HopTypes DEF FwdTxBeat0, Hop, Same, TypeOK, SlotTypes, LinkTypes
  <1>2. /\ fwdPending[b] /\ ~ftxBeat1[b] /\ fwdPending'[b] = fwdPending[b] /\ ftxBeat1'[b]
        /\ fLink'[b] = Append(fLink[b], Header(fwd[b])) /\ fwd'[b] = fwd[b] /\ frx' = frx
    BY DEF FwdTxBeat0, TypeOK, SlotTypes, LinkTypes
  <1>3. HopKept(Hop(b), Hop(b)') /\ ~Idle(Hop(b))
    <2>1. PICK h, k : h = Hop(b) /\ k = Hop(b)'
      OBVIOUS
    <2>2. /\ h.link \in Seq(Beat) /\ h.pending /\ ~h.half /\ k.slot = h.slot
          /\ k.latch = h.latch /\ k.pending /\ k.half /\ k.link = Append(h.link, Header(h.slot))
      BY <1>2, <2>1, HopTypes, HopParts
    <2> QED  BY <2>1, <2>2, SendHeader
  <1> QED  BY <1>1, <1>3, OneHop

\* And its second beat the next.
LEMMA FwdTxBeat1Hops ==
    ASSUME TypeOK, NEW b \in Board, FwdTxBeat1(b)
    PROVE  HopsKept /\ ~Idle(Hop(b))
  <1>1. \A c \in Board : c # b => Same(Hop(c), Hop(c)')
    BY HopTypes DEF FwdTxBeat1, Hop, Same, TypeOK, SlotTypes, LinkTypes
  <1>2. /\ ftxBeat1[b] /\ ~fwdPending'[b] /\ ~ftxBeat1'[b]
        /\ fLink'[b] = Append(fLink[b], Payload(fwd[b])) /\ fwd'[b] = fwd[b] /\ frx' = frx
    BY DEF FwdTxBeat1, TypeOK, SlotTypes, LinkTypes
  <1>3. HopKept(Hop(b), Hop(b)') /\ ~Idle(Hop(b))
    <2>1. PICK h, k : h = Hop(b) /\ k = Hop(b)'
      OBVIOUS
    <2>2. /\ h.link \in Seq(Beat) /\ h.slot \in Beat /\ h.half /\ k.slot = h.slot
          /\ k.latch = h.latch /\ ~k.pending /\ ~k.half /\ k.link = Append(h.link, Payload(h.slot))
      BY <1>2, <2>1, HopTypes, HopParts
    <2> QED  BY <2>1, <2>2, SendPayload
  <1> QED  BY <1>1, <1>3, OneHop

\* A data frame that board b sends, relayed or its own.
LEMMA DataHops ==
    ASSUME TypeOK, NEW b \in Board, NEW d \in Beat, d.type \in DataTypes, ~ftxBeat1[b],
           fLink' = [fLink EXCEPT ![b] = Append(@, d)], UNCHANGED <<fwdSlot, frx>>
    PROVE  HopsKept
  <1>1. \A c \in Board : c # b => Same(Hop(c), Hop(c)')
    BY DEF Hop, Same, TypeOK, LinkTypes, fwdSlot
  <1>2. /\ fwdPending'[b] = fwdPending[b] /\ ftxBeat1'[b] = ftxBeat1[b]
        /\ fLink'[b] = Append(fLink[b], d) /\ fwd'[b] = fwd[b] /\ frx' = frx
    BY DEF TypeOK, LinkTypes, fwdSlot
  <1>3. HopKept(Hop(b), Hop(b)')
    <2>1. PICK h, k : h = Hop(b) /\ k = Hop(b)'
      OBVIOUS
    <2>2. /\ k.slot = h.slot /\ k.latch = h.latch /\ k.pending = h.pending
          /\ k.half = h.half /\ k.link = Append(h.link, d)
      <3>1. /\ k.slot = fwd'[b] /\ k.pending = fwdPending'[b] /\ k.half = ftxBeat1'[b]
            /\ k.link = fLink'[b] /\ k.latch = frx'[Succ(b)]
        BY <2>1, HopParts
      <3>2. /\ h.slot = fwd[b] /\ h.pending = fwdPending[b] /\ h.half = ftxBeat1[b]
            /\ h.link = fLink[b] /\ h.latch = frx[Succ(b)]
        BY <2>1, HopParts
      <3> QED  BY <1>2, <3>1, <3>2
    <2>3. h.link \in Seq(Beat) /\ ~h.half
      BY <2>1, HopTypes, HopParts
    <2> QED  BY <2>1, <2>2, <2>3, SendData
  <1> QED  BY <1>1, <1>3, OneHop

\* Board b takes a data frame off its link.
LEMMA RxDataHops ==
    ASSUME TypeOK, NEW b \in Board, fLink[Pred(b)] # <<>>, frx[b] = NoFrame,
           FwdHead(b).type \in DataTypes, PopFwd(b), UNCHANGED <<fwdSlot, frx>>
    PROVE  HopsKept
  <1> DEFINE p == Pred(b)
  <1>0. p \in Board /\ Succ(p) = b
    BY Ring
  <1>1. \A c \in Board : c # p => Same(Hop(c), Hop(c)')
    BY <1>0 DEF Hop, Same, TypeOK, LinkTypes, fwdSlot, PopFwd
  <1>2. /\ fwdPending'[p] = fwdPending[p] /\ ftxBeat1'[p] = ftxBeat1[p]
        /\ fLink'[p] = Tail(fLink[p]) /\ fwd'[p] = fwd[p] /\ frx' = frx
    BY <1>0 DEF TypeOK, LinkTypes, fwdSlot, PopFwd
  <1>3. HopKept(Hop(p), Hop(p)')
    <2>1. PICK h, k : h = Hop(p) /\ k = Hop(p)'
      OBVIOUS
    <2>2. /\ h.link \in Seq(Beat) /\ h.link # <<>> /\ h.latch = NoFrame
          /\ Head(h.link).type \in DataTypes /\ k.slot = h.slot /\ k.latch = h.latch
          /\ k.pending = h.pending /\ k.half = h.half /\ k.link = Tail(h.link)
      BY <1>0, <1>2, <2>1, HopTypes, HopParts DEF FwdHead
    <2> QED  BY <2>1, <2>2, TakeData
  <1> QED  BY <1>0, <1>1, <1>3, OneHop

\* A board's own hop and the one it receives from are two.
LEMMA Apart ==
    ASSUME NEW b \in Board
    PROVE  /\ Pred(b) \in Board /\ Succ(b) \in Board /\ Pred(b) # b /\ Succ(b) # b
           /\ Succ(Pred(b)) = b /\ Pred(Succ(b)) = b
           /\ \A c \in Board : c # Pred(b) => Succ(c) # b
           /\ \A c \in Board : c # Succ(b) => Pred(c) # b
  <1>1. /\ Pred(b) \in Board /\ Succ(b) \in Board
        /\ Succ(Pred(b)) = b /\ Pred(Succ(b)) = b
    BY Ring
  <1>2. Pred(b) # b /\ Succ(b) # b
    BY Places, BoardAssumption DEF Board
  <1>3. \A c \in Board : c # Pred(b) => Succ(c) # b
    BY Ring
  <1>4. \A c \in Board : c # Succ(b) => Pred(c) # b
    BY Ring
  <1> QED  BY <1>1, <1>2, <1>3, <1>4

\* Board b latches a header, or drops what it does not expect.
LEMMA RxHeaderHops ==
    ASSUME TypeOK, NEW b \in Board, RxHeader(b)
    PROVE  LET p == Pred(b) IN
           /\ ~Idle(Hop(p))
           /\ \A c \in Board : c # p => Same(Hop(c), Hop(c)')
           /\ \A H, P, D :
                /\ ReqSet(H) /\ Carries(Hop(p), H, P, D)
                /\ \A f \in H : IF GateOk(b, f) THEN f \in D ELSE NoFrame \in D
                => Carries(Hop(p)', H, P, D) \/ (Idle(Hop(p)') /\ NoFrame \in D)
           /\ \A H : ReqSet(H) /\ Ends(Hop(p), H) => Ends(Hop(p)', H)
  <1> DEFINE p == Pred(b)
  <1>0. p \in Board /\ Succ(p) = b /\ \A c \in Board : c # p => Succ(c) # b
    BY Apart
  <1>1. \A c \in Board : c # p => Same(Hop(c), Hop(c)')
    <2>1. \A c \in Board : Succ(c) \in Board
      BY Ring
    <2>2. \A c \in Board : c # p => frx'[Succ(c)] = frx[Succ(c)] /\ fLink'[c] = fLink[c]
      BY <1>0, <2>1 DEF TypeOK, LinkTypes, PopFwd, RxHeader
    <2> QED  BY <2>2, HopParts DEF Same, fwdSlot, RxHeader
  <1>2. /\ fwdPending'[p] = fwdPending[p] /\ ftxBeat1'[p] = ftxBeat1[p] /\ fwd'[p] = fwd[p]
    BY <1>0 DEF RxHeader, fwdSlot
  <1>3. /\ fLink'[p] = Tail(fLink[p]) /\ fLink[p] # <<>> /\ frx[b] = NoFrame
        /\ Head(fLink[p]).type \notin DataTypes
    BY <1>0 DEF TypeOK, LinkTypes, PopFwd, RxHeader, FwdHead
  <1>4. IF Head(fLink[p]).type \in FwdTypes /\ GateOk(b, Head(fLink[p]))
          THEN frx'[b] = Head(fLink[p]) ELSE frx'[b] = NoFrame
    BY <1>0, <1>3 DEF TypeOK, LinkTypes, RxHeader, FwdHead
  <1>5. PICK h, k : h = Hop(p) /\ k = Hop(p)'
    OBVIOUS
  <1>6. /\ h.link \in Seq(Beat) /\ h.link # <<>> /\ h.latch = NoFrame
        /\ Head(h.link).type \notin DataTypes
    BY <1>0, <1>3, <1>5, HopTypes, HopParts
  <1>7. /\ k.slot = h.slot /\ k.pending = h.pending /\ k.half = h.half
        /\ k.link = Tail(h.link)
    BY <1>0, <1>2, <1>3, <1>5, HopParts
  <1>8. IF Head(h.link).type \in FwdTypes /\ GateOk(b, Head(h.link))
          THEN k.latch = Head(h.link) ELSE k.latch = NoFrame
    BY <1>0, <1>4, <1>5, HopParts
  <1>9. Head(h.link).type = "PAYLOAD" => k.latch = NoFrame
    BY <1>8 DEF FwdTypes
  <1>10. \A H : ReqSet(H) /\ Head(h.link) \in H => Head(h.link).type \in FwdTypes
    BY DEF ReqSet
  <1>11. ~Idle(h)
    BY <1>6, <1>7, <1>8, TakeHeader
  <1>12. ASSUME NEW H, NEW P, NEW D, ReqSet(H), Carries(h, H, P, D),
                \A f \in H : IF GateOk(b, f) THEN f \in D ELSE NoFrame \in D
         PROVE  Carries(k, H, P, D) \/ (Idle(k) /\ NoFrame \in D)
    <2>1. Head(h.link) \in H => k.latch \in D
      BY <1>8, <1>10, <1>12
    <2> QED  BY <1>6, <1>7, <1>8, <1>9, <1>12, <2>1, TakeHeader
  <1>13. \A H : ReqSet(H) /\ Ends(h, H) => Ends(k, H)
    BY <1>6, <1>7, <1>8, <1>9, TakeHeader
  <1> QED  BY <1>1, <1>5, <1>11, <1>12, <1>13

\* The payload of the header that board b has latched arrives, and b may pass
\* the frame on in its own slot.
LEMMA RxPayloadHops ==
    ASSUME TypeOK, NEW b \in Board, NEW t \in FwdTypes, RxPayload(b, t),
           UNCHANGED fwdSlot \/ \E f : QueueFwd(b, f)
    PROVE  LET p == Pred(b) IN
           /\ p \in Board /\ p # b /\ frx[b].type = t /\ ~Idle(Hop(p)) /\ FwdHead(b) \in Beat
           /\ \A c \in Board : c # p /\ c # b => Same(Hop(c), Hop(c)')
           /\ \A H, P, D : Carries(Hop(p), H, P, D) =>
                /\ Idle(Hop(p)') /\ frx[b] \in D /\ ~fwdPending[p] /\ IsPayload(FwdHead(b), P)
           /\ \A H : Ends(Hop(p), H) => Ends(Hop(p)', H) /\ frx[b] \in H
           /\ UNCHANGED fwdSlot => Same(Hop(b), Hop(b)')
           /\ \A f, H, P, D : QueueFwd(b, f) /\ f \in H /\ f.pl \in P =>
                /\ Idle(Hop(b)) => Carries(Hop(b)', H, P, D)
                /\ Ends(Hop(b), H) => Ends(Hop(b)', H)
  <1> DEFINE p == Pred(b)
  <1>0. p \in Board /\ Succ(p) = b /\ p # b /\ Succ(b) # b /\ Succ(b) \in Board
        /\ \A c \in Board : c # p => Succ(c) # b
    BY Apart
  <1>1. \A c \in Board : c # p => frx'[Succ(c)] = frx[Succ(c)] /\ fLink'[c] = fLink[c]
    <2>1. \A c \in Board : Succ(c) \in Board
      BY Ring
    <2> QED  BY <1>0, <2>1 DEF TypeOK, LinkTypes, PopFwd, RxPayload
  <1>2. \A c \in Board : c # b => /\ fwdPending'[c] = fwdPending[c]
                                  /\ ftxBeat1'[c] = ftxBeat1[c] /\ fwd'[c] = fwd[c]
    BY DEF TypeOK, SlotTypes, fwdSlot, QueueFwd
  <1>3. \A c \in Board : c # p /\ c # b => Same(Hop(c), Hop(c)')
    BY <1>1, <1>2, HopParts DEF Same
  <1>4. UNCHANGED fwdSlot => Same(Hop(b), Hop(b)')
    BY <1>0, <1>1, HopParts DEF Same, fwdSlot
  <1>5. /\ fLink'[p] = Tail(fLink[p]) /\ fLink[p] # <<>> /\ frx'[b] = NoFrame
        /\ frx[b].type = t /\ frx[b] # NoFrame
    BY <1>0 DEF TypeOK, LinkTypes, PopFwd, RxPayload, FwdTypes, NoFrame, Frame
  <1>6. FwdHead(b) = Head(fLink[p]) /\ FwdHead(b) \in Beat
    BY <1>0, <1>5, HopTypes, TailBeats DEF FwdHead
  <1>7. PICK h, k : h = Hop(p) /\ k = Hop(p)'
    OBVIOUS
  <1>8. /\ h.link \in Seq(Beat) /\ h.link # <<>> /\ h.latch # NoFrame
        /\ k.link = Tail(h.link) /\ k.latch = NoFrame
        /\ h.latch = frx[b] /\ Head(h.link) = FwdHead(b)
    BY <1>0, <1>5, <1>6, <1>7, HopTypes, HopParts
  <1>9. k.slot = h.slot /\ k.pending = h.pending /\ k.half = h.half /\ h.pending = fwdPending[p]
    BY <1>0, <1>2, <1>7, HopParts
  <1>10. /\ ~Idle(h)
         /\ \A H, P, D : Carries(h, H, P, D) =>
              Idle(k) /\ h.latch \in D /\ ~h.pending /\ IsPayload(Head(h.link), P)
         /\ \A H : Ends(h, H) => Ends(k, H) /\ h.latch \in H
    BY <1>8, <1>9, TakePayload
  <1>11. ASSUME NEW f, NEW H, NEW P, NEW D, QueueFwd(b, f), f \in H, f.pl \in P
         PROVE  /\ Idle(Hop(b)) => Carries(Hop(b)', H, P, D)
                /\ Ends(Hop(b), H) => Ends(Hop(b)', H)
    <2>1. PICK g, m : g = Hop(b) /\ m = Hop(b)'
      OBVIOUS
    <2>2. fwd'[b] = f /\ fwdPending'[b] /\ ftxBeat1'[b] = ftxBeat1[b]
      BY <1>11 DEF TypeOK, SlotTypes, QueueFwd
    <2>3. m.slot = f /\ m.pending /\ m.half = g.half
      BY <2>1, <2>2, HopParts
    <2>4. m.link = g.link /\ m.latch = g.latch
      BY <1>0, <1>1, <2>1, HopParts
    <2> QED  BY <1>11, <2>1, <2>3, <2>4, QueueFrame
  <1> QED  BY <1>0, <1>3, <1>4, <1>5, <1>6, <1>7, <1>8, <1>9, <1>10, <1>11

\* The master queues a frame of its own.
LEMMA QueueHops ==
    ASSUME TypeOK, NEW b \in Board, NEW f, QueueFwd(b, f), UNCHANGED <<fLink, frx>>
    PROVE  /\ \A c \in Board : c # b => Same(Hop(c), Hop(c)')
           /\ \A H, P, D : f \in H /\ f.pl \in P =>
                /\ Idle(Hop(b)) => Carries(Hop(b)', H, P, D)
                /\ Ends(Hop(b), H) => Ends(Hop(b)', H)
  <1>1. \A c \in Board : c # b => Same(Hop(c), Hop(c)')
    BY DEF Hop, Same, TypeOK, SlotTypes, QueueFwd
  <1>2. ASSUME NEW H, NEW P, NEW D, f \in H, f.pl \in P
        PROVE  /\ Idle(Hop(b)) => Carries(Hop(b)', H, P, D)
               /\ Ends(Hop(b), H) => Ends(Hop(b)', H)
    <2>1. PICK g, m : g = Hop(b) /\ m = Hop(b)'
      OBVIOUS
    <2>2. fwd'[b] = f /\ fwdPending'[b] /\ ftxBeat1'[b] = ftxBeat1[b]
      BY DEF TypeOK, SlotTypes, QueueFwd
    <2>3. m.slot = f /\ m.pending /\ m.half = g.half
      BY <2>1, <2>2, HopParts
    <2>4. m.link = g.link /\ m.latch = g.latch
      BY <2>1, HopParts
    <2> QED  BY <1>2, <2>1, <2>3, <2>4, QueueFrame
  <1> QED  BY <1>1, <1>2

-----------------------------------------------------------------------------
\* The backward transmitter's first beat.
LEMMA BwdTxBeat0Backs ==
    ASSUME TypeOK, NEW b \in Board, BwdTxBeat0(b)
    PROVE  BacksKept
  <1>1. \A c \in Board : c # b => Same(Back(c), Back(c)')
    BY DEF BwdTxBeat0, Back, Same, TypeOK, SlotTypes, LinkTypes
  <1>2. /\ bwdPending[b] /\ ~btxBeat1[b] /\ bwdPending'[b] = bwdPending[b] /\ btxBeat1'[b]
        /\ bLink'[b] = Append(bLink[b], Header(bwd[b])) /\ bwd'[b] = bwd[b] /\ brx' = brx
    BY DEF BwdTxBeat0, TypeOK, SlotTypes, LinkTypes
  <1>3. BackKept(Back(b), Back(b)')
    <2>1. PICK h, k : h = Back(b) /\ k = Back(b)'
      OBVIOUS
    <2>2. /\ h.pending /\ ~h.half /\ k.slot = h.slot
          /\ k.latch = h.latch /\ k.pending /\ k.half /\ k.link = Append(h.link, Header(h.slot))
      BY <1>2, <2>1, BackParts
    <2>3. h.link \in Seq(Beat)
      BY <2>1, HopTypes, BackParts
    <2> QED  BY <2>1, <2>2, <2>3, SendAckHeader DEF BackKept, BackIdle
  <1> QED  BY <1>1, <1>3, OneBack

\* The backward transmitter's second beat.
LEMMA BwdTxBeat1Backs ==
    ASSUME TypeOK, NEW b \in Board, BwdTxBeat1(b)
    PROVE  BacksKept
  <1>1. \A c \in Board : c # b => Same(Back(c), Back(c)')
    BY DEF BwdTxBeat1, Back, Same, TypeOK, SlotTypes, LinkTypes
  <1>2. /\ btxBeat1[b] /\ ~bwdPending'[b] /\ ~btxBeat1'[b]
        /\ bLink'[b] = Append(bLink[b], Payload(bwd[b])) /\ bwd'[b] = bwd[b] /\ brx' = brx
    BY DEF BwdTxBeat1, TypeOK, SlotTypes, LinkTypes
  <1>3. BackKept(Back(b), Back(b)')
    <2>1. PICK h, k : h = Back(b) /\ k = Back(b)'
      OBVIOUS
    <2>2. /\ h.half /\ k.slot = h.slot
          /\ k.latch = h.latch /\ ~k.pending /\ ~k.half /\ k.link = Append(h.link, Payload(h.slot))
      BY <1>2, <2>1, BackParts
    <2>3. h.link \in Seq(Beat)
      BY <2>1, HopTypes, BackParts
    <2> QED  BY <2>1, <2>2, <2>3, SendAckPayload DEF BackKept, BackIdle
  <1> QED  BY <1>1, <1>3, OneBack

\* The backward receiver latches a header or lets it go.
LEMMA RxBackHeaderBacks ==
    ASSUME TypeOK, NEW b \in Board, RxBackHeader(b)
    PROVE  BacksKept
  <1> DEFINE s == Succ(b)
  <1>0. s \in Board /\ Pred(s) = b /\ \A c \in Board : c # s => Pred(c) # b
    BY Apart
  <1>1. \A c \in Board : c # s => Same(Back(c), Back(c)')
    <2>1. \A c \in Board : Pred(c) \in Board
      BY Ring
    <2>2. \A c \in Board : c # s => brx'[Pred(c)] = brx[Pred(c)] /\ bLink'[c] = bLink[c]
      BY <1>0, <2>1 DEF TypeOK, LinkTypes, PopBwd, RxBackHeader
    <2> QED  BY <2>2, BackParts DEF Same, bwdSlot, RxBackHeader
  <1>2. /\ bwdPending'[s] = bwdPending[s] /\ btxBeat1'[s] = btxBeat1[s] /\ bwd'[s] = bwd[s]
    BY <1>0 DEF RxBackHeader, bwdSlot
  <1>3. /\ bLink'[s] = Tail(bLink[s]) /\ bLink[s] # <<>> /\ brx[b] = NoFrame
    BY <1>0 DEF TypeOK, LinkTypes, PopBwd, RxBackHeader, BwdHead
  <1>4. IF Head(bLink[s]).type \in BwdTypes /\ GateOk(b, Head(bLink[s]))
          THEN brx'[b] = Head(bLink[s]) ELSE brx'[b] = NoFrame
    BY <1>0, <1>3 DEF TypeOK, LinkTypes, RxBackHeader, BwdHead
  <1>5. \A f \in Beat : GateOk(b, f) => f.src # Unassigned
    <2>1. EffMax(b) \in 0..31
      BY HopTypes DEF EffMax
    <2>2. Id \subseteq Nat
      BY BcastWidth DEF Id
    <2>3. Unassigned = 65534 /\ Bcast = 65535
      BY DEF Unassigned, Bcast
    <2>4. \A x \in Nat, m \in 0..31 : x < m => x # 65534
      OBVIOUS
    <2>5. \A f \in Beat : f.src \in Nat
      BY <2>2 DEF Beat
    <2> QED  BY <2>1, <2>3, <2>4, <2>5 DEF GateOk
  <1>6. PICK h, k : h = Back(s) /\ k = Back(s)'
    OBVIOUS
  <1>7. h.link \in Seq(Beat) /\ h.link # <<>> /\ h.link[1] \in Beat /\ Head(h.link) = h.link[1]
    BY <1>0, <1>3, <1>6, HopTypes, BackParts, TailBeats
  <1>8. /\ k.slot = h.slot /\ k.pending = h.pending /\ k.half = h.half
        /\ k.link = Tail(h.link)
    BY <1>0, <1>2, <1>3, <1>6, BackParts
  <1>9. \/ k.latch = NoFrame
        \/ k.latch = Head(h.link) /\ Head(h.link).type \in BwdTypes /\ GateOk(b, Head(h.link))
    BY <1>0, <1>4, <1>6, BackParts
  <1>10. ASSUME NEW A, NEW V, AckSet(A), Answers(h, A, V) PROVE Answers(k, A, V)
    <2>1. Len(h.link) \in Nat /\ Len(h.link) >= 1
      BY <1>7, TailBeats
    <2>2. h.link[1] \in A \/ h.link[1].type = "PAYLOAD"
      BY <1>10, <2>1 DEF Answers, IsPayload
    <2>3. \/ k.latch = NoFrame
          \/ /\ k.latch = Head(h.link) /\ k.latch \in A /\ k.latch.src # Unassigned
             /\ k.latch.type # "PAYLOAD"
      BY <1>5, <1>7, <1>9, <2>2 DEF BwdTypes
    <2> QED  BY <1>7, <1>8, <1>10, <2>3, TailAnswers
  <1>11. ~BackIdle(h)
    BY <1>7 DEF BackIdle
  <1> QED  BY <1>0, <1>1, <1>6, <1>10, <1>11, OneBack DEF BackKept

\* The payload of an ACK arrives at board b, which may pass the ACK on.
LEMMA RxBackPayloadBacks ==
    ASSUME TypeOK, NEW b \in Board, RxBackPayload(b),
           UNCHANGED bwdSlot \/ \E f : QueueBwd(b, f)
    PROVE  /\ ~BackIdle(Back(Succ(b))) /\ BwdHead(b) \in Beat
           /\ \A A, V : AckSet(A) /\ Answers(Back(Succ(b)), A, V) =>
                IsPayload(BwdHead(b), V) /\ brx[b] \in A /\ brx[b].src # Unassigned
           /\ UNCHANGED bwdSlot => BacksKept
           /\ \A A, V : AckSet(A) /\ Acks(A, V)
                        /\ (UNCHANGED bwdSlot
                             \/ \E f : QueueBwd(b, f) /\ f \in A /\ f.pl \in V)
                        => Acks(A, V)'
  <1> DEFINE s == Succ(b)
  <1>0. s \in Board /\ Pred(s) = b /\ s # b /\ \A c \in Board : c # s => Pred(c) # b
    BY Apart
  <1>1. \A c \in Board : c # s => brx'[Pred(c)] = brx[Pred(c)] /\ bLink'[c] = bLink[c]
    <2>1. \A c \in Board : Pred(c) \in Board
      BY Ring
    <2> QED  BY <1>0, <2>1 DEF TypeOK, LinkTypes, PopBwd, RxBackPayload
  <1>2. \A c \in Board : c # b => /\ bwdPending'[c] = bwdPending[c]
                                  /\ btxBeat1'[c] = btxBeat1[c] /\ bwd'[c] = bwd[c]
    BY DEF TypeOK, SlotTypes, bwdSlot, QueueBwd
  <1>3. \A c \in Board : c # s /\ c # b => Same(Back(c), Back(c)')
    BY <1>1, <1>2, BackParts DEF Same
  <1>4. UNCHANGED bwdSlot => Same(Back(b), Back(b)')
    BY <1>0, <1>1, BackParts DEF Same, bwdSlot
  <1>5. /\ bLink'[s] = Tail(bLink[s]) /\ bLink[s] # <<>> /\ brx'[b] = NoFrame
        /\ brx[b] # NoFrame
    BY <1>0 DEF TypeOK, LinkTypes, PopBwd, RxBackPayload
  <1>6. BwdHead(b) = Head(bLink[s]) /\ BwdHead(b) \in Beat
    BY <1>0, <1>5, HopTypes, TailBeats DEF BwdHead
  <1>7. PICK h, k : h = Back(s) /\ k = Back(s)'
    OBVIOUS
  <1>8. /\ h.link \in Seq(Beat) /\ h.link # <<>> /\ h.latch # NoFrame
        /\ k.link = Tail(h.link) /\ k.latch = NoFrame
        /\ h.latch = brx[b] /\ Head(h.link) = BwdHead(b)
    BY <1>0, <1>5, <1>6, <1>7, HopTypes, BackParts
  <1>9. k.slot = h.slot /\ k.pending = h.pending /\ k.half = h.half
    BY <1>0, <1>2, <1>7, BackParts
  <1>10. ~BackIdle(h) /\ BackKept(h, k)
    BY <1>8, <1>9, TailAnswers DEF BackKept, BackIdle
  <1>11. \A A, V : AckSet(A) /\ Answers(h, A, V) =>
           IsPayload(Head(h.link), V) /\ h.latch \in A /\ h.latch.src # Unassigned
    BY <1>8, TakeAckPayload
  <1>12. UNCHANGED bwdSlot => BacksKept
    BY <1>0, <1>3, <1>4, <1>7, <1>10, SameBack DEF BacksKept
  <1>13. ASSUME NEW A, NEW V, AckSet(A), Acks(A, V), NEW f, QueueBwd(b, f), f \in A, f.pl \in V
         PROVE  Acks(A, V)'
    <2>1. PICK g, m : g = Back(b) /\ m = Back(b)'
      OBVIOUS
    <2>2. bwd'[b] = f /\ bwdPending'[b] /\ btxBeat1'[b] = btxBeat1[b]
      BY <1>13 DEF TypeOK, SlotTypes, QueueBwd
    <2>3. m.slot = f /\ m.pending /\ m.half = g.half
      BY <2>1, <2>2, BackParts
    <2>4. m.link = g.link /\ m.latch = g.latch
      BY <1>0, <1>1, <2>1, BackParts
    <2>5. Answers(m, A, V)
      BY <1>13, <2>1, <2>3, <2>4, QueueAck DEF Acks
    <2>6. Answers(k, A, V)
      BY <1>0, <1>7, <1>10, <1>13 DEF BackKept, Acks
    <2>7. ASSUME NEW c \in Board, c # s, c # b PROVE Answers(Back(c)', A, V)
      BY <1>3, <1>13, <2>7, SameBack DEF BackKept, Acks
    <2> QED  BY <1>7, <2>1, <2>5, <2>6, <2>7 DEF Acks
  <1>14. \A A, V : AckSet(A) /\ Acks(A, V) /\ UNCHANGED bwdSlot => Acks(A, V)'
    BY <1>12 DEF BacksKept, BackKept, Acks
  <1> QED  BY <1>7, <1>8, <1>10, <1>11, <1>6, <1>12, <1>13, <1>14

\* A board queues an ACK.
LEMMA QueueBacks ==
    ASSUME TypeOK, NEW b \in Board, NEW f, QueueBwd(b, f), UNCHANGED <<bLink, brx>>,
           NEW A, NEW V, AckSet(A), Acks(A, V), f \in A, f.pl \in V
    PROVE  Acks(A, V)'
  <1>1. \A c \in Board : c # b => Same(Back(c), Back(c)')
    BY DEF Back, Same, TypeOK, SlotTypes, QueueBwd
  <1>2. PICK g, m : g = Back(b) /\ m = Back(b)'
    OBVIOUS
  <1>3. bwd'[b] = f /\ bwdPending'[b] /\ btxBeat1'[b] = btxBeat1[b]
    BY DEF TypeOK, SlotTypes, QueueBwd
  <1>4. m.slot = f /\ m.pending /\ m.half = g.half
    BY <1>2, <1>3, BackParts
  <1>5. m.link = g.link /\ m.latch = g.latch
    BY <1>2, BackParts
  <1>6. Answers(m, A, V)
    BY <1>2, <1>4, <1>5, QueueAck DEF Acks
  <1>7. ASSUME NEW c \in Board, c # b PROVE Answers(Back(c)', A, V)
    BY <1>1, <1>7, SameBack DEF BackKept, Acks
  <1> QED  BY <1>2, <1>6, <1>7 DEF Acks

-----------------------------------------------------------------------------
(* The beats a link or a FIFO holds.                                       *)

\* What a cable or FIFO holds after one beat more.
LEMMA HoldsAppend ==
    ASSUME NEW q \in Seq(Beat), NEW e \in Beat, NEW t
    PROVE  Holds(Append(q, e), t) <=> Holds(q, t) \/ e.type = t
  <1>1. /\ Len(q) \in Nat /\ Len(Append(q, e)) = Len(q) + 1
        /\ \A i \in 1..Len(q) : Append(q, e)[i] = q[i]
        /\ Append(q, e)[Len(q) + 1] = e
    BY AppendBeat
  <1>2. \A i \in 1..Len(Append(q, e)) : i \in 1..Len(q) \/ i = Len(q) + 1
    BY <1>1
  <1>3. \A i \in 1..Len(q) : i \in 1..Len(Append(q, e))
    BY <1>1
  <1>4. Len(q) + 1 \in 1..Len(Append(q, e))
    BY <1>1
  <1> QED  BY <1>1, <1>2, <1>3, <1>4 DEF Holds

\* What a cable or FIFO holds after one beat less.
LEMMA HoldsTail ==
    ASSUME NEW q \in Seq(Beat), q # <<>>, NEW t
    PROVE  Holds(q, t) <=> Head(q).type = t \/ Holds(Tail(q), t)
  <1>1. /\ Len(q) \in Nat /\ Len(q) >= 1 /\ Len(Tail(q)) = Len(q) - 1
        /\ Head(q) = q[1]
        /\ \A i \in 1..Len(q) - 1 : Tail(q)[i] = q[i + 1]
    BY TailBeats
  <1>2. ASSUME NEW i \in 1..Len(q), q[i].type = t, i # 1 PROVE Holds(Tail(q), t)
    <2>1. PICK j \in Nat : j = i - 1 /\ j + 1 = i /\ j \in 1..Len(q) - 1
      BY <1>1, <1>2
    <2> QED  BY <1>1, <1>2, <2>1 DEF Holds
  <1>3. ASSUME NEW j \in 1..Len(Tail(q)), Tail(q)[j].type = t PROVE Holds(q, t)
    <2>1. j + 1 \in 1..Len(q) /\ j \in 1..Len(q) - 1
      BY <1>1
    <2> QED  BY <1>1, <1>3, <2>1 DEF Holds
  <1>4. 1 \in 1..Len(q)
    BY <1>1
  <1> QED  BY <1>1, <1>2, <1>3, <1>4 DEF Holds

\* An empty one holds nothing.
LEMMA HoldsNothing == ASSUME NEW t PROVE ~Holds(<<>>, t)
  BY BeatSeqs DEF Holds

-----------------------------------------------------------------------------
(* A step that moves beats and nothing else keeps the phase.               *)

\* The sets of frames the phases name do not look at payloads.
LEMMA Kinds ==
    /\ \A t \in FwdTypes : \A d : ReqSet(Requests(t, d))
    /\ \A t \in FwdTypes : ReqSet(Broadcasts(t))
    /\ ReqSet(Counts) /\ ReqSet(Pauses) /\ ReqSet(Gos)
    /\ AckSet(PauseAcks) /\ AckSet(AnyPauseAck) /\ AckSet(ReserveAcks) /\ AckSet(DiagAcks)
  <1>1. \A f \in Beat, x \in Word :
          LET g == [f EXCEPT !.pl = x]
          IN  g \in Beat /\ g.type = f.type /\ g.src = f.src /\ g.dest = f.dest
    BY DEF Beat
  <1>2. "ENUM_COUNT" \in FwdTypes /\ "PAUSE_REQ" \in FwdTypes /\ "GO" \in FwdTypes
        /\ "PAUSE_ACK" \in BwdTypes /\ "RESERVE_ACK" \in BwdTypes /\ "DIAG_ACK" \in BwdTypes
    BY DEF FwdTypes, BwdTypes
  <1>3. \A t \in FwdTypes : \A d : ReqSet(Requests(t, d))
    BY <1>1 DEF ReqSet, Requests
  <1>4. \A t \in FwdTypes : ReqSet(Broadcasts(t))
    BY <1>1 DEF ReqSet, Broadcasts
  <1>5. ReqSet(Counts)
    BY <1>1, <1>2 DEF ReqSet, Counts
  <1>6. ReqSet(Pauses) /\ ReqSet(Gos)
    BY <1>2, <1>4 DEF Pauses, Gos
  <1>7. AckSet(PauseAcks)
    BY <1>1, <1>2 DEF AckSet, PauseAcks
  <1>8. AckSet(AnyPauseAck) /\ AckSet(ReserveAcks)
    BY <1>1, <1>2 DEF AckSet, AnyPauseAck, ReserveAcks
  <1>9. AckSet(DiagAcks)
    BY <1>1, <1>2 DEF AckSet, DiagAcks
  <1> QED  BY <1>3, <1>4, <1>5, <1>6, <1>7, <1>8, <1>9

\* The registers the phases speak of stay as they are.
Undisturbed ==
    /\ UNCHANGED <<boardIndex, boardId, totalIn, total, waiting, goSent, goTx, pendGroup, fires,
                   goLog, resDest, diagDest, up>>
    /\ waiting => UNCHANGED <<ackMask, ackCount>>

\* Until somebody streams, no lock opens.
LocksKept == NoStream' => NoStream /\ \A b \in Board : locked[b] => locked'[b]

\* What the phases say of registers alone.
LEMMA RegistersKept ==
    ASSUME Undisturbed, LocksKept
    PROVE  /\ NoneOwes => NoneOwes'
           /\ Ready' => Ready
           /\ Numbered' <=> Numbered
           /\ \A n : LockedUpTo(n) => LockedUpTo(n)'
           /\ PauseAcks' = PauseAcks /\ DiagAcks' = DiagAcks
           /\ \A n : IndicesUpTo(n)' = IndicesUpTo(n)
           /\ Grants \subseteq Grants'
  <1>1. NoneOwes => NoneOwes'
    BY DEF NoneOwes, Owes, Undisturbed
  <1>2. Ready' => Ready
    BY DEF Ready, TotalEff, Undisturbed
  <1>3. Numbered' <=> Numbered
    BY DEF Numbered, Undisturbed
  <1>4. \A n : LockedUpTo(n) => LockedUpTo(n)'
    BY DEF LockedUpTo, LocksKept, Slaves
  <1>5. PauseAcks' = PauseAcks
    BY <1>3 DEF PauseAcks
  <1>6. DiagAcks' = DiagAcks
    BY DEF DiagAcks, Undisturbed
  <1>7. \A n : IndicesUpTo(n)' = IndicesUpTo(n)
    BY DEF IndicesUpTo, Undisturbed
  <1>8. resDest' = resDest
    BY DEF Undisturbed
  <1>9. Grants \subseteq Grants'
    BY <1>4, <1>8 DEF Grants
  <1> QED  BY <1>1, <1>2, <1>3, <1>4, <1>5, <1>6, <1>7, <1>9

\* The hops backward still hold the kinds of ACKs they held.
AcksStay == \A A, V : AckSet(A) /\ Acks(A, V) => \A b \in Board : Answers(Back(b)', A, V)

\* Backward hops kept carry the same kinds of ACK.
LEMMA AcksKept ==
    ASSUME BacksKept
    PROVE  /\ NoAcks => NoAcks'
           /\ AcksStay
  BY DEF BacksKept, BackKept, NoAcks, Acks, AcksStay

\* Hops kept carry the same frame, alone if it was.
LEMMA FramesKept ==
    ASSUME HopsKept
    PROVE  /\ Empty => Empty'
           /\ \A s \in Board : \A H, P, D : ReqSet(H) /\ AloneAt(s, H, P, D)
                => /\ Carries(Hop(s)', H, P, D)
                   /\ \A b \in Board \ {s} : Idle(Hop(b)')
  BY DEF HopsKept, HopKept, Empty, AloneAt

\* The ACKs of every phase stay the ACKs of that phase.
LEMMA PhaseAcksKept ==
    ASSUME AcksStay, Undisturbed, LocksKept
    PROVE  /\ waiting => \A n : AckedUpTo(n) => AckedUpTo(n)'
           /\ Acks(AnyPauseAck, Word) => Acks(AnyPauseAck, Word)'
           /\ Acks(ReserveAcks, Grants) => Acks(ReserveAcks, Grants)'
           /\ Acks(DiagAcks, Healths) => Acks(DiagAcks, Healths)'
  <1>1. ASSUME waiting, NEW n, AckedUpTo(n) PROVE AckedUpTo(n)'
    <2>1. PICK A, V : A = PauseAcks /\ V = IndicesUpTo(n)
      OBVIOUS
    <2>2. A = PauseAcks' /\ V = IndicesUpTo(n)'
      BY <2>1, RegistersKept
    <2>3. \A b \in Board : Answers(Back(b)', A, V)
      BY <1>1, <2>1, Kinds DEF AcksStay, AckedUpTo
    <2>4. LockedUpTo(n)' /\ \A i \in ackMask' : i <= n
      BY <1>1, RegistersKept DEF AckedUpTo, Undisturbed
    <2> QED  BY <2>2, <2>3, <2>4 DEF AckedUpTo, Acks
  <1>2. Acks(AnyPauseAck, Word) => Acks(AnyPauseAck, Word)'
    <2>1. Acks(AnyPauseAck, Word) => \A b \in Board : Answers(Back(b)', AnyPauseAck, Word)
      BY Kinds DEF AcksStay
    <2> QED  BY <2>1 DEF Acks, AnyPauseAck
  <1>3. Acks(ReserveAcks, Grants) => Acks(ReserveAcks, Grants)'
    <2>1. PICK V, W : V = Grants /\ W = Grants'
      OBVIOUS
    <2>2. V \subseteq W
      BY <2>1, RegistersKept
    <2>3. ASSUME Acks(ReserveAcks, Grants), NEW b \in Board
          PROVE  Answers(Back(b)', ReserveAcks, W)
      <3>1. Answers(Back(b)', ReserveAcks, V)
        BY <2>1, <2>3, Kinds DEF AcksStay
      <3> QED  BY <2>2, <3>1, WiderAnswers
    <2> QED  BY <2>1, <2>3 DEF Acks, ReserveAcks
  <1>4. Acks(DiagAcks, Healths) => Acks(DiagAcks, Healths)'
    <2>1. PICK A : A = DiagAcks /\ A = DiagAcks'
      BY RegistersKept
    <2>2. Acks(DiagAcks, Healths) => \A b \in Board : Answers(Back(b)', A, Healths)
      BY <2>1, Kinds DEF AcksStay
    <2> QED  BY <2>1, <2>2 DEF Acks, Healths
  <1> QED  BY <1>1, <1>2, <1>3, <1>4

\* A step that only moves frames along their hops stays in its phase.
LEMMA PhaseKept ==
    ASSUME HopsKept, AcksStay, NoAcks => NoAcks', Undisturbed, LocksKept,
           NoAssign => NoAssign', Phases
    PROVE  Phases'
  <1>0. AcksStay /\ (NoAcks => NoAcks')
    OBVIOUS
  <1>1. Resting => Resting'
    BY FramesKept, RegistersKept DEF Resting
  <1>2. ASSUME Enumerating PROVE Enumerating'
    <2>1. PICK s \in Board : /\ AloneAt(s, Counts, {Dist(s)}, Counts)
                             /\ \A b \in Slaves : Dist(b) <= Dist(s) => boardIndex[b] = Dist(b)
      BY <1>2 DEF Enumerating
    <2>2. AloneAt(s, Counts, {Dist(s)}, Counts)'
      BY <2>1, FramesKept, Kinds DEF AloneAt, Counts
    <2>3. \A b \in Slaves : Dist(b) <= Dist(s) => boardIndex'[b] = Dist(b)
      BY <2>1 DEF Undisturbed
    <2> QED  BY <1>2, <2>2, <2>3, RegistersKept DEF Enumerating
  <1>3. Assigning => Assigning'
    BY FramesKept, RegistersKept DEF Assigning
  <1>4. ASSUME Pausing PROVE Pausing'
    <2>1. waiting /\ waiting' /\ NoAssign' /\ NoneOwes'
      BY <1>4, RegistersKept DEF Pausing, Undisturbed
    <2>2. CASE Empty /\ \E n \in 0..N-1 : AckedUpTo(n)
      BY <1>0, <2>1, <2>2, FramesKept, PhaseAcksKept DEF Pausing
    <2>3. ASSUME NEW s \in Board, AloneAt(s, Pauses, Word, Pauses), AckedUpTo(Dist(s))
          PROVE  Pausing'
      <3>1. AloneAt(s, Pauses, Word, Pauses)'
        BY <2>3, FramesKept, Kinds DEF AloneAt, Pauses, Broadcasts
      <3>2. AckedUpTo(Dist(s))'
        <4>1. PICK n : n = Dist(s)
          OBVIOUS
        <4> QED  BY <1>0, <2>1, <2>3, <4>1, PhaseAcksKept
      <3> QED  BY <2>1, <3>1, <3>2 DEF Pausing
    <2> QED  BY <1>4, <2>2, <2>3 DEF Pausing
  <1>5. ASSUME Going PROVE Going'
    <2>1. ~waiting' /\ NoAssign' /\ Acks(AnyPauseAck, Word)'
      BY <1>0, <1>5, PhaseAcksKept DEF Going, Undisturbed
    <2>2. PICK s \in Board \ {LastBoard} :
            /\ goLog # <<>> /\ Carries(Hop(s), Gos, {goLog[Len(goLog)]}, Gos)
            /\ \A b \in Board \ {s, LastBoard} : Idle(Hop(b))
            /\ Ends(Hop(LastBoard), Pauses)
            /\ goTx => s = Master
            /\ Owes(Master) <=> goTx
            /\ \A b \in Slaves : Owes(b) <=> Dist(b) > Dist(s)
      BY <1>5 DEF Going
    <2>3. PICK P : P = {goLog[Len(goLog)]}
      OBVIOUS
    <2>4. Carries(Hop(s)', Gos, P, Gos)
      BY <2>2, <2>3, Kinds DEF HopsKept, HopKept
    <2>5. /\ \A b \in Board \ {s, LastBoard} : Idle(Hop(b)')
          /\ Ends(Hop(LastBoard)', Pauses)
      BY <2>2, Kinds, Ring DEF HopsKept, HopKept
    <2>6. /\ goLog' = goLog /\ goTx' = goTx
          /\ \A b \in Board : Owes(b)' <=> Owes(b)
      BY DEF Undisturbed, Owes
    <2> QED  BY <2>1, <2>2, <2>3, <2>4, <2>5, <2>6, Ring DEF Going, Gos, Pauses, Broadcasts, Slaves
  <1>6. ASSUME Gone PROVE Gone'
    <2>1. ~waiting' /\ NoAssign' /\ Acks(AnyPauseAck, Word)' /\ NoneOwes'
      BY <1>0, <1>6, PhaseAcksKept, RegistersKept DEF Gone, Undisturbed
    <2>2. ReqSet(Pauses \cup Gos)
      BY Kinds DEF ReqSet
    <2>3. /\ \A b \in Board \ {LastBoard} : Idle(Hop(b)')
          /\ Ends(Hop(LastBoard)', Pauses \cup Gos)
      BY <1>6, <2>2, Ring DEF Gone, HopsKept, HopKept
    <2> QED  BY <2>1, <2>3 DEF Gone, Gos, Pauses, Broadcasts
  <1>7. ASSUME Reserving PROVE Reserving'
    <2>1. NoAssign' /\ NoneOwes' /\ ~Ready' /\ Acks(ReserveAcks, Grants)' /\ resDest' = resDest
      BY <1>0, <1>7, PhaseAcksKept, RegistersKept DEF Reserving, Undisturbed
    <2>2. CASE Empty
      BY <2>1, <2>2, FramesKept DEF Reserving
    <2>3. PICK H, D : H = Requests("RESERVE_REQ", resDest) /\ D = Passed(H) /\ ReqSet(H)
      BY Kinds DEF FwdTypes
    <2>4. H = Requests("RESERVE_REQ", resDest') /\ D = Passed(H)
      BY <2>1, <2>3
    <2>5. ASSUME NEW s \in Board, AloneAt(s, H, Word, D), LockedUpTo(Dist(s))
          PROVE  Reserving'
      <3>1. AloneAt(s, H, Word, D)'
        BY <2>3, <2>5, FramesKept DEF AloneAt
      <3>2. LockedUpTo(Dist(s))'
        <4>1. PICK n : n = Dist(s)
          OBVIOUS
        <4> QED  BY <2>5, <4>1, RegistersKept
      <3> QED  BY <2>1, <2>4, <3>1, <3>2 DEF Reserving
    <2> QED  BY <1>7, <2>2, <2>3, <2>5 DEF Reserving
  <1>8. ASSUME Diagnosing PROVE Diagnosing'
    <2>1. NoAssign' /\ NoneOwes' /\ ~Ready' /\ Acks(DiagAcks, Healths)' /\ diagDest' = diagDest
      BY <1>0, <1>8, PhaseAcksKept, RegistersKept DEF Diagnosing, Undisturbed
    <2>2. CASE Empty
      BY <2>1, <2>2, FramesKept DEF Diagnosing
    <2>3. PICK H, D : H = Requests("DIAG_REQ", diagDest) /\ D = Passed(H) /\ ReqSet(H)
      BY Kinds DEF FwdTypes
    <2>4. H = Requests("DIAG_REQ", diagDest') /\ D = Passed(H)
      BY <2>1, <2>3
    <2>5. ASSUME NEW s \in Board, AloneAt(s, H, Word, D)
          PROVE  Diagnosing'
      <3>1. AloneAt(s, H, Word, D)'
        BY <2>3, <2>5, FramesKept DEF AloneAt
      <3> QED  BY <2>1, <2>4, <3>1 DEF Diagnosing
    <2> QED  BY <1>8, <2>2, <2>3, <2>5 DEF Diagnosing
  <1> QED  BY <1>1, <1>2, <1>3, <1>4, <1>5, <1>6, <1>7, <1>8 DEF Phases

\* Board b latches or drops the header of the one frame on its way.
LEMMA RxHeaderAlone ==
    ASSUME TypeOK, NEW b \in Board, RxHeader(b), NEW H, NEW P, NEW D, NEW s \in Board,
           ReqSet(H), AloneAt(s, H, P, D),
           \A f \in H : IF GateOk(b, f) THEN f \in D ELSE NoFrame \in D
    PROVE  \/ Carries(Hop(s)', H, P, D) /\ \A c \in Board \ {s} : Idle(Hop(c)')
           \/ (\A c \in Board : Idle(Hop(c)')) /\ NoFrame \in D
  <1>1. Pred(b) \in Board /\ ~Idle(Hop(Pred(b)))
    BY RxHeaderHops, Ring
  <1>2. s = Pred(b)
    BY <1>1 DEF AloneAt
  <1>3. \A c \in Board \ {s} : Idle(Hop(c)')
    <2>1. \A c \in Board \ {s} : Idle(Hop(c)) /\ Same(Hop(c), Hop(c)')
      BY <1>2, RxHeaderHops DEF AloneAt
    <2> QED  BY <2>1, SameHop DEF HopKept
  <1>4. Carries(Hop(s)', H, P, D) \/ (Idle(Hop(s)') /\ NoFrame \in D)
    BY <1>2, RxHeaderHops DEF AloneAt
  <1> QED  BY <1>3, <1>4

\* The gate lets through what the master sends to everybody or to itself.
LEMMA GatePasses ==
    ASSUME TypeOK, NEW b \in Board, NEW f \in Beat
    PROVE  /\ f.src = 0 /\ (f.dest = 0 \/ f.dest = Bcast) => GateOk(b, f)
           /\ GateOk(b, f) => f.dest # Unassigned
  <1>1. EffMax(b) \in 1..31
    BY HopTypes DEF EffMax
  <1>2. \A m \in 1..31 : 0 < m /\ ~(65534 < m)
    OBVIOUS
  <1>3. Unassigned = 65534 /\ Bcast = 65535
    BY DEF Unassigned, Bcast
  <1> QED  BY <1>1, <1>2, <1>3 DEF GateOk

\* A header latched, or dropped by a board without an id, stays in the phase or ends it.
LEMMA RxHeaderPhase ==
    ASSUME TypeOK, NEW b \in Board, RxHeader(b), Undisturbed, LocksKept,
           NoAssign => NoAssign', Phases
    PROVE  Phases'
  <1>0. AcksStay /\ (NoAcks => NoAcks')
    <2>1. UNCHANGED <<bwdSlot, bLink, brx>>
      BY DEF RxHeader, PopFwd
    <2> QED  BY <2>1, BackwardKept, BacksSame, AcksKept
  <1>1. ~Empty
    BY RxHeaderHops, Ring DEF Empty
  <1>2. \A f \in Counts : GateOk(b, f)
    BY GatePasses DEF Counts
  <1>3. \A f \in Pauses \cup Gos : GateOk(b, f)
    BY GatePasses DEF Pauses, Gos, Broadcasts
  <1>4. \A t \in FwdTypes : \A d : \A f \in Requests(t, d) :
          IF GateOk(b, f) THEN f \in Passed(Requests(t, d)) ELSE NoFrame \in Passed(Requests(t, d))
    BY GatePasses DEF Requests, Passed
  <1>5. ASSUME Enumerating PROVE Enumerating'
    <2>1. PICK s \in Board : /\ AloneAt(s, Counts, {Dist(s)}, Counts)
                             /\ \A c \in Slaves : Dist(c) <= Dist(s) => boardIndex[c] = Dist(c)
      BY <1>5 DEF Enumerating
    <2>2. NoFrame \notin Counts
      BY DEF NoFrame, Frame, Counts
    <2>3. AloneAt(s, Counts, {Dist(s)}, Counts)'
      BY <1>2, <2>1, <2>2, RxHeaderAlone, Kinds DEF AloneAt, Counts
    <2>4. \A c \in Slaves : Dist(c) <= Dist(s) => boardIndex'[c] = Dist(c)
      BY <2>1 DEF Undisturbed
    <2> QED  BY <1>0, <1>5, <2>3, <2>4, RegistersKept DEF Enumerating
  <1>6. ASSUME Pausing PROVE Pausing'
    <2>1. waiting /\ waiting' /\ NoAssign' /\ NoneOwes'
      BY <1>6, RegistersKept DEF Pausing, Undisturbed
    <2>2. PICK s \in Board : AloneAt(s, Pauses, Word, Pauses) /\ AckedUpTo(Dist(s))
      BY <1>1, <1>6 DEF Pausing
    <2>3. NoFrame \notin Pauses
      BY DEF NoFrame, Frame, Pauses, Broadcasts
    <2>4. AloneAt(s, Pauses, Word, Pauses)'
      BY <1>3, <2>2, <2>3, RxHeaderAlone, Kinds DEF AloneAt, Pauses, Broadcasts
    <2>5. AckedUpTo(Dist(s))'
      <3>1. PICK n : n = Dist(s)
        OBVIOUS
      <3> QED  BY <1>0, <2>1, <2>2, <3>1, PhaseAcksKept
    <2> QED  BY <2>1, <2>4, <2>5 DEF Pausing
  <1>7. ASSUME Going PROVE Going'
    <2>1. ~waiting' /\ NoAssign' /\ Acks(AnyPauseAck, Word)'
      BY <1>0, <1>7, PhaseAcksKept DEF Going, Undisturbed
    <2>2. PICK s \in Board \ {LastBoard} :
            /\ goLog # <<>> /\ Carries(Hop(s), Gos, {goLog[Len(goLog)]}, Gos)
            /\ \A c \in Board \ {s, LastBoard} : Idle(Hop(c))
            /\ Ends(Hop(LastBoard), Pauses)
            /\ goTx => s = Master
            /\ Owes(Master) <=> goTx
            /\ \A c \in Slaves : Owes(c) <=> Dist(c) > Dist(s)
      BY <1>7 DEF Going
    <2>3. PICK P : P = {goLog[Len(goLog)]}
      OBVIOUS
    <2>4. Pred(b) \in {s, LastBoard}
      BY <2>2, RxHeaderHops, Ring
    <2>5. \A c \in Board : c # Pred(b) => HopKept(Hop(c), Hop(c)')
      BY RxHeaderHops, SameHop
    <2>6. \A c \in Board \ {s, LastBoard} : Idle(Hop(c)')
      BY <2>2, <2>4, <2>5 DEF HopKept
    <2>7. Carries(Hop(s)', Gos, P, Gos)
      <3>1. NoFrame \notin Gos
        BY DEF NoFrame, Frame, Gos, Broadcasts
      <3>2. CASE Pred(b) = s
        BY <1>3, <2>2, <2>3, <3>1, <3>2, RxHeaderHops, Kinds
      <3>3. CASE Pred(b) # s
        BY <2>2, <2>3, <2>5, <3>3, Kinds DEF HopKept
      <3> QED  BY <3>2, <3>3
    <2>8. Ends(Hop(LastBoard)', Pauses)
      <3>1. CASE Pred(b) = LastBoard
        BY <2>2, <3>1, RxHeaderHops, Kinds
      <3>2. CASE Pred(b) # LastBoard
        BY <2>2, <2>5, <3>2, Kinds, Ring DEF HopKept
      <3> QED  BY <3>1, <3>2
    <2>9. /\ goLog' = goLog /\ goTx' = goTx
          /\ \A c \in Board : Owes(c)' <=> Owes(c)
      BY DEF Undisturbed, Owes
    <2> QED  BY <2>1, <2>2, <2>3, <2>6, <2>7, <2>8, <2>9, Ring
             DEF Going, Gos, Pauses, Broadcasts, Slaves
  <1>8. ASSUME Gone PROVE Gone'
    <2>1. ~waiting' /\ NoAssign' /\ Acks(AnyPauseAck, Word)' /\ NoneOwes'
      BY <1>0, <1>8, PhaseAcksKept, RegistersKept DEF Gone, Undisturbed
    <2>2. ReqSet(Pauses \cup Gos)
      BY Kinds DEF ReqSet
    <2>3. Pred(b) = LastBoard
      BY <1>8, RxHeaderHops, Ring DEF Gone
    <2>4. \A c \in Board \ {LastBoard} : Idle(Hop(c)')
      BY <1>8, <2>3, RxHeaderHops, SameHop DEF Gone, HopKept
    <2>5. Ends(Hop(LastBoard)', Pauses \cup Gos)
      BY <1>8, <2>2, <2>3, RxHeaderHops DEF Gone
    <2> QED  BY <2>1, <2>4, <2>5 DEF Gone, Gos, Pauses, Broadcasts
  <1>9. ASSUME Reserving PROVE Reserving'
    <2>1. NoAssign' /\ NoneOwes' /\ ~Ready' /\ Acks(ReserveAcks, Grants)' /\ resDest' = resDest
      BY <1>0, <1>9, PhaseAcksKept, RegistersKept DEF Reserving, Undisturbed
    <2>3. PICK H, D : H = Requests("RESERVE_REQ", resDest) /\ D = Passed(H) /\ ReqSet(H)
      BY Kinds DEF FwdTypes
    <2>4. H = Requests("RESERVE_REQ", resDest') /\ D = Passed(H)
      BY <2>1, <2>3
    <2>5. PICK s \in Board : AloneAt(s, H, Word, D) /\ LockedUpTo(Dist(s))
      BY <1>1, <1>9, <2>3 DEF Reserving
    <2>6. AloneAt(s, H, Word, D)' \/ Empty'
      <3>1. \A f \in H : IF GateOk(b, f) THEN f \in D ELSE NoFrame \in D
        BY <1>4, <2>3 DEF FwdTypes
      <3>2. \/ Carries(Hop(s)', H, Word, D) /\ \A c \in Board \ {s} : Idle(Hop(c)')
            \/ \A c \in Board : Idle(Hop(c)')
        BY <2>3, <2>5, <3>1, RxHeaderAlone
      <3> QED  BY <3>2 DEF AloneAt, Empty
    <2>7. LockedUpTo(Dist(s))'
      <3>1. PICK n : n = Dist(s)
        OBVIOUS
      <3> QED  BY <2>5, <3>1, RegistersKept
    <2> QED  BY <2>1, <2>4, <2>6, <2>7 DEF Reserving
  <1>10. ASSUME Diagnosing PROVE Diagnosing'
    <2>1. NoAssign' /\ NoneOwes' /\ ~Ready' /\ Acks(DiagAcks, Healths)' /\ diagDest' = diagDest
      BY <1>0, <1>10, PhaseAcksKept, RegistersKept DEF Diagnosing, Undisturbed
    <2>3. PICK H, D : H = Requests("DIAG_REQ", diagDest) /\ D = Passed(H) /\ ReqSet(H)
      BY Kinds DEF FwdTypes
    <2>4. H = Requests("DIAG_REQ", diagDest') /\ D = Passed(H)
      BY <2>1, <2>3
    <2>5. PICK s \in Board : AloneAt(s, H, Word, D)
      BY <1>1, <1>10, <2>3 DEF Diagnosing
    <2>6. AloneAt(s, H, Word, D)' \/ Empty'
      <3>1. \A f \in H : IF GateOk(b, f) THEN f \in D ELSE NoFrame \in D
        BY <1>4, <2>3 DEF FwdTypes
      <3>2. \/ Carries(Hop(s)', H, Word, D) /\ \A c \in Board \ {s} : Idle(Hop(c)')
            \/ \A c \in Board : Idle(Hop(c)')
        BY <2>3, <2>5, <3>1, RxHeaderAlone
      <3> QED  BY <3>2 DEF AloneAt, Empty
    <2> QED  BY <2>1, <2>4, <2>6 DEF Diagnosing
  <1> QED  BY <1>1, <1>5, <1>6, <1>7, <1>8, <1>9, <1>10 DEF Phases, Resting, Assigning

-----------------------------------------------------------------------------
(* What holds in every phase, under a step that leaves it alone.           *)

\* What is proved inductive: the invariant of any ring and the calm one.
RingInv == FireInv /\ Calm

\* The parts of RingInv by name.
LEMMA RingTypes ==
    ASSUME RingInv
    PROVE  /\ TypeOK /\ MasterKnown /\ Phases
           /\ Healthy /\ Numbers /\ Lawful /\ AssignComes /\ Unstreamed /\ FiredInOrder
           /\ GosCounted /\ AcksCounted
           /\ boardId[Master] = 0 /\ boardIndex[Master] = 0 /\ Master \in Board
  BY Ring DEF RingInv, FireInv, OwnInv, Calm, MasterKnown

\* The part of the invariant that a step on the wires leaves alone.
BudgetKept == \A op \in {"down", "reset", "trig"} : budget'[op] = budget[op]

\* The counting parts of Calm under a step that leaves the registers alone.
LEMMA CountsKept ==
    ASSUME RingInv, Undisturbed, BudgetKept, initOk' => initOk, LocksKept
    PROVE  /\ Healthy' /\ Numbers' /\ FiredInOrder' /\ GosCounted' /\ AcksCounted'
  <1>1. Healthy' /\ FiredInOrder'
    BY DEF RingInv, Calm, Undisturbed, Healthy, FiredInOrder, BudgetKept
  <1>2. Numbers'
    BY DEF RingInv, Calm, Undisturbed, Numbers, Numbered
  <1>3. GosCounted'
    BY DEF RingInv, Calm, Undisturbed, GosCounted, BudgetKept
  <1>4. AcksCounted'
    BY Ring DEF RingInv, Calm, Undisturbed, AcksCounted, LocksKept, Slaves
  <1> QED  BY <1>1, <1>2, <1>3, <1>4

\* T_BOARD_ID_ASSIGN still on its way to everyone it has not reached.
LEMMA AssignComesKept ==
    ASSUME AssignComes, UNCHANGED totalIn, \A b \in Board : AssignOn(b) => AssignOn(b)'
    PROVE  AssignComes'
  BY DEF AssignComes

\* With none of them under way, nobody is without the count.
LEMMA AllAssigned ==
    ASSUME AssignComes, UNCHANGED totalIn, NoAssign
    PROVE  AssignComes'
  BY DEF AssignComes, NoAssign

\* A step that sends no last data beat leaves the ring unstreamed.
LEMMA UnstreamedKept ==
    ASSUME RingInv, budget'["stream"] = budget["stream"],
           NoStream => \A b \in Board :
              /\ busy'[b] => busy[b]
              /\ Holds(fLink'[b], "DATA_LAST") => Holds(fLink[b], "DATA_LAST")
              /\ Holds(relayQ'[b], "DATA_LAST") => Holds(relayQ[b], "DATA_LAST")
    PROVE  Unstreamed'
  BY DEF RingInv, Calm, Unstreamed, NoStream

\* Sending a beat and taking one.
LEMMA SendHolds ==
    ASSUME TypeOK, NEW b \in Board, NEW e \in Beat,
           fLink' = [fLink EXCEPT ![b] = Append(@, e)]
    PROVE  \A t : \A c \in Board : Holds(fLink'[c], t) <=> Holds(fLink[c], t) \/ (c = b /\ e.type = t)
  <1>1. fLink[b] \in Seq(Beat)
    BY HopTypes
  <1>2. fLink'[b] = Append(fLink[b], e) /\ \A c \in Board : c # b => fLink'[c] = fLink[c]
    BY DEF TypeOK, LinkTypes
  <1> QED  BY <1>1, <1>2, HoldsAppend

\* What the cables hold after one beat is taken.
LEMMA PopHolds ==
    ASSUME TypeOK, NEW b \in Board, fLink[Pred(b)] # <<>>, PopFwd(b)
    PROVE  /\ FwdHead(b) \in Beat
           /\ \A t : \A c \in Board : Holds(fLink[c], t) <=>
                Holds(fLink'[c], t) \/ (c = Pred(b) /\ FwdHead(b).type = t)
  <1>1. Pred(b) \in Board
    BY Ring
  <1>2. fLink[Pred(b)] \in Seq(Beat)
    BY <1>1, HopTypes
  <1>3. /\ fLink'[Pred(b)] = Tail(fLink[Pred(b)])
        /\ \A c \in Board : c # Pred(b) => fLink'[c] = fLink[c]
    BY <1>1 DEF TypeOK, LinkTypes, PopFwd
  <1>4. FwdHead(b) \in Beat
    BY <1>2, TailBeats DEF FwdHead
  <1> QED  BY <1>1, <1>2, <1>3, <1>4, HoldsTail DEF FwdHead

\* What the relay FIFOs hold after one beat more.
LEMMA QueueHolds ==
    ASSUME TypeOK, NEW b \in Board, NEW e \in Beat,
           relayQ' = [relayQ EXCEPT ![b] = Append(@, e)]
    PROVE  \A t : \A c \in Board : Holds(relayQ'[c], t) <=> Holds(relayQ[c], t) \/ (c = b /\ e.type = t)
  <1>1. relayQ[b] \in Seq(Beat)
    BY HopTypes
  <1>2. relayQ'[b] = Append(relayQ[b], e) /\ \A c \in Board : c # b => relayQ'[c] = relayQ[c]
    BY DEF TypeOK, Layer2Types
  <1> QED  BY <1>1, <1>2, HoldsAppend

\* Beats of the kinds that the links carry.
LEMMA LawfulSets ==
    /\ LawfulData \subseteq LawfulBeat /\ LawfulBeat \subseteq Beat /\ ReqBeat \subseteq Beat
    /\ \A f \in LawfulData : f.type \in DataTypes
    /\ \A f \in Beat : f.type # "BOARD_ID_ASSIGN" => f \in LawfulBeat
    /\ \A f \in ReqBeat : /\ Header(f) \in LawfulBeat /\ Payload(f) \in LawfulBeat
                          /\ Header(f).type \notin DataTypes
                          /\ Payload(f).type \notin DataTypes
  <1>1. ASSUME NEW f \in ReqBeat
        PROVE  /\ Header(f) \in Beat /\ Payload(f) \in Beat
               /\ Header(f).type \notin DataTypes /\ Payload(f).type \notin DataTypes
    <2>1. f \in Beat /\ f.type \in FwdTypes \cup {"NONE"} /\ 0 \in Word
      BY Widths DEF ReqBeat
    <2>2. Header(f) \in Beat /\ Payload(f) \in Beat
      BY <2>1, BeatParts
    <2>3. Header(f).type = f.type
      BY <2>1, TypeOfFrame DEF Header
    <2>4. Payload(f).type = "PAYLOAD"
      BY TypeOfFrame DEF Payload
    <2> QED  BY <2>1, <2>2, <2>3, <2>4 DEF FwdTypes, DataTypes
  <1>2. \A f \in Beat : f.type # "BOARD_ID_ASSIGN" => f \in LawfulBeat
    BY DEF LawfulBeat
  <1>3. "BOARD_ID_ASSIGN" \in DataTypes
    BY DEF DataTypes
  <1> QED  BY <1>1, <1>2, <1>3 DEF LawfulData, LawfulBeat, ReqBeat

\* A lawful beat sent leaves the cables lawful.
LEMMA SendLawful ==
    ASSUME Lawful, NEW b \in Board, NEW e \in LawfulBeat,
           fLink' = [fLink EXCEPT ![b] = Append(@, e)]
    PROVE  fLink' \in [Board -> Seq(LawfulBeat)]
  BY AppendProperties DEF Lawful

\* So does one taken, and it was lawful.
LEMMA PopLawful ==
    ASSUME Lawful, NEW b \in Board, fLink[Pred(b)] # <<>>, PopFwd(b)
    PROVE  fLink' \in [Board -> Seq(LawfulBeat)] /\ FwdHead(b) \in LawfulBeat
  BY Neighbours, HeadTailProperties DEF Lawful, PopFwd, FwdHead

\* A relay FIFO after its first beat left.
LEMMA RelayLawful ==
    ASSUME Lawful, NEW b \in Board, relayQ[b] # <<>>, relayQ' = [relayQ EXCEPT ![b] = Tail(@)]
    PROVE  relayQ' \in [Board -> Seq(LawfulData)] /\ Head(relayQ[b]) \in LawfulData
  BY HeadTailProperties DEF Lawful

\* A relay FIFO after a data beat was kept for later.
LEMMA KeepLawful ==
    ASSUME Lawful, NEW b \in Board, NEW e \in LawfulData,
           relayQ' = [relayQ EXCEPT ![b] = Append(@, e)]
    PROVE  relayQ' \in [Board -> Seq(LawfulData)]
  BY AppendProperties DEF Lawful

\* The slots after a request was written.
LEMMA QueueLawful ==
    ASSUME Lawful, NEW b \in Board, NEW f \in ReqBeat, QueueFwd(b, f)
    PROVE  fwd' \in [Board -> ReqBeat]
  BY DEF Lawful, QueueFwd

\* What a step leaves alone stays lawful.
LEMMA LawfulKept ==
    ASSUME Lawful
    PROVE  /\ UNCHANGED fwd => fwd' \in [Board -> ReqBeat]
           /\ UNCHANGED fLink => fLink' \in [Board -> Seq(LawfulBeat)]
           /\ UNCHANGED relayQ => relayQ' \in [Board -> Seq(LawfulData)]
  BY DEF Lawful

-----------------------------------------------------------------------------
(* The steps on the wires.                                                 *)

\* A step that leaves the wires alone and changes no register a phase depends on.
LEMMA StillWires ==
    ASSUME RingInv, UNCHANGED <<fwdSlot, bwdSlot, fLink, bLink, frx, brx, locked, relayQ>>
    PROVE  /\ HopsKept /\ AcksStay /\ (NoAcks => NoAcks') /\ (NoAssign => NoAssign')
           /\ Lawful' /\ (UNCHANGED totalIn => AssignComes')
           /\ (UNCHANGED <<budget, busy>> => Unstreamed' /\ LocksKept /\ BudgetKept)
  <1>1. HopsKept
    BY ForwardKept, HopsSame
  <1>2. AcksStay /\ (NoAcks => NoAcks')
    BY BackwardKept, BacksSame, AcksKept
  <1>3. \A b \in Board : AssignOn(b)' <=> AssignOn(b)
    BY DEF AssignOn
  <1>4. Lawful'
    BY RingTypes DEF Lawful, fwdSlot
  <1>5. UNCHANGED totalIn => AssignComes'
    BY <1>3, AssignComesKept, RingTypes
  <1>6. UNCHANGED <<budget, busy>> => Unstreamed'
    BY UnstreamedKept
  <1>7. UNCHANGED budget => LocksKept /\ BudgetKept
    BY DEF LocksKept, BudgetKept, NoStream
  <1> QED  BY <1>1, <1>2, <1>3, <1>4, <1>5, <1>6, <1>7 DEF NoAssign

\* The enumeration timeout only ends a wait.
LEMMA EnumTimeoutCalm == ASSUME RingInv, EnumTimeout PROVE Calm'
  <1>1. /\ UNCHANGED <<fwdSlot, bwdSlot, fLink, bLink, frx, brx, locked, relayQ>>
        /\ UNCHANGED <<totalIn, budget, busy>> /\ Undisturbed /\ initOk' = FALSE
    BY DEF EnumTimeout, Undisturbed, links, layer2, ids, trigVars, resVars, diagVars, hist
  <1>2. Phases'
    BY <1>1, StillWires, PhaseKept, RingTypes
  <1> QED  BY <1>1, <1>2, StillWires, CountsKept DEF Calm

\* The RESERVE timeout only ends a wait.
LEMMA ReserveTimeoutCalm == ASSUME RingInv, ReserveTimeout PROVE Calm'
  <1>1. /\ UNCHANGED <<fwdSlot, bwdSlot, fLink, bLink, frx, brx, locked, relayQ>>
        /\ UNCHANGED <<totalIn, budget, busy, initOk>> /\ Undisturbed
    BY DEF ReserveTimeout, Undisturbed, links, layer2, ids, trigVars, enumVars, diagVars, hist
  <1>2. Phases'
    BY <1>1, StillWires, PhaseKept, RingTypes
  <1> QED  BY <1>1, <1>2, StillWires, CountsKept DEF Calm

\* The DIAG timeout only ends a wait.
LEMMA DiagTimeoutCalm == ASSUME RingInv, DiagTimeout PROVE Calm'
  <1>1. /\ UNCHANGED <<fwdSlot, bwdSlot, fLink, bLink, frx, brx, locked, relayQ>>
        /\ UNCHANGED <<totalIn, budget, busy, initOk>> /\ Undisturbed
    BY DEF DiagTimeout, Undisturbed, links, layer2, ids, trigVars, enumVars, resVars, hist
  <1>2. Phases'
    BY <1>1, StillWires, PhaseKept, RingTypes
  <1> QED  BY <1>1, <1>2, StillWires, CountsKept DEF Calm

\* The first data frame opens the locks: the budget falls below what it was.
LEMMA StreamSpent ==
    ASSUME RingInv, Spend("stream")
    PROVE  BudgetKept /\ ~NoStream' /\ Unstreamed'
  <1>1. PICK m \in Nat, n \in Nat : m = budget["stream"] /\ n = Budget["stream"] /\ m <= n /\ m > 0
    <2>1. budget \in [HostOps -> Nat] /\ Budget \in [HostOps -> Nat] /\ "stream" \in HostOps
      BY RingTypes, HostAssumption DEF TypeOK, HostOps
    <2> QED  BY <2>1, RingTypes DEF Spend, Unstreamed
  <1>2. budget' = [budget EXCEPT !["stream"] = @ - 1] /\ budget \in [HostOps -> Nat]
    BY RingTypes DEF Spend, TypeOK
  <1>3. budget'["stream"] = m - 1
    BY <1>1, <1>2 DEF HostOps
  <1>4. BudgetKept
    BY <1>2 DEF HostOps, BudgetKept
  <1>5. m - 1 # n /\ m - 1 <= n
    BY <1>1
  <1> QED  BY <1>1, <1>3, <1>4, <1>5 DEF NoStream, Unstreamed

\* A board begins to stream: from here on locks may open.
LEMMA StreamStartCalm == ASSUME RingInv, NEW b \in Board, StreamStart(b) PROVE Calm'
  <1>1. /\ UNCHANGED <<fwdSlot, bwdSlot, fLink, bLink, frx, brx, locked, relayQ>>
        /\ UNCHANGED <<totalIn, initOk>> /\ Undisturbed
    BY DEF StreamStart, Undisturbed, links, ids, masterVars, enumVars, trigVars, resVars,
           diagVars, hist
  <1>2. BudgetKept /\ ~NoStream' /\ Unstreamed'
    BY StreamSpent DEF StreamStart
  <1>3. Phases'
    BY <1>1, <1>2, StillWires, PhaseKept, RingTypes DEF LocksKept
  <1> QED  BY <1>1, <1>2, <1>3, StillWires, CountsKept DEF Calm, LocksKept

\* A board that owes a fire and makes up for it.
LEMMA FireKeeps ==
    ASSUME TypeOK, FiredInOrder, NEW b \in Board, Owes(b), UNCHANGED goLog,
           fires' = [fires EXCEPT ![b] = Append(@, goLog[Len(goLog)])]
    PROVE  FiredInOrder' /\ ~Owes(b)' /\ \A c \in Board : c # b => (Owes(c)' <=> Owes(c))
  <1> DEFINE x == goLog[Len(goLog)]
  <1>1. fires[b] \in Seq(0..15) /\ goLog \in Seq(0..15)
    BY DEF TypeOK, HistTypes
  <1>2. PICK n \in Nat, m \in Nat : n = Len(fires[b]) /\ m = Len(goLog)
    BY <1>1, LenProperties
  <1>3. m = n + 1 /\ \A i \in 1..n : fires[b][i] = goLog[i]
    <2>1. n < m /\ m <= n + 1
      BY <1>2 DEF Owes, FiredInOrder
    <2> QED  BY <1>2, <2>1 DEF FiredInOrder, IsPrefixOf
  <1>4. x \in 0..15
    <2>1. m \in 1..m
      BY <1>3
    <2> QED  BY <1>1, <1>2, <2>1, ElementOfSeq
  <1>5. fires'[b] = Append(fires[b], x) /\ \A c \in Board : c # b => fires'[c] = fires[c]
    BY DEF TypeOK, HistTypes
  <1>6. /\ Len(fires'[b]) = m /\ fires'[b][m] = x
        /\ \A i \in 1..n : fires'[b][i] = goLog[i]
    BY <1>1, <1>2, <1>3, <1>4, <1>5, AppendProperties
  <1>7. IsPrefixOf(fires'[b], goLog')
    <2>1. \A i \in 1..m : i \in 1..n \/ i = m
      BY <1>3
    <2> QED  BY <1>2, <1>6, <2>1 DEF IsPrefixOf
  <1>8. Len(goLog') <= Len(fires'[b]) + 1 /\ ~(Len(fires'[b]) < Len(goLog'))
    BY <1>2, <1>6
  <1> QED  BY <1>5, <1>7, <1>8 DEF FiredInOrder, Owes

\* First beat of a forward frame.
LEMMA FwdTxBeat0Calm == ASSUME RingInv, NEW b \in Board, FwdTxBeat0(b) PROVE Calm'
  <1>1. /\ UNCHANGED <<bwdSlot, bLink, brx, locked, relayQ, totalIn, budget, busy, initOk, fwd>>
        /\ Undisturbed
        /\ fLink' = [fLink EXCEPT ![b] = Append(@, Header(fwd[b]))]
    BY DEF FwdTxBeat0, Undisturbed, layer2, ids, masterVars, enumVars, trigVars, resVars,
           diagVars, hist
  <1>2. fwd[b] \in ReqBeat
    BY RingTypes DEF Lawful
  <1>3. \A t \in DataTypes : \A c \in Board : Holds(fLink'[c], t) <=> Holds(fLink[c], t)
    <2>1. PICK e \in Beat : e = Header(fwd[b]) /\ e.type \notin DataTypes
      BY <1>2, LawfulSets
    <2>2. fLink' = [fLink EXCEPT ![b] = Append(@, e)]
      BY <1>1, <2>1
    <2>3. \A t : \A c \in Board :
            Holds(fLink'[c], t) <=> Holds(fLink[c], t) \/ (c = b /\ e.type = t)
      BY <2>2, SendHolds, RingTypes
    <2> QED  BY <2>1, <2>3
  <1>4. (NoAssign => NoAssign') /\ AssignComes' /\ Unstreamed'
    <2>1. \A c \in Board : AssignOn(c)' <=> AssignOn(c)
      BY <1>1, <1>3 DEF AssignOn, DataTypes
    <2>2. Unstreamed'
      BY <1>1, <1>3, UnstreamedKept DEF DataTypes
    <2> QED  BY <1>1, <2>1, <2>2, AssignComesKept, RingTypes DEF NoAssign
  <1>5. Lawful'
    <2>1. fLink' \in [Board -> Seq(LawfulBeat)]
      BY <1>1, <1>2, LawfulSets, SendLawful, RingTypes
    <2> QED  BY <1>1, <2>1, RingTypes DEF Lawful
  <1>6. LocksKept /\ BudgetKept
    BY <1>1 DEF LocksKept, BudgetKept, NoStream
  <1>7. Phases'
    BY <1>1, <1>4, <1>6, FwdTxBeat0Hops, BackwardKept, BacksSame, AcksKept, PhaseKept, RingTypes
  <1> QED  BY <1>1, <1>4, <1>5, <1>6, <1>7, CountsKept DEF Calm

\* Only the going of a GO leaves the master in debt.
LEMMA MasterOwes ==
    ASSUME Phases, goTx PROVE Going
  BY DEF Phases, Resting, Enumerating, Assigning, Pausing, Gone, Reserving, Diagnosing, NoneOwes

\* Second beat of a forward frame; the master fires behind its own GO.
LEMMA FwdTxBeat1Calm == ASSUME RingInv, NEW b \in Board, FwdTxBeat1(b) PROVE Calm'
  <1>1. /\ UNCHANGED <<bwdSlot, bLink, brx, locked, relayQ, totalIn, budget, busy, initOk, fwd>>
        /\ UNCHANGED <<boardIndex, boardId, total, waiting, goSent, ackMask, ackCount,
                       pendGroup, goLog, resDest, diagDest, up>>
        /\ fLink' = [fLink EXCEPT ![b] = Append(@, Payload(fwd[b]))]
        /\ MasterFires(b)
    BY DEF FwdTxBeat1, layer2, ids, enumVars, resVars, diagVars
  <1>2. fwd[b] \in ReqBeat
    BY RingTypes DEF Lawful
  <1>3. \A t \in DataTypes : \A c \in Board : Holds(fLink'[c], t) <=> Holds(fLink[c], t)
    <2>1. PICK e \in Beat : e = Payload(fwd[b]) /\ e.type \notin DataTypes
      BY <1>2, LawfulSets
    <2>2. fLink' = [fLink EXCEPT ![b] = Append(@, e)]
      BY <1>1, <2>1
    <2>3. \A t : \A c \in Board :
            Holds(fLink'[c], t) <=> Holds(fLink[c], t) \/ (c = b /\ e.type = t)
      BY <2>2, SendHolds, RingTypes
    <2> QED  BY <2>1, <2>3
  <1>4. (NoAssign => NoAssign') /\ AssignComes' /\ Unstreamed'
    <2>1. \A c \in Board : AssignOn(c)' <=> AssignOn(c)
      BY <1>1, <1>3 DEF AssignOn, DataTypes
    <2>2. Unstreamed'
      BY <1>1, <1>3, UnstreamedKept DEF DataTypes
    <2> QED  BY <1>1, <2>1, <2>2, AssignComesKept, RingTypes DEF NoAssign
  <1>5. Lawful'
    <2>1. fLink' \in [Board -> Seq(LawfulBeat)]
      BY <1>1, <1>2, LawfulSets, SendLawful, RingTypes
    <2> QED  BY <1>1, <2>1, RingTypes DEF Lawful
  <1>6. LocksKept /\ BudgetKept
    BY <1>1 DEF LocksKept, BudgetKept, NoStream
  <1>7. HopsKept /\ AcksStay /\ (NoAcks => NoAcks')
    BY <1>1, FwdTxBeat1Hops, BackwardKept, BacksSame, AcksKept, RingTypes
  <1>8. CASE ~(b = Master /\ goTx)
    <2>1. Undisturbed
      BY <1>1, <1>8 DEF MasterFires, Undisturbed
    <2>2. Phases'
      BY <1>4, <1>6, <1>7, <2>1, PhaseKept, RingTypes
    <2> QED  BY <1>1, <1>4, <1>5, <1>6, <2>1, <2>2, CountsKept DEF Calm
  <1>9. CASE b = Master /\ goTx
    <2>1. Going
      BY <1>9, MasterOwes, RingTypes
    <2>2. PICK s \in Board \ {LastBoard} :
            /\ goLog # <<>> /\ Carries(Hop(s), Gos, {goLog[Len(goLog)]}, Gos)
            /\ \A c \in Board \ {s, LastBoard} : Idle(Hop(c))
            /\ Ends(Hop(LastBoard), Pauses)
            /\ goTx => s = Master
            /\ Owes(Master) <=> goTx
            /\ \A c \in Slaves : Owes(c) <=> Dist(c) > Dist(s)
      BY <2>1 DEF Going
    <2>3. /\ fires' = [fires EXCEPT ![Master] = Append(@, goLog[Len(goLog)])] /\ ~goTx'
      BY <1>1, <1>9, RingTypes DEF MasterFires, GosCounted
    <2>4. FiredInOrder' /\ ~Owes(Master)' /\ \A c \in Board : c # Master => (Owes(c)' <=> Owes(c))
      BY <1>1, <1>9, <2>2, <2>3, FireKeeps, RingTypes
    <2>5. Going'
      <3>1. PICK P : P = {goLog[Len(goLog)]}
        OBVIOUS
      <3>2. /\ Carries(Hop(s)', Gos, P, Gos)
            /\ \A c \in Board \ {s, LastBoard} : Idle(Hop(c)')
            /\ Ends(Hop(LastBoard)', Pauses)
        BY <1>7, <2>2, <3>1, Kinds, Ring DEF HopsKept, HopKept
      <3>3. \A c \in Slaves : Owes(c)' <=> Dist(c) > Dist(s)
        BY <2>2, <2>4 DEF Slaves
      <3>4. Acks(AnyPauseAck, Word)'
        BY <1>7, <2>1, Kinds DEF AcksStay, Going, Acks, AnyPauseAck
      <3>5. ~waiting' /\ NoAssign'
        BY <1>1, <1>4, <2>1 DEF Going
      <3> QED  BY <1>1, <2>2, <2>3, <2>4, <3>1, <3>2, <3>3, <3>4, <3>5, Ring
               DEF Going, Gos, Pauses, Broadcasts
    <2>6. Healthy' /\ Numbers'
      BY <1>1, RingTypes DEF Healthy, Numbers, Numbered
    <2>7. GosCounted'
      BY <1>1, <2>3, RingTypes DEF GosCounted
    <2>8. AcksCounted'
      BY <1>1, <2>1 DEF AcksCounted, Going
    <2> QED  BY <1>4, <1>5, <2>4, <2>5, <2>6, <2>7, <2>8 DEF Calm, Phases
  <1> QED  BY <1>8, <1>9

\* Both beats of an ACK.
LEMMA BwdTxCalm ==
    ASSUME RingInv, NEW b \in Board, BwdTxBeat0(b) \/ BwdTxBeat1(b) PROVE Calm'
  <1>1. /\ UNCHANGED <<fwdSlot, fLink, frx, locked, relayQ, totalIn, budget, busy, initOk>>
        /\ Undisturbed
    BY DEF BwdTxBeat0, BwdTxBeat1, Undisturbed, layer2, ids, masterVars, enumVars, trigVars,
           resVars, diagVars, hist
  <1>2. AcksStay /\ (NoAcks => NoAcks')
    BY BwdTxBeat0Backs, BwdTxBeat1Backs, AcksKept, RingTypes
  <1>3. \A c \in Board : AssignOn(c)' <=> AssignOn(c)
    BY <1>1 DEF AssignOn
  <1>4. AssignComes' /\ Unstreamed' /\ Lawful'
    <2>1. AssignComes'
      BY <1>1, <1>3, AssignComesKept, RingTypes
    <2>2. Unstreamed'
      BY <1>1, UnstreamedKept
    <2>3. Lawful'
      BY <1>1, RingTypes DEF Lawful, fwdSlot
    <2> QED  BY <2>1, <2>2, <2>3
  <1>5. LocksKept /\ BudgetKept
    BY <1>1 DEF LocksKept, BudgetKept, NoStream
  <1>6. Phases'
    BY <1>1, <1>2, <1>3, <1>5, ForwardKept, HopsSame, PhaseKept, RingTypes DEF NoAssign
  <1> QED  BY <1>1, <1>4, <1>5, <1>6, CountsKept DEF Calm

\* A relayed data beat leaves.
LEMMA RelayTxCalm == ASSUME RingInv, NEW b \in Board, RelayTx(b) PROVE Calm'
  <1> DEFINE f == Head(relayQ[b])
  <1>1. /\ UNCHANGED <<fwdSlot, bwdSlot, bLink, frx, brx, locked, totalIn, budget, busy, initOk>>
        /\ Undisturbed
        /\ relayQ' = [relayQ EXCEPT ![b] = Tail(@)]
        /\ relayQ[b] # <<>> /\ ~ftxBeat1[b]
        /\ IF f.src < EffMax(b) THEN fLink' = [fLink EXCEPT ![b] = Append(@, f)]
                                ELSE fLink' = fLink
    BY DEF RelayTx, Undisturbed, ids, masterVars, enumVars, trigVars, resVars, diagVars, hist
  <1>2. f \in LawfulData /\ relayQ' \in [Board -> Seq(LawfulData)]
    BY <1>1, RelayLawful, RingTypes
  <1>3. f \in Beat /\ f.type \in DataTypes /\ f \in LawfulBeat
    BY <1>2, LawfulSets
  <1>4. /\ relayQ[b] \in Seq(Beat)
        /\ relayQ'[b] = Tail(relayQ[b]) /\ \A c \in Board : c # b => relayQ'[c] = relayQ[c]
    BY <1>1, HopTypes, RingTypes DEF TypeOK, Layer2Types
  <1>5. \A t : Holds(relayQ[b], t) <=> f.type = t \/ Holds(relayQ'[b], t)
    BY <1>1, <1>4, HoldsTail
  <1>6. \A t : \A c \in Board :
          /\ Holds(fLink'[c], t) => Holds(fLink[c], t) \/ (c = b /\ f.type = t)
          /\ Holds(fLink[c], t) => Holds(fLink'[c], t)
          /\ f.src < EffMax(b) /\ f.type = t => Holds(fLink'[b], t)
    BY <1>1, <1>3, SendHolds, RingTypes
  <1>7. f.type = "BOARD_ID_ASSIGN" => f.src < EffMax(b)
    <2>1. EffMax(b) \in 1..31
      BY HopTypes, RingTypes DEF EffMax
    <2>2. f.type = "BOARD_ID_ASSIGN" => f.src = 0
      BY <1>3 DEF LawfulBeat
    <2> QED  BY <2>1, <2>2
  <1>8. \A c \in Board : AssignOn(c)' <=> AssignOn(c)
    <2>1. ASSUME NEW c \in Board, c # b PROVE AssignOn(c)' <=> AssignOn(c)
      BY <1>4, <1>6, <2>1 DEF AssignOn
    <2>2. AssignOn(b)' <=> AssignOn(b)
      BY <1>5, <1>6, <1>7 DEF AssignOn
    <2> QED  BY <2>1, <2>2
  <1>9. Unstreamed'
    <2>1. NoStream => f.type # "DATA_LAST"
      BY <1>5, RingTypes DEF Unstreamed
    <2>2. \A c \in Board : Holds(relayQ'[c], "DATA_LAST") => Holds(relayQ[c], "DATA_LAST")
      BY <1>4, <1>5
    <2> QED  BY <1>1, <1>6, <2>1, <2>2, UnstreamedKept
  <1>10. Lawful'
    <2>1. fLink' \in [Board -> Seq(LawfulBeat)]
      BY <1>1, <1>3, SendLawful, RingTypes DEF Lawful
    <2> QED  BY <1>1, <1>2, <2>1, RingTypes DEF Lawful, fwdSlot
  <1>11. LocksKept /\ BudgetKept
    BY <1>1 DEF LocksKept, BudgetKept, NoStream
  <1>12. HopsKept
    <2>1. CASE f.src < EffMax(b)
      BY <1>1, <1>3, <2>1, DataHops, RingTypes
    <2>2. CASE ~(f.src < EffMax(b))
      BY <1>1, <2>2, ForwardKept, HopsSame
    <2> QED  BY <2>1, <2>2
  <1>13. Phases'
    BY <1>1, <1>8, <1>11, <1>12, BackwardKept, BacksSame, AcksKept, PhaseKept, RingTypes
       DEF NoAssign
  <1>14. AssignComes'
    BY <1>1, <1>8, AssignComesKept, RingTypes
  <1> QED  BY <1>1, <1>9, <1>10, <1>11, <1>13, <1>14, CountsKept DEF Calm

\* A board sends the last beat of its own data.
LEMMA StreamEndCalm == ASSUME RingInv, NEW b \in Board, StreamEnd(b) PROVE Calm'
  <1>1. /\ UNCHANGED <<fwdSlot, bwdSlot, bLink, frx, brx, locked, relayQ, totalIn, budget, initOk>>
        /\ Undisturbed /\ busy[b] /\ ~ftxBeat1[b]
        /\ busy' = [busy EXCEPT ![b] = FALSE]
    BY DEF StreamEnd, Undisturbed, ids, masterVars, enumVars, trigVars, resVars, diagVars, hist
  <1>2. PICK d \in Board :
          fLink' = [fLink EXCEPT ![b] = Append(@, Frame("DATA_LAST", boardId[b], d, 0))]
    BY DEF StreamEnd
  <1>3. PICK f : f = Frame("DATA_LAST", boardId[b], d, 0)
    OBVIOUS
  <1>4. f \in Beat /\ f.type = "DATA_LAST" /\ f.type \in DataTypes /\ f \in LawfulBeat
    <2>1. boardId[b] \in Id /\ d \in 0..Bcast /\ 0 \in Word
      BY HopTypes, RingTypes, Widths
    <2>2. f \in Beat /\ f.type = "DATA_LAST"
      BY <1>3, <2>1, FrameInBeat, TypeOfFrame DEF DataTypes
    <2> QED  BY <2>2, LawfulSets DEF DataTypes
  <1>5. \A c \in Board : AssignOn(c)' <=> AssignOn(c)
    BY <1>1, <1>2, <1>3, <1>4, SendHolds, RingTypes DEF AssignOn
  <1>6. ~NoStream
    BY <1>1, RingTypes DEF Unstreamed
  <1>7. AssignComes' /\ Unstreamed' /\ Lawful'
    <2>1. AssignComes'
      BY <1>1, <1>5, AssignComesKept, RingTypes
    <2>2. Unstreamed'
      BY <1>1, <1>6, UnstreamedKept
    <2>3. Lawful'
      <3>1. fLink' \in [Board -> Seq(LawfulBeat)]
        BY <1>2, <1>3, <1>4, SendLawful, RingTypes
      <3> QED  BY <1>1, <3>1, RingTypes DEF Lawful, fwdSlot
    <2> QED  BY <2>1, <2>2, <2>3
  <1>8. LocksKept /\ BudgetKept
    BY <1>1 DEF LocksKept, BudgetKept, NoStream
  <1>9. HopsKept
    BY <1>1, <1>2, <1>3, <1>4, DataHops, RingTypes
  <1>10. Phases'
    BY <1>1, <1>5, <1>8, <1>9, BackwardKept, BacksSame, AcksKept, PhaseKept, RingTypes
       DEF NoAssign
  <1> QED  BY <1>1, <1>7, <1>8, <1>10, CountsKept DEF Calm

\* A forward header arrives.
LEMMA RxHeaderCalm == ASSUME RingInv, NEW b \in Board, RxHeader(b) PROVE Calm'
  <1>1. /\ UNCHANGED <<fwdSlot, bwdSlot, bLink, brx, locked, relayQ, totalIn, budget, busy, initOk>>
        /\ Undisturbed /\ PopFwd(b) /\ fLink[Pred(b)] # <<>>
        /\ FwdHead(b).type \notin DataTypes
    BY DEF RxHeader, PopFwd, Undisturbed, layer2, ids, masterVars, enumVars, trigVars, resVars,
           diagVars, hist
  <1>2. \A t \in DataTypes : \A c \in Board : Holds(fLink'[c], t) <=> Holds(fLink[c], t)
    BY <1>1, PopHolds, RingTypes
  <1>3. \A c \in Board : AssignOn(c)' <=> AssignOn(c)
    BY <1>1, <1>2 DEF AssignOn, DataTypes
  <1>4. AssignComes' /\ Unstreamed' /\ Lawful'
    <2>1. AssignComes'
      BY <1>1, <1>3, AssignComesKept, RingTypes
    <2>2. Unstreamed'
      BY <1>1, <1>2, UnstreamedKept DEF DataTypes
    <2>3. Lawful'
      <3>1. fLink' \in [Board -> Seq(LawfulBeat)]
        BY <1>1, PopLawful, RingTypes
      <3> QED  BY <1>1, <3>1, RingTypes DEF Lawful, fwdSlot
    <2> QED  BY <2>1, <2>2, <2>3
  <1>5. LocksKept /\ BudgetKept
    BY <1>1 DEF LocksKept, BudgetKept, NoStream
  <1>6. Phases'
    BY <1>1, <1>3, <1>5, RxHeaderPhase, RingTypes DEF NoAssign
  <1> QED  BY <1>1, <1>4, <1>5, <1>6, CountsKept DEF Calm

\* The last beat of a data frame arrives and may open the lock.
LEMMA RxDataLastCalm == ASSUME RingInv, NEW b \in Board, RxDataLast(b) PROVE Calm'
  <1> DEFINE f == FwdHead(b)
  <1>1. /\ UNCHANGED <<fwdSlot, bwdSlot, bLink, frx, brx, totalIn, budget, busy, initOk>>
        /\ Undisturbed /\ PopFwd(b) /\ fLink[Pred(b)] # <<>> /\ frx[b] = NoFrame
        /\ f.type = "DATA_LAST"
        /\ relayQ' = relayQ \/ relayQ' = [relayQ EXCEPT ![b] = Append(@, f)]
    BY DEF RxDataLast, Relayed, PopFwd, Undisturbed, ids, masterVars, enumVars, trigVars,
           resVars, diagVars, hist
  <1>2. /\ f \in Beat /\ Pred(b) \in Board /\ Holds(fLink[Pred(b)], "DATA_LAST")
        /\ \A t : \A c \in Board : /\ Holds(fLink'[c], t) => Holds(fLink[c], t)
                                   /\ t # "DATA_LAST" /\ Holds(fLink[c], t) => Holds(fLink'[c], t)
    BY <1>1, PopHolds, RingTypes, Ring
  <1>3. ~NoStream
    BY <1>2, RingTypes DEF Unstreamed
  <1>4. \A t : \A c \in Board : t # "DATA_LAST" => (Holds(relayQ'[c], t) <=> Holds(relayQ[c], t))
    BY <1>1, <1>2, QueueHolds, RingTypes
  <1>5. \A c \in Board : AssignOn(c)' <=> AssignOn(c)
    BY <1>2, <1>4 DEF AssignOn
  <1>6. AssignComes' /\ Unstreamed' /\ Lawful'
    <2>1. AssignComes'
      BY <1>1, <1>5, AssignComesKept, RingTypes
    <2>2. Unstreamed'
      BY <1>1, <1>3, UnstreamedKept
    <2>3. Lawful'
      <3>1. fLink' \in [Board -> Seq(LawfulBeat)] /\ f \in LawfulBeat
        BY <1>1, PopLawful, RingTypes
      <3>2. f \in LawfulData
        BY <1>1, <3>1 DEF LawfulData, DataTypes
      <3>3. relayQ' \in [Board -> Seq(LawfulData)]
        BY <1>1, <3>2, KeepLawful, LawfulKept, RingTypes
      <3> QED  BY <1>1, <3>1, <3>3, RingTypes DEF Lawful, fwdSlot
    <2> QED  BY <2>1, <2>2, <2>3
  <1>7. LocksKept /\ BudgetKept
    BY <1>1, <1>3 DEF LocksKept, BudgetKept, NoStream
  <1>8. HopsKept
    BY <1>1, RxDataHops, RingTypes DEF DataTypes
  <1>9. Phases'
    BY <1>1, <1>5, <1>7, <1>8, BackwardKept, BacksSame, AcksKept, PhaseKept, RingTypes
       DEF NoAssign
  <1> QED  BY <1>1, <1>6, <1>7, <1>9, CountsKept DEF Calm

\* A step of the backward channel that leaves the forward one and Layer 2 alone.
LEMMA BackStep ==
    ASSUME RingInv, AcksStay, NoAcks => NoAcks',
           UNCHANGED <<fwdSlot, fLink, frx, locked, relayQ, totalIn, budget, busy, initOk>>,
           Undisturbed
    PROVE  Calm'
  <1>1. \A c \in Board : AssignOn(c)' <=> AssignOn(c)
    BY DEF AssignOn
  <1>2. AssignComes' /\ Unstreamed' /\ Lawful'
    <2>1. AssignComes'
      BY <1>1, AssignComesKept, RingTypes
    <2>2. Unstreamed'
      BY UnstreamedKept
    <2>3. Lawful'
      BY RingTypes DEF Lawful, fwdSlot
    <2> QED  BY <2>1, <2>2, <2>3
  <1>3. LocksKept /\ BudgetKept
    BY DEF LocksKept, BudgetKept, NoStream
  <1>4. Phases'
    BY <1>1, <1>3, ForwardKept, HopsSame, PhaseKept, RingTypes DEF NoAssign
  <1> QED  BY <1>2, <1>3, <1>4, CountsKept DEF Calm

\* An ACK's header arrives.
LEMMA RxBackHeaderCalm == ASSUME RingInv, NEW b \in Board, RxBackHeader(b) PROVE Calm'
  <1>1. /\ UNCHANGED <<fwdSlot, fLink, frx, locked, relayQ, totalIn, budget, busy, initOk>>
        /\ Undisturbed
    BY DEF RxBackHeader, PopBwd, Undisturbed, layer2, ids, masterVars, enumVars, trigVars,
           resVars, diagVars, hist
  <1> QED  BY <1>1, BackStep, RxBackHeaderBacks, AcksKept, RingTypes

\* An ACK that is not the master's goes on.
LEMMA RxBackRelayCalm == ASSUME RingInv, NEW b \in Board, RxBackRelay(b) PROVE Calm'
  <1>1. /\ UNCHANGED <<fwdSlot, fLink, frx, locked, relayQ, totalIn, budget, busy, initOk>>
        /\ Undisturbed
    BY DEF RxBackRelay, RxBackPayload, PopBwd, Undisturbed, layer2, ids, masterVars, enumVars,
           trigVars, resVars, diagVars, hist
  <1>2. PICK x, f : /\ x = Bits(BwdHead(b)) /\ f = [brx[b] EXCEPT !.pl = x]
                    /\ QueueBwd(b, f)
    BY DEF RxBackRelay
  <1>3. RxBackPayload(b)
    BY DEF RxBackRelay
  <1>4. /\ ~BackIdle(Back(Succ(b))) /\ BwdHead(b) \in Beat /\ Succ(b) \in Board
    BY <1>2, <1>3, RxBackPayloadBacks, RingTypes, Ring
  <1>5. x \in Word /\ f.pl = x
    BY <1>2, <1>4, BitsInWord, HopTypes, RingTypes DEF Beat
  <1>6. AcksStay
    <2> SUFFICES ASSUME NEW A, NEW V, AckSet(A), Acks(A, V)
                 PROVE  \A c \in Board : Answers(Back(c)', A, V)
      BY DEF AcksStay
    <2>1. IsPayload(BwdHead(b), V) /\ brx[b] \in A
      BY <1>2, <1>3, <1>4, RxBackPayloadBacks, RingTypes DEF Acks
    <2>2. x \in V
      BY <1>2, <2>1 DEF IsPayload, Bits
    <2>3. f \in A
      BY <1>2, <1>5, <2>1 DEF AckSet
    <2>4. Acks(A, V)'
      BY <1>2, <1>3, <1>5, <2>2, <2>3, RxBackPayloadBacks, RingTypes
    <2> QED  BY <2>4 DEF Acks
  <1> QED  BY <1>1, <1>4, <1>6, BackStep DEF NoAcks

\* An ACK comes in the phase of its request.
LEMMA AckArrives ==
    ASSUME RingInv, NEW b \in Board, RxBackPayload(b), UNCHANGED bwdSlot
    PROVE  /\ AcksStay /\ ~NoAcks /\ BwdHead(b) \in Beat
           /\ brx[b].type = "PAUSE_ACK" => Pausing \/ Going \/ Gone
           /\ brx[b].type = "RESERVE_ACK" =>
                Reserving /\ IsPayload(BwdHead(b), Grants)
           /\ brx[b].type = "DIAG_ACK" =>
                Diagnosing /\ IsPayload(BwdHead(b), Healths) /\ brx[b].src = diagDest
           /\ Pausing => \A n : AckedUpTo(n) =>
                /\ IsPayload(BwdHead(b), IndicesUpTo(n)) /\ Numbered
  <1>1. Succ(b) \in Board
    BY Ring
  <1>2. /\ ~BackIdle(Back(Succ(b))) /\ BwdHead(b) \in Beat /\ BacksKept
        /\ \A A, V : AckSet(A) /\ Acks(A, V) =>
             IsPayload(BwdHead(b), V) /\ brx[b] \in A /\ brx[b].src # Unassigned
    BY <1>1, RxBackPayloadBacks, RingTypes DEF Acks
  <1>3. ~NoAcks
    BY <1>1, <1>2 DEF NoAcks
  <1>4. ~Resting /\ ~Enumerating /\ ~Assigning
    BY <1>3 DEF Resting, Enumerating, Assigning
  <1>5. Pausing => brx[b].type = "PAUSE_ACK"
    <2>1. Pausing => \E n : AckedUpTo(n)
      BY DEF Pausing
    <2>2. \A n : AckedUpTo(n) => brx[b] \in PauseAcks
      BY <1>2, Kinds DEF AckedUpTo
    <2> QED  BY <2>1, <2>2 DEF PauseAcks
  <1>6. Going \/ Gone => brx[b].type = "PAUSE_ACK"
    BY <1>2, Kinds DEF Going, Gone, AnyPauseAck
  <1>7. Reserving => brx[b].type = "RESERVE_ACK" /\ IsPayload(BwdHead(b), Grants)
    BY <1>2, Kinds DEF Reserving, ReserveAcks
  <1>8. Diagnosing => brx[b].type = "DIAG_ACK" /\ IsPayload(BwdHead(b), Healths)
                      /\ brx[b].src = diagDest
    BY <1>2, Kinds DEF Diagnosing, DiagAcks
  <1>9. \A n : AckedUpTo(n) => IsPayload(BwdHead(b), IndicesUpTo(n)) /\ Numbered
    BY <1>2, Kinds DEF AckedUpTo, PauseAcks
  <1> QED  BY <1>2, <1>3, <1>4, <1>5, <1>6, <1>7, <1>8, <1>9, AcksKept, RingTypes DEF Phases

\* The master hears RESERVE_ACK.
LEMMA RxReserveAckCalm == ASSUME RingInv, NEW b \in Board, RxReserveAck(b) PROVE Calm'
  <1>1. /\ UNCHANGED <<fwdSlot, fLink, frx, locked, relayQ, totalIn, budget, busy, initOk>>
        /\ UNCHANGED bwdSlot /\ Undisturbed /\ RxBackPayload(b)
    BY DEF RxReserveAck, RxBackPayload, PopBwd, Undisturbed, layer2, ids, enumVars, trigVars,
           diagVars, hist
  <1> QED  BY <1>1, AckArrives, BackStep

\* The master hears DIAG_ACK.
LEMMA RxDiagAckCalm == ASSUME RingInv, NEW b \in Board, RxDiagAck(b) PROVE Calm'
  <1>1. /\ UNCHANGED <<fwdSlot, fLink, frx, locked, relayQ, totalIn, budget, busy, initOk>>
        /\ UNCHANGED bwdSlot /\ Undisturbed /\ RxBackPayload(b)
    BY DEF RxDiagAck, RxBackPayload, PopBwd, Undisturbed, layer2, ids, enumVars, trigVars,
           resVars, hist
  <1> QED  BY <1>1, AckArrives, BackStep

\* An index of a numbered slave is its distance, and none is beyond the bitmask.
LEMMA SlaveIndices ==
    ASSUME CalmHost, Numbered, NEW n, NEW i \in IndicesUpTo(n)
    PROVE  /\ i \in 1..N-1 /\ i < AckWidth /\ i <= n
           /\ \E c \in Slaves : Dist(c) = i
  <1>1. PICK c \in Slaves : Dist(c) <= n /\ i = boardIndex[c]
    BY DEF IndicesUpTo
  <1>2. Dist(c) \in 1..N-1 /\ i = Dist(c)
    BY <1>1, Ring DEF Numbered, Slaves
  <1>3. i < AckWidth
    BY <1>2, BoardAssumption, WidthAssumption DEF CalmHost
  <1> QED  BY <1>1, <1>2, <1>3

\* The sixteen bits of the ACK mask.
LEMMA Bits16 == IsFiniteSet(0..15) /\ Cardinality(0..15) = 16
  <1>1. PICK a \in Int, c \in Int : a = 0 /\ c = 15
    OBVIOUS
  <1>2. IsFiniteSet(a..c) /\ Cardinality(a..c) = IF a > c THEN 0 ELSE c - a + 1
    BY FS_Interval
  <1> QED  BY <1>1, <1>2

\* The master counts a PAUSE_ACK; a second one of the same board is not counted.
LEMMA RxPauseAckCalm == ASSUME CalmHost, RingInv, NEW b \in Board, RxPauseAck(b) PROVE Calm'
  <1> DEFINE i == Low4(BwdHead(b))
  <1>1. /\ UNCHANGED <<fwdSlot, fLink, frx, locked, relayQ, totalIn, budget, busy, initOk>>
        /\ UNCHANGED <<boardIndex, boardId, totalIn, total, waiting, goSent, goTx, pendGroup,
                       fires, goLog, resDest, diagDest, up, bwdSlot>>
        /\ RxBackPayload(b) /\ brx[b].type = "PAUSE_ACK"
    BY DEF RxPauseAck, RxBackPayload, PopBwd, layer2, ids, enumVars, resVars, diagVars, hist
  <1>2. CASE ~waiting
    <2>1. Undisturbed
      BY <1>1, <1>2 DEF Undisturbed
    <2> QED  BY <1>1, <2>1, AckArrives, BackStep
  <1>3. CASE waiting
    <2>1. Pausing /\ Numbered
      <3>1. Pausing
        BY <1>1, <1>3, AckArrives DEF Going, Gone
      <3> QED  BY <1>1, <3>1, AckArrives DEF Pausing
    <2>2. ASSUME NEW n, AckedUpTo(n)
          PROVE  /\ i \in 1..N-1 /\ i < AckWidth /\ i <= n
                 /\ \E c \in Slaves : Dist(c) = i /\ (NoStream => locked[c])
                 /\ (ackMask' = ackMask \cup {i} /\ i \notin ackMask
                       /\ ackCount' = (ackCount + 1) % 32)
                    \/ (ackMask' = ackMask /\ ackCount' = ackCount)
                 /\ AckedUpTo(n)'
      <3>1. IsPayload(BwdHead(b), IndicesUpTo(n)) /\ AcksStay
        BY <1>1, <2>1, <2>2, AckArrives
      <3>2. PICK j \in IndicesUpTo(n) : j = BwdHead(b).pl /\ i = j % 16
        BY <3>1 DEF IsPayload, Low4, Bits
      <3>3. /\ j \in 1..N-1 /\ j < AckWidth /\ j <= n
            /\ \E c \in Slaves : Dist(c) = j
        BY <2>1, SlaveIndices
      <3>4. i = j
        BY <3>2, <3>3, BoardAssumption
      <3>5. ackMask' = ackMask \cup {i} \/ ackMask' = ackMask
        BY DEF RxPauseAck
      <3>6. \/ ackMask' = ackMask \cup {i} /\ i \notin ackMask /\ ackCount' = (ackCount + 1) % 32
            \/ ackMask' = ackMask /\ ackCount' = ackCount
        BY <3>3, <3>4, WidthAssumption, BoardAssumption DEF RxPauseAck
      <3>7. AckedUpTo(n)'
        <4>1. PICK A, V : /\ A = PauseAcks /\ V = IndicesUpTo(n)
                          /\ A = PauseAcks' /\ V = IndicesUpTo(n)'
          <5>1. PauseAcks = PauseAcks'
            BY <1>1 DEF PauseAcks, Numbered
          <5>2. IndicesUpTo(n) = IndicesUpTo(n)'
            BY <1>1 DEF IndicesUpTo
          <5> QED  BY <5>1, <5>2
        <4>2. \A c \in Board : Answers(Back(c)', A, V)
          BY <2>2, <3>1, <4>1, Kinds DEF AcksStay, AckedUpTo
        <4>3. \A k \in ackMask' : k <= n
          BY <2>2, <3>3, <3>4, <3>5 DEF AckedUpTo
        <4>4. LockedUpTo(n)'
          BY <1>1, <2>2 DEF AckedUpTo, LockedUpTo, NoStream
        <4> QED  BY <4>1, <4>2, <4>3, <4>4 DEF AckedUpTo, Acks
      <3>8. \E c \in Slaves : Dist(c) = i /\ (NoStream => locked[c])
        BY <2>2, <3>3, <3>4 DEF AckedUpTo, LockedUpTo
      <3> QED  BY <3>3, <3>4, <3>6, <3>7, <3>8
    <2>3. HopsKept
      BY <1>1, ForwardKept, HopsSame
    <2>4. \A c \in Board : AssignOn(c)' <=> AssignOn(c)
      BY <1>1 DEF AssignOn
    <2>5. waiting' /\ NoAssign' /\ NoneOwes'
      BY <1>1, <2>1, <2>4 DEF Pausing, NoAssign, NoneOwes, Owes
    <2>6. Pausing'
      <3>1. CASE Empty /\ \E n \in 0..N-1 : AckedUpTo(n)
        <4>1. PICK n \in 0..N-1 : AckedUpTo(n)
          BY <3>1
        <4>2. AckedUpTo(n)'
          BY <2>2, <4>1
        <4>3. Empty'
          BY <2>3, <3>1, FramesKept
        <4> QED  BY <2>5, <4>2, <4>3 DEF Pausing
      <3>2. ASSUME NEW s \in Board, AloneAt(s, Pauses, Word, Pauses), AckedUpTo(Dist(s))
            PROVE  Pausing'
        <4>1. AloneAt(s, Pauses, Word, Pauses)'
          BY <2>3, <3>2, FramesKept, Kinds DEF AloneAt, Pauses, Broadcasts
        <4>2. AckedUpTo(Dist(s))'
          <5>1. PICK n : n = Dist(s)
            OBVIOUS
          <5> QED  BY <2>2, <3>2, <5>1
        <4> QED  BY <2>5, <4>1, <4>2 DEF Pausing
      <3> QED  BY <2>1, <3>1, <3>2 DEF Pausing
    <2>7. AcksCounted'
      <3>1. PICK n : AckedUpTo(n)
        BY <2>1 DEF Pausing
      <3>2. /\ i \in 1..N-1 /\ \E c \in Slaves : Dist(c) = i /\ (NoStream => locked[c])
            /\ (ackMask' = ackMask \cup {i} /\ i \notin ackMask
                  /\ ackCount' = (ackCount + 1) % 32)
               \/ (ackMask' = ackMask /\ ackCount' = ackCount)
        BY <2>2, <3>1
      <3>3. /\ ackMask \subseteq {Dist(c) : c \in Slaves} /\ ackCount = Cardinality(ackMask)
            /\ NoStream => locked[Master] /\ \A c \in Slaves : Dist(c) \in ackMask => locked[c]
        BY <1>3, RingTypes DEF AcksCounted
      <3>4. CASE ackMask' = ackMask /\ ackCount' = ackCount
        BY <1>1, <3>3, <3>4 DEF AcksCounted, NoStream
      <3>5. CASE ackMask' = ackMask \cup {i} /\ i \notin ackMask
                 /\ ackCount' = (ackCount + 1) % 32
        <4>1. ackMask \subseteq 0..15 /\ IsFiniteSet(ackMask)
          <5>1. ackMask \subseteq 0..15
            BY RingTypes DEF TypeOK, TrigTypes
          <5>2. IsFiniteSet(0..15)
            BY Bits16
          <5> QED  BY <5>1, <5>2, FS_Subset
        <4>2. Cardinality(ackMask) \in 0..16 /\ Cardinality(ackMask \cup {i}) = Cardinality(ackMask) + 1
          <5>1. IsFiniteSet(0..15) /\ Cardinality(0..15) = 16
            BY Bits16
          <5>2. Cardinality(ackMask) <= Cardinality(0..15) /\ Cardinality(ackMask) \in Nat
            BY <4>1, <5>1, FS_Subset, FS_CardinalityType
          <5>3. Cardinality(ackMask \cup {i}) = Cardinality(ackMask) + 1
            BY <3>5, <4>1, FS_AddElement
          <5> QED  BY <5>1, <5>2, <5>3
        <4>3. ackCount' = Cardinality(ackMask')
          BY <3>3, <3>5, <4>2
        <4>4. ackMask' \subseteq {Dist(c) : c \in Slaves}
          BY <3>2, <3>3, <3>5
        <4>5. \A c \in Slaves : Dist(c) \in ackMask' => Dist(c) \in ackMask \/ Dist(c) = i
          BY <3>5
        <4>6. \A c \in Slaves : Dist(c) = i => (NoStream => locked[c])
          BY <3>2, Ring DEF Slaves
        <4> QED  BY <1>1, <3>3, <4>3, <4>4, <4>5, <4>6 DEF AcksCounted, NoStream
      <3> QED  BY <3>2, <3>4, <3>5
    <2>8. Healthy' /\ Numbers' /\ FiredInOrder' /\ GosCounted'
      BY <1>1, RingTypes DEF Healthy, Numbers, Numbered, FiredInOrder, GosCounted
    <2>9. AssignComes' /\ Unstreamed' /\ Lawful'
      <3>1. AssignComes'
        BY <1>1, <2>4, AssignComesKept, RingTypes
      <3>2. Unstreamed'
        BY <1>1, UnstreamedKept
      <3>3. Lawful'
        BY <1>1, RingTypes DEF Lawful, fwdSlot
      <3> QED  BY <3>1, <3>2, <3>3
    <2> QED  BY <2>6, <2>7, <2>8, <2>9 DEF Calm, Phases
  <1> QED  BY <1>2, <1>3

-----------------------------------------------------------------------------
(* A request arrives.                                                      *)

\* What board b does with the slot when it has read a payload.
Arrives(b, t) == RxPayload(b, t) /\ (UNCHANGED fwdSlot \/ \E f : QueueFwd(b, f))

\* The one frame on its way has reached board b.
LEMMA AloneArrives ==
    ASSUME TypeOK, NEW b \in Board, NEW t \in FwdTypes, Arrives(b, t),
           NEW H, NEW P, NEW D, NEW s \in Board, AloneAt(s, H, P, D)
    PROVE  /\ s = Pred(b) /\ frx[b] \in D /\ IsPayload(FwdHead(b), P)
           /\ UNCHANGED fwdSlot => \A c \in Board : Idle(Hop(c)')
           /\ \A f, I, Q, E : QueueFwd(b, f) /\ f \in I /\ f.pl \in Q =>
                /\ Carries(Hop(b)', I, Q, E)
                /\ \A c \in Board \ {b} : Idle(Hop(c)')
  <1> DEFINE p == Pred(b)
  <1>1. /\ p \in Board /\ p # b /\ ~Idle(Hop(p))
        /\ \A c \in Board : c # p /\ c # b => Same(Hop(c), Hop(c)')
        /\ Carries(Hop(p), H, P, D) =>
             Idle(Hop(p)') /\ frx[b] \in D /\ IsPayload(FwdHead(b), P)
        /\ UNCHANGED fwdSlot => Same(Hop(b), Hop(b)')
    BY RxPayloadHops DEF Arrives
  <1>2. \A f, I, Q, E : QueueFwd(b, f) /\ f \in I /\ f.pl \in Q =>
          (Idle(Hop(b)) => Carries(Hop(b)', I, Q, E))
    BY RxPayloadHops DEF Arrives
  <1>3. s = p
    BY <1>1 DEF AloneAt
  <1>4. Idle(Hop(p)') /\ frx[b] \in D /\ IsPayload(FwdHead(b), P)
    BY <1>1, <1>3 DEF AloneAt
  <1>5. Idle(Hop(b)) /\ \A c \in Board : c # p /\ c # b => Idle(Hop(c)')
    <2>1. \A c \in Board : c # p => Idle(Hop(c))
      BY <1>3 DEF AloneAt
    <2> QED  BY <1>1, <2>1, SameHop DEF HopKept
  <1>6. UNCHANGED fwdSlot => Idle(Hop(b)')
    BY <1>1, <1>5, SameHop DEF HopKept
  <1> QED  BY <1>2, <1>3, <1>4, <1>5, <1>6

\* It comes in the phase of its kind.
LEMMA Arrival ==
    ASSUME RingInv, NEW b \in Board, NEW t \in FwdTypes, Arrives(b, t)
    PROVE  /\ ~Resting /\ ~Assigning
           /\ Enumerating => t = "ENUM_COUNT"
           /\ Pausing => t = "PAUSE_REQ"
           /\ Going => t = "GO" \/ (t = "PAUSE_REQ" /\ b = Master)
           /\ Gone => (t = "GO" \/ t = "PAUSE_REQ") /\ b = Master
           /\ Reserving => t = "RESERVE_REQ"
           /\ Diagnosing => t = "DIAG_REQ"
           /\ frx[b] \in Beat /\ frx[b].type = t /\ frx[b] # NoFrame
  <1> DEFINE p == Pred(b)
  <1>1. /\ p \in Board /\ ~Idle(Hop(p)) /\ frx[b].type = t
        /\ \A H, P, D : Carries(Hop(p), H, P, D) => frx[b] \in D
        /\ \A H : Ends(Hop(p), H) => frx[b] \in H
    BY RxPayloadHops, RingTypes DEF Arrives
  <1>2. frx[b] # NoFrame
    BY <1>1 DEF NoFrame, Frame, FwdTypes
  <1>3. ~Empty
    BY <1>1 DEF Empty
  <1>4. \A s \in Board : \A H, P, D : AloneAt(s, H, P, D) => frx[b] \in D
    BY <1>1 DEF AloneAt
  <1>5. Enumerating => t = "ENUM_COUNT"
    BY <1>1, <1>4 DEF Enumerating, Counts
  <1>6. Pausing => t = "PAUSE_REQ"
    BY <1>1, <1>3, <1>4 DEF Pausing, Pauses, Broadcasts
  <1>7. p = LastBoard => b = Master
    BY Ring DEF LastBoard
  <1>8. Going => t = "GO" \/ (t = "PAUSE_REQ" /\ b = Master)
    <2> SUFFICES ASSUME Going PROVE t = "GO" \/ (t = "PAUSE_REQ" /\ b = Master)
      OBVIOUS
    <2>1. PICK s \in Board \ {LastBoard} :
            /\ Carries(Hop(s), Gos, {goLog[Len(goLog)]}, Gos)
            /\ \A c \in Board \ {s, LastBoard} : Idle(Hop(c))
            /\ Ends(Hop(LastBoard), Pauses)
      BY DEF Going
    <2>2. CASE p = s
      BY <1>1, <2>1, <2>2 DEF Gos, Broadcasts
    <2>3. CASE p = LastBoard
      BY <1>1, <1>7, <2>1, <2>3 DEF Pauses, Broadcasts
    <2> QED  BY <1>1, <2>1, <2>2, <2>3
  <1>9. Gone => (t = "GO" \/ t = "PAUSE_REQ") /\ b = Master
    <2> SUFFICES ASSUME Gone PROVE (t = "GO" \/ t = "PAUSE_REQ") /\ b = Master
      OBVIOUS
    <2>1. p = LastBoard
      BY <1>1 DEF Gone
    <2>2. frx[b] \in Pauses \cup Gos
      BY <1>1, <2>1 DEF Gone
    <2> QED  BY <1>1, <1>7, <2>1, <2>2 DEF Pauses, Gos, Broadcasts
  <1>10. Reserving => t = "RESERVE_REQ"
    <2> SUFFICES ASSUME Reserving PROVE t = "RESERVE_REQ"
      OBVIOUS
    <2>1. frx[b] \in Passed(Requests("RESERVE_REQ", resDest))
      BY <1>3, <1>4 DEF Reserving
    <2> QED  BY <1>1, <1>2, <2>1 DEF Passed, Requests
  <1>11. Diagnosing => t = "DIAG_REQ"
    <2> SUFFICES ASSUME Diagnosing PROVE t = "DIAG_REQ"
      OBVIOUS
    <2>1. frx[b] \in Passed(Requests("DIAG_REQ", diagDest))
      BY <1>3, <1>4 DEF Diagnosing
    <2> QED  BY <1>1, <1>2, <2>1 DEF Passed, Requests
  <1>12. ~Resting /\ ~Assigning
    BY <1>3 DEF Resting, Assigning
  <1> QED  BY <1>1, <1>2, <1>5, <1>6, <1>8, <1>9, <1>10, <1>11, <1>12, HopTypes, RingTypes

\* What the arrival of a request leaves alone in every phase.
LEMMA ArrivalKeeps ==
    ASSUME RingInv, NEW b \in Board, NEW t \in FwdTypes, Arrives(b, t),
           UNCHANGED <<relayQ, totalIn>>,
           UNCHANGED fwdSlot \/ \E x \in Word : QueueFwd(b, [frx[b] EXCEPT !.pl = x])
    PROVE  /\ NoAssign' /\ AssignComes' /\ Lawful'
           /\ UNCHANGED <<budget, busy>> => Unstreamed'
           /\ \A c \in Board : Holds(fLink'[c], "DATA_LAST") => Holds(fLink[c], "DATA_LAST")
           /\ UNCHANGED <<bwdSlot, brx>> => AcksStay /\ (NoAcks => NoAcks')
  <1>1. PopFwd(b) /\ fLink[Pred(b)] # <<>>
    BY DEF Arrives, RxPayload
  <1>2. \A k : \A c \in Board : Holds(fLink'[c], k) => Holds(fLink[c], k)
    BY <1>1, PopHolds, RingTypes
  <1>3. NoAssign
    <2>1. ~Assigning
      BY Arrival
    <2> QED  BY <2>1, RingTypes DEF Phases, Resting, Enumerating, Pausing, Going, Gone, Reserving,
                                    Diagnosing
  <1>4. NoAssign' /\ AssignComes'
    BY <1>2, <1>3, AllAssigned, RingTypes DEF NoAssign, AssignOn
  <1>5. UNCHANGED <<budget, busy>> => Unstreamed'
    BY <1>2, UnstreamedKept
  <1>6. Lawful'
    <2>1. fLink' \in [Board -> Seq(LawfulBeat)]
      BY <1>1, PopLawful, RingTypes
    <2>2. \A x \in Word : [frx[b] EXCEPT !.pl = x] \in ReqBeat
      <3>1. frx[b] \in Beat /\ frx[b].type = t
        BY Arrival
      <3> QED  BY <3>1, TypeOfFrame, BeatParts DEF ReqBeat
    <2>3. fwd' \in [Board -> ReqBeat]
      BY <2>2, QueueLawful, LawfulKept, RingTypes DEF fwdSlot
    <2> QED  BY <2>1, <2>3, LawfulKept, RingTypes DEF Lawful
  <1>7. UNCHANGED <<bwdSlot, brx>> => AcksStay /\ (NoAcks => NoAcks')
    <2>1. UNCHANGED bLink
      BY <1>1 DEF PopFwd
    <2> QED  BY <2>1, BackwardKept, BacksSame, AcksKept
  <1> QED  BY <1>2, <1>4, <1>5, <1>6, <1>7

\* Ids and distances are numbers; only the master has the id 0.
LEMMA Ids ==
    ASSUME RingInv, NEW b \in Board
    PROVE  /\ boardId[b] = 0 <=> b = Master
           /\ b # Master => /\ Pred(b) # LastBoard /\ Dist(b) = Dist(Pred(b)) + 1
                            /\ Dist(b) \in 1..N-1
           /\ b = Master => Pred(b) = LastBoard /\ Dist(b) = 0
           /\ Dist(Pred(b)) \in 0..N-1 /\ Pred(b) \in Board
           /\ boardId[b] # Unassigned => boardId[b] = Dist(b)
  <1>1. /\ Pred(b) \in Board /\ Dist(Pred(b)) \in 0..N-1 /\ Dist(b) \in 0..N-1
        /\ b # Master => Dist(b) = Dist(Pred(b)) + 1
        /\ Dist(b) = 0 => b = Master
        /\ b = Master => Dist(b) = 0
    BY Ring
  <1>2. Pred(b) = LastBoard <=> b = Master
    BY Ring DEF LastBoard
  <1>3. b # Master => Dist(b) \in 1..N-1
    BY <1>1
  <1>4. b # Master => boardId[b] \in {Unassigned, Dist(b)}
    BY RingTypes DEF Numbers, Slaves
  <1>5. Unassigned # 0
    BY DEF Unassigned, Bcast
  <1> QED  BY <1>1, <1>2, <1>3, <1>4, <1>5, RingTypes

\* The counter of an enumeration frame on the hop to board b is the distance there.
LEMMA CountArrives ==
    ASSUME RingInv, NEW b \in Board, RxEnum(b)
    PROVE  LET s == Pred(b) IN
           /\ Enumerating /\ AloneAt(s, Counts, {Dist(s)}, Counts)
           /\ \A c \in Slaves : Dist(c) <= Dist(s) => boardIndex[c] = Dist(c)
           /\ frx[b] \in Counts /\ Counted(FwdHead(b)) = Dist(s) + 1 /\ Dist(s) \in 0..N-1
           /\ Arrives(b, "ENUM_COUNT")
  <1>1. Arrives(b, "ENUM_COUNT") /\ "ENUM_COUNT" \in FwdTypes
    <2>1. UNCHANGED fwdSlot \/ \E f : QueueFwd(b, f)
      BY DEF RxEnum
    <2> QED  BY <2>1 DEF RxEnum, Arrives, FwdTypes
  <1>2. Enumerating
    BY <1>1, Arrival, RingTypes DEF Phases
  <1>3. PICK s \in Board : /\ AloneAt(s, Counts, {Dist(s)}, Counts)
                           /\ \A c \in Slaves : Dist(c) <= Dist(s) => boardIndex[c] = Dist(c)
    BY <1>2 DEF Enumerating
  <1>4. s = Pred(b) /\ frx[b] \in Counts /\ IsPayload(FwdHead(b), {Dist(s)})
    BY <1>1, <1>3, AloneArrives, RingTypes
  <1>5. Dist(s) \in 0..15 /\ Dist(s) \in 0..N-1
    BY <1>4, Ids, BoardAssumption
  <1>6. Counted(FwdHead(b)) = Dist(s) + 1
    <2>1. Bits(FwdHead(b)) = Dist(s)
      BY <1>4 DEF IsPayload, Bits
    <2> QED  BY <1>5, <2>1 DEF Counted, Low4
  <1> QED  BY <1>1, <1>2, <1>3, <1>4, <1>5, <1>6

\* ENUM_COUNT reaches the next board, or comes home.
LEMMA RxEnumCalm == ASSUME RingInv, NEW b \in Board, RxEnum(b) PROVE Calm'
  <1> DEFINE s == Pred(b)
             n == Dist(b)
  <1>1. /\ UNCHANGED <<bwdSlot, brx, locked, relayQ, busy, totalIn, budget, boardId, up, fires, goLog,
                       goTx, waiting, goSent, pendGroup, ackMask, ackCount, resDest, diagDest>>
    BY DEF RxEnum, RxPayload, PopFwd, layer2, trigVars, resVars, diagVars, hist
  <1>2. /\ Enumerating /\ AloneAt(s, Counts, {Dist(s)}, Counts)
        /\ \A c \in Slaves : Dist(c) <= Dist(s) => boardIndex[c] = Dist(c)
        /\ frx[b] \in Counts /\ Counted(FwdHead(b)) = Dist(s) + 1 /\ Dist(s) \in 0..N-1
        /\ Arrives(b, "ENUM_COUNT") /\ "ENUM_COUNT" \in FwdTypes
    BY CountArrives DEF FwdTypes
  <1>3. frx[b].dest = 0 /\ s \in Board
    BY <1>2, Ids DEF Counts
  <1>4. frx[b].dest = boardId[b] <=> b = Master
    BY <1>3, Ids
  <1>5. /\ b = Master => /\ total' = Dist(s) + 1 /\ initOk' = TRUE
                         /\ UNCHANGED <<boardIndex, fwdSlot>>
        /\ b # Master => /\ boardIndex' = [boardIndex EXCEPT ![b] = Dist(s) + 1]
                         /\ QueueFwd(b, [frx[b] EXCEPT !.pl = (Dist(s) + 1) % 16])
                         /\ UNCHANGED <<total, initOk>>
    BY <1>2, <1>4 DEF RxEnum, enumVars
  <1>6. (Dist(s) + 1) % 16 \in Word
    BY <1>2 DEF Word
  <1>7. /\ NoAssign' /\ AssignComes' /\ Lawful' /\ Unstreamed' /\ NoAcks'
    <2>1. UNCHANGED fwdSlot \/ \E x \in Word : QueueFwd(b, [frx[b] EXCEPT !.pl = x])
      BY <1>5, <1>6
    <2> QED  BY <1>1, <1>2, <2>1, ArrivalKeeps DEF Enumerating
  <1>8. NoneOwes' /\ Healthy' /\ FiredInOrder' /\ GosCounted' /\ AcksCounted'
    <2>1. NoneOwes'
      BY <1>1, <1>2 DEF Enumerating, NoneOwes, Owes
    <2>2. Healthy' /\ FiredInOrder'
      BY <1>1, RingTypes DEF Healthy, FiredInOrder
    <2>3. GosCounted'
      BY <1>1, RingTypes DEF GosCounted
    <2>4. AcksCounted'
      BY <1>1, RingTypes DEF AcksCounted, NoStream
    <2> QED  BY <2>1, <2>2, <2>3, <2>4
  <1>9. CASE b = Master
    <2>1. Dist(s) = N - 1 /\ total' = N
      <3>1. Dist(s) = N - 1
        BY <1>9, Ids, Ring
      <3> QED  BY <1>5, <1>9, <3>1, BoardAssumption
    <2>2. Numbered
      <3>1. \A c \in Slaves : Dist(c) <= N - 1
        BY Ring DEF Slaves
      <3> QED  BY <1>2, <2>1, <3>1 DEF Numbered
    <2>3. Numbers'
      BY <1>1, <1>5, <1>9, <2>1, <2>2, RingTypes DEF Numbers, Numbered
    <2>4. Empty'
      BY <1>2, <1>3, <1>5, <1>9, AloneArrives, RingTypes DEF Empty
    <2>5. Resting'
      BY <1>7, <1>8, <2>4 DEF Resting
    <2> QED  BY <1>7, <1>8, <2>3, <2>5 DEF Calm, Phases
  <1>10. CASE b # Master
    <2>1. n = Dist(s) + 1 /\ n \in 1..N-1 /\ (Dist(s) + 1) % 16 = n
      <3>1. n = Dist(s) + 1 /\ n \in 1..N-1
        BY <1>10, Ids
      <3> QED  BY <3>1, BoardAssumption
    <2>2. /\ boardIndex'[b] = n /\ \A c \in Board : c # b => boardIndex'[c] = boardIndex[c]
      BY <1>5, <1>10, <2>1, RingTypes DEF TypeOK, IdTypes
    <2>3. Numbered => Numbered'
      BY <2>2 DEF Numbered, Slaves
    <2>4. Numbers'
      <3>1. \A c \in Slaves : boardIndex'[c] \in {0, Dist(c)}
        BY <2>2, RingTypes DEF Numbers, Slaves
      <3> QED  BY <1>1, <1>5, <1>10, <2>3, <3>1, RingTypes DEF Numbers
    <2>5. AloneAt(b, Counts, {n}, Counts)'
      <3>1. PICK f : f = [frx[b] EXCEPT !.pl = n]
        OBVIOUS
      <3>2. QueueFwd(b, f)
        BY <1>5, <1>10, <2>1, <3>1
      <3>3. f \in Counts /\ f.pl \in {n}
        <4>1. n \in Word
          BY <1>6, <2>1
        <4>2. frx[b] \in Beat
          BY <1>2 DEF Counts
        <4>3. f \in Counts
          BY <1>2, <3>1, <4>1, Kinds DEF ReqSet
        <4> QED  BY <3>1, <4>2, <4>3 DEF Beat
      <3>4. Carries(Hop(b)', Counts, {n}, Counts) /\ \A c \in Board \ {b} : Idle(Hop(c)')
        BY <1>2, <1>3, <3>2, <3>3, AloneArrives, RingTypes
      <3> QED  BY <3>4 DEF AloneAt, Counts
    <2>6. \A c \in Slaves : Dist(c) <= Dist(b) => boardIndex'[c] = Dist(c)
      <3>1. ASSUME NEW c \in Slaves, Dist(c) <= Dist(b), c # b PROVE boardIndex'[c] = Dist(c)
        <4>1. Dist(c) # Dist(b) /\ Dist(c) \in 0..N-1
          BY <3>1, Ring DEF Slaves
        <4>2. Dist(c) <= Dist(s)
          BY <1>2, <2>1, <3>1, <4>1
        <4> QED  BY <1>2, <2>2, <3>1, <4>2 DEF Slaves
      <3> QED  BY <2>2, <3>1
    <2>7. ~Ready'
      BY <1>1, <1>2, <1>5, <1>10 DEF Enumerating, Ready, TotalEff
    <2>8. Enumerating'
      BY <1>7, <1>8, <2>5, <2>6, <2>7 DEF Enumerating
    <2> QED  BY <1>7, <1>8, <2>4, <2>8 DEF Calm, Phases
  <1> QED  BY <1>9, <1>10

\* A DIAG_REQ arrives while the master waits for a diagnosis, and is the only frame there.
LEMMA DiagArrives ==
    ASSUME RingInv, NEW b \in Board, RxDiagReq(b)
    PROVE  LET H == Requests("DIAG_REQ", diagDest) IN
           /\ Arrives(b, "DIAG_REQ") /\ "DIAG_REQ" \in FwdTypes
           /\ Diagnosing /\ AloneAt(Pred(b), H, Word, Passed(H)) /\ Pred(b) \in Board
           /\ frx[b] \in H /\ frx[b].dest # Unassigned
  <1>1. Arrives(b, "DIAG_REQ") /\ "DIAG_REQ" \in FwdTypes
    <2>1. UNCHANGED fwdSlot \/ \E f : QueueFwd(b, f)
      BY DEF RxDiagReq
    <2> QED  BY <2>1 DEF RxDiagReq, Arrives, FwdTypes
  <1>2. Diagnosing /\ frx[b] # NoFrame
    BY <1>1, Arrival, RingTypes DEF Phases
  <1>3. PICK H, D : H = Requests("DIAG_REQ", diagDest) /\ D = Passed(H)
    OBVIOUS
  <1>4. ~Empty
    BY <1>1, RxPayloadHops, RingTypes DEF Arrives, Empty
  <1>5. PICK s \in Board : AloneAt(s, H, Word, D)
    BY <1>2, <1>3, <1>4 DEF Diagnosing
  <1>6. s = Pred(b) /\ frx[b] \in D
    BY <1>1, <1>5, AloneArrives, RingTypes
  <1> QED  BY <1>1, <1>2, <1>3, <1>5, <1>6 DEF Passed

\* DIAG_REQ is answered, passed on, or ends at the master.
LEMMA RxDiagReqCalm == ASSUME RingInv, NEW b \in Board, RxDiagReq(b) PROVE Calm'
  <1>1. /\ UNCHANGED <<brx, locked, relayQ, busy, totalIn, budget, initOk>>
        /\ UNCHANGED diagDest /\ Undisturbed
    BY DEF RxDiagReq, RxPayload, PopFwd, layer2, ids, enumVars, trigVars, resVars, diagVars,
           hist, Undisturbed
  <1>2. PICK H, D : H = Requests("DIAG_REQ", diagDest) /\ D = Passed(H) /\ ReqSet(H)
    BY Kinds DEF FwdTypes
  <1>3. /\ Arrives(b, "DIAG_REQ") /\ "DIAG_REQ" \in FwdTypes
        /\ Diagnosing /\ AloneAt(Pred(b), H, Word, D) /\ Pred(b) \in Board
        /\ frx[b] \in H /\ frx[b].dest # Unassigned /\ frx[b].dest = diagDest
    BY <1>2, DiagArrives DEF Requests
  <1>4. up[b] /\ up[Pred(b)]
    BY <1>3, RingTypes DEF Healthy
  <1>5. UNCHANGED bwdSlot \/ (QueueBwd(b, DiagAck(b, TRUE)) /\ frx[b].dest = boardId[b])
    BY <1>4 DEF RxDiagReq
  <1>6. UNCHANGED fwdSlot \/ QueueFwd(b, [frx[b] EXCEPT !.pl = 0])
    BY <1>4 DEF RxDiagReq
  <1>7. /\ NoAssign' /\ AssignComes' /\ Lawful' /\ Unstreamed'
        /\ UNCHANGED bwdSlot => AcksStay
    <2>1. UNCHANGED fwdSlot \/ \E x \in Word : QueueFwd(b, [frx[b] EXCEPT !.pl = x])
      BY <1>6, Widths
    <2> QED  BY <1>1, <1>3, <2>1, ArrivalKeeps
  <1>8. LocksKept /\ BudgetKept
    BY <1>1 DEF LocksKept, BudgetKept, NoStream
  <1>9. NoneOwes' /\ ~Ready'
    BY <1>1, <1>3, <1>8, RegistersKept DEF Diagnosing
  <1>10. Acks(DiagAcks, Healths)'
    <2>1. PICK A : A = DiagAcks /\ A = DiagAcks' /\ AckSet(A) /\ Acks(A, Healths)
      BY <1>1, <1>3, <1>8, RegistersKept, Kinds DEF Diagnosing
    <2>2. CASE UNCHANGED bwdSlot
      <3>1. \A c \in Board : Answers(Back(c)', A, Healths)
        BY <1>7, <2>1, <2>2 DEF AcksStay
      <3> QED  BY <2>1, <3>1 DEF Acks, Healths
    <2>3. CASE QueueBwd(b, DiagAck(b, TRUE)) /\ frx[b].dest = boardId[b]
      <3>1. PICK f : f = DiagAck(b, TRUE)
        OBVIOUS
      <3>2. UNCHANGED <<bLink, brx>>
        BY <1>1, <1>3 DEF Arrives, RxPayload, PopFwd
      <3>3. boardIndex[b] \in 0..16 /\ f.pl = 7 + 16 * boardIndex[b]
        BY <1>4, <3>1, HopTypes, RingTypes DEF DiagAck, Frame, Bit
      <3>4. f.pl \in Healths
        BY <3>3 DEF Healths, Word
      <3>5. f \in A
        <4>1. boardId[b] \in Id /\ frx[b].src \in 0..Bcast
          BY <1>3, HopTypes, RingTypes, Widths DEF Requests, Beat
        <4>2. PICK x : x = f.pl /\ x \in Word
          BY <3>4 DEF Healths
        <4>3. f = Frame("DIAG_ACK", boardId[b], frx[b].src, x)
          BY <3>1, <4>2 DEF DiagAck, Frame
        <4>4. f \in Beat /\ f.type = "DIAG_ACK" /\ f.src = boardId[b]
          <5>1. "DIAG_ACK" \in FwdTypes \cup BwdTypes \cup DataTypes \cup {"PAYLOAD", "NONE"}
            BY DEF BwdTypes
          <5>2. f \in Beat
            BY <4>1, <4>2, <4>3, <5>1, FrameInBeat
          <5> QED  BY <4>3, <5>2, TypeOfFrame
        <4> QED  BY <1>3, <2>1, <2>3, <4>4 DEF DiagAcks
      <3>6. Acks(A, Healths)'
        BY <2>1, <2>3, <3>1, <3>2, <3>4, <3>5, QueueBacks, RingTypes
      <3> QED  BY <2>1, <3>6 DEF Acks, Healths
    <2> QED  BY <1>5, <2>2, <2>3
  <1>11. Diagnosing'
    <2>1. CASE UNCHANGED fwdSlot
      <3>1. Empty'
        BY <1>3, <2>1, AloneArrives, RingTypes DEF Empty
      <3> QED  BY <1>7, <1>9, <1>10, <3>1 DEF Diagnosing
    <2>2. CASE QueueFwd(b, [frx[b] EXCEPT !.pl = 0])
      <3>1. PICK f : f = [frx[b] EXCEPT !.pl = 0]
        OBVIOUS
      <3>2. f \in H /\ f.pl \in Word
        BY <1>2, <1>3, <3>1, Widths DEF ReqSet, Beat
      <3>3. Carries(Hop(b)', H, Word, D) /\ \A c \in Board \ {b} : Idle(Hop(c)')
        BY <1>3, <2>2, <3>1, <3>2, AloneArrives, RingTypes
      <3>4. H = Requests("DIAG_REQ", diagDest') /\ D = Passed(H)
        BY <1>1, <1>2
      <3>5. AloneAt(b, H, Word, D)'
        BY <3>3 DEF AloneAt
      <3> QED  BY <1>7, <1>9, <1>10, <3>4, <3>5 DEF Diagnosing
    <2> QED  BY <1>6, <2>1, <2>2
  <1> QED  BY <1>1, <1>7, <1>8, <1>11, CountsKept DEF Calm, Phases

\* So does a RESERVE_REQ, which has locked the boards it has passed.
LEMMA ReserveArrives ==
    ASSUME RingInv, NEW b \in Board, RxReserveReq(b)
    PROVE  LET H == Requests("RESERVE_REQ", resDest) IN
           /\ Arrives(b, "RESERVE_REQ") /\ "RESERVE_REQ" \in FwdTypes
           /\ Reserving /\ AloneAt(Pred(b), H, Word, Passed(H)) /\ Pred(b) \in Board
           /\ LockedUpTo(Dist(Pred(b)))
           /\ frx[b] \in H /\ frx[b].dest # Unassigned
  <1>1. Arrives(b, "RESERVE_REQ") /\ "RESERVE_REQ" \in FwdTypes
    <2>1. UNCHANGED fwdSlot \/ \E f : QueueFwd(b, f)
      BY DEF RxReserveReq
    <2> QED  BY <2>1 DEF RxReserveReq, Arrives, FwdTypes
  <1>2. Reserving /\ frx[b] # NoFrame
    BY <1>1, Arrival, RingTypes DEF Phases
  <1>3. PICK H, D : H = Requests("RESERVE_REQ", resDest) /\ D = Passed(H)
    OBVIOUS
  <1>4. ~Empty
    BY <1>1, RxPayloadHops, RingTypes DEF Arrives, Empty
  <1>5. PICK s \in Board : AloneAt(s, H, Word, D) /\ LockedUpTo(Dist(s))
    BY <1>2, <1>3, <1>4 DEF Reserving
  <1>6. s = Pred(b) /\ frx[b] \in D
    BY <1>1, <1>5, AloneArrives, RingTypes
  <1> QED  BY <1>1, <1>2, <1>3, <1>5, <1>6 DEF Passed

\* Locking the next board on the way.
LEMMA LockNext ==
    ASSUME RingInv, NEW b \in Board, LockedUpTo(Dist(Pred(b))), LocksKept,
           NoStream' => locked'[b]
    PROVE  LockedUpTo(Dist(b))'
  <1>1. CASE b = Master
    <2>1. \A c \in Slaves : ~(Dist(c) <= Dist(b))
      BY <1>1, Ring DEF Slaves
    <2> QED  BY <2>1 DEF LockedUpTo
  <1>2. CASE b # Master
    <2>1. Dist(b) = Dist(Pred(b)) + 1 /\ Dist(Pred(b)) \in 0..N-1
      BY <1>2, Ids
    <2>2. ASSUME NEW c \in Slaves, Dist(c) <= Dist(b), c # b PROVE Dist(c) <= Dist(Pred(b))
      <3>1. Dist(c) # Dist(b) /\ Dist(c) \in 0..N-1
        BY <2>2, Ring DEF Slaves
      <3> QED  BY <2>1, <2>2, <3>1
    <2> QED  BY <2>2 DEF LockedUpTo, LocksKept, Slaves
  <1> QED  BY <1>1, <1>2

\* RESERVE_REQ locks the board and is answered or passed on.
LEMMA RxReserveReqCalm == ASSUME RingInv, NEW b \in Board, RxReserveReq(b) PROVE Calm'
  <1>1. /\ UNCHANGED <<brx, relayQ, totalIn, initOk, resDest>> /\ Undisturbed
        /\ UNCHANGED bwdSlot \/ (\E x \in {0, 1} : QueueBwd(b, Frame("RESERVE_ACK", boardId[b], frx[b].src, x))
                                    /\ (x = 1 => ~busy[b] /\ frx[b].dest = boardId[b] /\ LockAfterCheck(b)))
        /\ UNCHANGED fwdSlot \/ (QueueFwd(b, [frx[b] EXCEPT !.pl = 0]) /\ LockAfterCheck(b))
        /\ UNCHANGED <<layer2, budget>> \/ LockAfterCheck(b)
    <2>1. /\ UNCHANGED <<brx, relayQ, totalIn, initOk, resDest>> /\ Undisturbed
      BY DEF RxReserveReq, RxPayload, PopFwd, layer2, ids, masterVars, enumVars, trigVars,
             resVars, diagVars, hist, Undisturbed, LockAfterCheck
    <2>2. UNCHANGED bwdSlot \/ (\E x \in {0, 1} : QueueBwd(b, Frame("RESERVE_ACK", boardId[b], frx[b].src, x))
                                    /\ (x = 1 => ~busy[b] /\ frx[b].dest = boardId[b] /\ LockAfterCheck(b)))
      BY DEF RxReserveReq
    <2>3. UNCHANGED fwdSlot \/ (QueueFwd(b, [frx[b] EXCEPT !.pl = 0]) /\ LockAfterCheck(b))
      BY DEF RxReserveReq
    <2>4. UNCHANGED <<layer2, budget>> \/ LockAfterCheck(b)
      BY DEF RxReserveReq
    <2> QED  BY <2>1, <2>2, <2>3, <2>4
  <1>2. PICK H, D : H = Requests("RESERVE_REQ", resDest) /\ D = Passed(H) /\ ReqSet(H)
    BY Kinds DEF FwdTypes
  <1>3. /\ Arrives(b, "RESERVE_REQ") /\ "RESERVE_REQ" \in FwdTypes
        /\ Reserving /\ AloneAt(Pred(b), H, Word, D) /\ Pred(b) \in Board
        /\ LockedUpTo(Dist(Pred(b)))
        /\ frx[b] \in H /\ frx[b].dest # Unassigned /\ frx[b].dest = resDest
    BY <1>2, ReserveArrives DEF Requests
  <1>4. /\ NoAssign' /\ AssignComes' /\ Lawful'
        /\ UNCHANGED <<budget, busy>> => Unstreamed'
        /\ \A c \in Board : Holds(fLink'[c], "DATA_LAST") => Holds(fLink[c], "DATA_LAST")
        /\ UNCHANGED bwdSlot => AcksStay
    <2>1. UNCHANGED fwdSlot \/ \E x \in Word : QueueFwd(b, [frx[b] EXCEPT !.pl = x])
      BY <1>1, Widths
    <2> QED  BY <1>1, <1>3, <2>1, ArrivalKeeps
  <1>5. /\ BudgetKept /\ Unstreamed' /\ LocksKept
        /\ LockAfterCheck(b) => (NoStream' => locked'[b])
    <2>1. CASE UNCHANGED <<layer2, budget>>
      <3>1. UNCHANGED <<locked, busy, budget>>
        BY <2>1 DEF layer2
      <3>2. LockAfterCheck(b) => locked'[b]
        BY RingTypes DEF LockAfterCheck, TypeOK, Layer2Types
      <3> QED  BY <1>4, <3>1, <3>2 DEF BudgetKept, LocksKept, NoStream
    <2>2. CASE LockAfterCheck(b) /\ UNCHANGED <<busy, budget>>
      <3>1. locked'[b] /\ \A c \in Board : locked[c] => locked'[c]
        BY <2>2, RingTypes DEF LockAfterCheck, TypeOK, Layer2Types
      <3> QED  BY <1>4, <2>2, <3>1 DEF BudgetKept, LocksKept, NoStream
    <2>3. CASE LockAfterCheck(b) /\ Spend("stream")
      <3>1. BudgetKept /\ ~NoStream' /\ Unstreamed'
        BY <2>3, StreamSpent
      <3> QED  BY <3>1 DEF LocksKept
    <2> QED  BY <1>1, <2>1, <2>2, <2>3 DEF LockAfterCheck
  <1>6. NoneOwes' /\ ~Ready' /\ Grants \subseteq Grants'
    BY <1>1, <1>3, <1>5, RegistersKept DEF Reserving
  <1>7. LockAfterCheck(b) => LockedUpTo(Dist(b))'
    BY <1>3, <1>5, LockNext
  <1>8. Acks(ReserveAcks, Grants)'
    <2>1. PICK V : V = Grants'
      OBVIOUS
    <2>2. Acks(ReserveAcks, V) /\ AckSet(ReserveAcks)
      BY <1>3, <1>6, <2>1, WiderAnswers, Kinds DEF Reserving, Acks
    <2>3. CASE UNCHANGED bwdSlot
      <3>1. \A c \in Board : Answers(Back(c)', ReserveAcks, V)
        BY <1>4, <2>2, <2>3 DEF AcksStay
      <3> QED  BY <2>1, <3>1 DEF Acks, ReserveAcks
    <2>4. ASSUME NEW x \in {0, 1}, QueueBwd(b, Frame("RESERVE_ACK", boardId[b], frx[b].src, x)),
                 x = 1 => frx[b].dest = boardId[b] /\ LockAfterCheck(b)
          PROVE  Acks(ReserveAcks, Grants)'
      <3>1. PICK f : f = Frame("RESERVE_ACK", boardId[b], frx[b].src, x)
        OBVIOUS
      <3>2. UNCHANGED <<bLink, brx>>
        BY <1>1, <1>3 DEF Arrives, RxPayload, PopFwd
      <3>3. x \in V
        <4>1. CASE x = 1
          <5>1. boardId[b] = Dist(b) /\ resDest' = Dist(b)
            BY <1>1, <1>3, <2>4, <4>1, Ids
          <5>2. LockedUpTo(Dist(b))'
            BY <1>7, <2>4, <4>1
          <5>3. PICK d : d = Dist(b) /\ resDest' = d
            BY <5>1
          <5>4. LockedUpTo(resDest)'
            BY <5>2, <5>3 DEF LockedUpTo
          <5> QED  BY <2>1, <5>4 DEF Grants
        <4>2. CASE x = 0
          BY <2>1, <4>2 DEF Grants
        <4> QED  BY <4>1, <4>2
      <3>4. f \in ReserveAcks /\ f.pl = x
        <4>1. boardId[b] \in Id /\ frx[b].src \in 0..Bcast /\ x \in Word
          BY <1>3, HopTypes, RingTypes, Widths DEF Requests, Beat
        <4>2. f \in Beat /\ f.type = "RESERVE_ACK"
          BY <3>1, <4>1, FrameInBeat, TypeOfFrame DEF BwdTypes
        <4>3. f.pl = x
          BY <3>1 DEF Frame
        <4> QED  BY <4>2, <4>3 DEF ReserveAcks
      <3>5. Acks(ReserveAcks, V)'
        BY <2>2, <2>4, <3>1, <3>2, <3>3, <3>4, QueueBacks, RingTypes
      <3> QED  BY <2>1, <3>5 DEF Acks, ReserveAcks
    <2> QED  BY <1>1, <2>3, <2>4
  <1>9. Reserving'
    <2>1. CASE UNCHANGED fwdSlot
      <3>1. Empty'
        BY <1>3, <2>1, AloneArrives, RingTypes DEF Empty
      <3> QED  BY <1>4, <1>6, <1>8, <3>1 DEF Reserving
    <2>2. CASE QueueFwd(b, [frx[b] EXCEPT !.pl = 0]) /\ LockAfterCheck(b)
      <3>1. PICK f : f = [frx[b] EXCEPT !.pl = 0]
        OBVIOUS
      <3>2. f \in H /\ f.pl \in Word
        BY <1>2, <1>3, <3>1, Widths DEF ReqSet, Beat
      <3>3. Carries(Hop(b)', H, Word, D) /\ \A c \in Board \ {b} : Idle(Hop(c)')
        BY <1>3, <2>2, <3>1, <3>2, AloneArrives, RingTypes
      <3>4. H = Requests("RESERVE_REQ", resDest') /\ D = Passed(H)
        BY <1>1, <1>2
      <3>5. AloneAt(b, H, Word, D)'
        BY <3>3 DEF AloneAt
      <3> QED  BY <1>4, <1>6, <1>7, <1>8, <2>2, <3>4, <3>5 DEF Reserving
    <2> QED  BY <1>1, <2>1, <2>2
  <1> QED  BY <1>1, <1>4, <1>5, <1>9, CountsKept DEF Calm, Phases

\* Behind the GO, or behind the last board, a frame ends at the master.
LEMMA MasterEnds ==
    ASSUME RingInv, Going \/ Gone, NEW t \in FwdTypes, Arrives(Master, t),
           UNCHANGED fwdSlot, Undisturbed, AcksStay, NoAssign',
           Going => t = "PAUSE_REQ"
    PROVE  (Going' \/ Gone') /\ ~waiting'
  <1> DEFINE p == Pred(Master)
  <1>1. /\ \A c \in Board : c # p => Same(Hop(c), Hop(c)')
        /\ \A H : Ends(Hop(p), H) => Ends(Hop(p)', H)
    <2>1. /\ \A c \in Board : c # p /\ c # Master => Same(Hop(c), Hop(c)')
          /\ \A H : Ends(Hop(p), H) => Ends(Hop(p)', H)
          /\ Same(Hop(Master), Hop(Master)')
      BY RxPayloadHops, RingTypes DEF Arrives
    <2> QED  BY <2>1
  <1>2. p = LastBoard
    BY DEF LastBoard
  <1>3. Acks(AnyPauseAck, Word)'
    <2>1. Acks(AnyPauseAck, Word)
      BY DEF Going, Gone
    <2>2. \A c \in Board : Answers(Back(c)', AnyPauseAck, Word)
      BY <2>1, Kinds DEF AcksStay
    <2> QED  BY <2>2 DEF Acks, AnyPauseAck
  <1>4. /\ goLog' = goLog /\ goTx' = goTx /\ ~waiting'
        /\ \A b \in Board : Owes(b)' <=> Owes(b)
    BY DEF Undisturbed, Owes, Going, Gone
  <1>5. ASSUME Going PROVE Going'
    <2>1. PICK s \in Board \ {LastBoard} :
            /\ goLog # <<>> /\ Carries(Hop(s), Gos, {goLog[Len(goLog)]}, Gos)
            /\ \A c \in Board \ {s, LastBoard} : Idle(Hop(c))
            /\ Ends(Hop(LastBoard), Pauses)
            /\ goTx => s = Master
            /\ Owes(Master) <=> goTx
            /\ \A c \in Slaves : Owes(c) <=> Dist(c) > Dist(s)
      BY <1>5 DEF Going
    <2>2. PICK P : P = {goLog[Len(goLog)]}
      OBVIOUS
    <2>3. Carries(Hop(s)', Gos, P, Gos)
      BY <1>1, <1>2, <2>1, <2>2, SameHop, Kinds DEF HopKept
    <2>4. \A c \in Board \ {s, LastBoard} : Idle(Hop(c)')
      BY <1>1, <1>2, <2>1, SameHop DEF HopKept
    <2>5. Ends(Hop(LastBoard)', Pauses)
      BY <1>1, <1>2, <2>1
    <2> QED  BY <1>3, <1>4, <2>1, <2>2, <2>3, <2>4, <2>5, Ring
             DEF Going, Gos, Pauses, Broadcasts, Slaves
  <1>6. ASSUME Gone PROVE Gone'
    <2>1. /\ \A c \in Board \ {LastBoard} : Idle(Hop(c)')
          /\ Ends(Hop(LastBoard)', Pauses \cup Gos)
      BY <1>1, <1>2, <1>6, SameHop DEF Gone, HopKept
    <2>2. NoneOwes'
      BY <1>4, <1>6 DEF Gone, NoneOwes
    <2> QED  BY <1>3, <1>4, <2>1, <2>2 DEF Gone, Pauses, Gos, Broadcasts
  <1> QED  BY <1>4, <1>5, <1>6

\* Every board on the way answers the PAUSE_REQ with its index, and locks itself.
LEMMA RxPauseReqPauses ==
    ASSUME RingInv, NEW b \in Board, RxPauseReq(b), Pausing
    PROVE  Pausing'
  <1>1. Arrives(b, "PAUSE_REQ") /\ "PAUSE_REQ" \in FwdTypes
    <2>1. UNCHANGED fwdSlot \/ \E f : QueueFwd(b, f)
      BY DEF RxPauseReq
    <2> QED  BY <2>1 DEF RxPauseReq, Arrives, FwdTypes
  <1>2. /\ UNCHANGED <<brx, bLink, relayQ, busy, totalIn, budget, initOk>> /\ Undisturbed
        /\ UNCHANGED <<ackMask, ackCount>>
    BY DEF RxPauseReq, RxPayload, PopFwd, SetLock, ids, masterVars, enumVars, trigVars,
           resVars, diagVars, hist, Undisturbed
  <1>3. LocksKept /\ locked'[b]
    BY <1>2, RingTypes DEF RxPauseReq, SetLock, LocksKept, NoStream, TypeOK, Layer2Types
  <1>4. PICK s \in Board : AloneAt(s, Pauses, Word, Pauses) /\ AckedUpTo(Dist(s))
    <2>1. ~Empty
      BY <1>1, RxPayloadHops, RingTypes DEF Arrives, Empty
    <2> QED  BY <2>1 DEF Pausing
  <1>5. s = Pred(b) /\ frx[b] \in Pauses
    BY <1>1, <1>4, AloneArrives, RingTypes
  <1>6. RingReturn(b) <=> b = Master
    BY <1>5, Ids DEF RingReturn, Pauses, Broadcasts
  <1>7. UNCHANGED fwdSlot \/ \E x \in Word : QueueFwd(b, [frx[b] EXCEPT !.pl = x])
    BY Widths DEF RxPauseReq
  <1>8. /\ NoAssign' /\ waiting' /\ NoneOwes'
        /\ UNCHANGED bwdSlot => AcksStay
    BY <1>1, <1>2, <1>3, <1>7, ArrivalKeeps, RegistersKept DEF Pausing, Undisturbed
  <1>9. PICK A, V : /\ A = PauseAcks /\ V = IndicesUpTo(Dist(s))
                    /\ A = PauseAcks' /\ V = IndicesUpTo(Dist(s))'
                    /\ AckSet(A) /\ Acks(A, V)
    <2>1. PICK n : n = Dist(s)
      OBVIOUS
    <2> QED  BY <1>2, <1>3, <1>4, <2>1, RegistersKept, Kinds DEF AckedUpTo
  <1>10. CASE b = Master
    <2>1. Empty'
      BY <1>1, <1>4, <1>6, <1>10, AloneArrives, RingTypes DEF RxPauseReq, Empty
    <2>2. AckedUpTo(Dist(s))'
      <3>1. PICK n : n = Dist(s)
        OBVIOUS
      <3>2. \A c \in Board : Answers(Back(c)', A, V)
        BY <1>8, <1>9, <1>10 DEF RxPauseReq, AcksStay
      <3>3. LockedUpTo(n)' /\ \A i \in ackMask' : i <= n
        BY <1>2, <1>3, <1>4, <3>1, RegistersKept DEF AckedUpTo
      <3> QED  BY <1>9, <3>1, <3>2, <3>3 DEF AckedUpTo, Acks
    <2>3. \E n \in 0..N-1 : AckedUpTo(n)'
      <3>1. PICK n \in 0..N-1 : n = Dist(s)
        BY <1>5, Ids
      <3> QED  BY <2>2, <3>1
    <2> QED  BY <1>8, <2>1, <2>3 DEF Pausing
  <1>11. CASE b # Master
    <2>1. /\ QueueFwd(b, [frx[b] EXCEPT !.pl = 0])
          /\ QueueBwd(b, Frame("PAUSE_ACK", boardId[b], frx[b].src, boardIndex[b]))
      BY <1>6, <1>11 DEF RxPauseReq
    <2>2. AloneAt(b, Pauses, Word, Pauses)'
      <3>1. PICK f : f = [frx[b] EXCEPT !.pl = 0]
        OBVIOUS
      <3>2. f \in Pauses /\ f.pl \in Word
        <4>1. f \in Pauses
          BY <1>5, <3>1, Kinds, Widths DEF ReqSet
        <4> QED  BY <4>1 DEF Pauses, Broadcasts, Beat
      <3>3. Carries(Hop(b)', Pauses, Word, Pauses) /\ \A c \in Board \ {b} : Idle(Hop(c)')
        BY <1>1, <1>4, <2>1, <3>1, <3>2, AloneArrives, RingTypes
      <3> QED  BY <3>3 DEF AloneAt, Pauses, Broadcasts
    <2>3. PICK n, m : n = Dist(s) /\ m = Dist(b) /\ n \in 0..N-1 /\ m = n + 1
      BY <1>5, <1>11, Ids
    <2>4. \A d \in Slaves : Dist(d) \in Int /\ Dist(d) # 0
      BY Ring DEF Slaves
    <2>5. PICK W : W = IndicesUpTo(m) /\ W = IndicesUpTo(m)' /\ V \subseteq W /\ boardIndex[b] \in W
      <3>1. IndicesUpTo(m) = IndicesUpTo(m)'
        BY <1>2 DEF IndicesUpTo, Undisturbed
      <3>2. \A d \in Slaves : Dist(d) <= n => Dist(d) <= m
        BY <2>3, <2>4
      <3>3. IndicesUpTo(n) \subseteq IndicesUpTo(m)
        BY <3>2 DEF IndicesUpTo
      <3>4. boardIndex[b] \in IndicesUpTo(m)
        <4>1. b \in Slaves /\ Dist(b) <= m
          BY <1>11, <2>3 DEF Slaves
        <4> QED  BY <4>1 DEF IndicesUpTo
      <3> QED  BY <1>9, <2>3, <3>1, <3>3, <3>4
    <2>6. \A c \in Board : Answers(Back(c)', A, W)
      <3>1. Acks(A, W)
        BY <1>9, <2>5, WiderAnswers DEF Acks
      <3>2. PICK f : f = Frame("PAUSE_ACK", boardId[b], frx[b].src, boardIndex[b])
        OBVIOUS
      <3>3. f \in Beat /\ f.type = "PAUSE_ACK" /\ f.src = boardId[b] /\ f.pl = boardIndex[b]
        <4>1. boardId[b] \in Id /\ frx[b].src \in 0..Bcast /\ boardIndex[b] \in Word
          BY <1>5, HopTypes, RingTypes, Widths DEF Pauses, Broadcasts, Word, Beat
        <4>2. f \in Beat
          <5>1. "PAUSE_ACK" \in FwdTypes \cup BwdTypes \cup DataTypes \cup {"PAYLOAD", "NONE"}
            BY DEF BwdTypes
          <5>2. boardId[b] \in Id /\ boardIndex[b] \in Word
            BY <4>1
          <5>3. frx[b].src \in 0..Bcast
            BY <4>1
          <5> QED  BY <3>2, <5>1, <5>2, <5>3, FrameInBeat
        <4>3. f.type = "PAUSE_ACK" /\ f.src = boardId[b]
          BY <3>2, TypeOfFrame
        <4>4. f.pl = boardIndex[b]
          BY <3>2 DEF Frame
        <4> QED  BY <4>2, <4>3, <4>4
      <3>4. boardId[b] # Unassigned => Numbered
        BY <1>11, RingTypes DEF Numbers, Slaves
      <3>5. f \in A
        BY <1>9, <3>3, <3>4 DEF PauseAcks
      <3>6. Acks(A, W)'
        BY <1>2, <1>9, <2>1, <2>5, <3>1, <3>2, <3>3, <3>5, QueueBacks, RingTypes
      <3> QED  BY <3>6 DEF Acks
    <2>7. LockedUpTo(m)'
      <3>1. LockedUpTo(Dist(Pred(b)))
        BY <1>4, <1>5 DEF AckedUpTo
      <3> QED  BY <1>3, <2>3, <3>1, LockNext
    <2>8. \A i \in ackMask' : i <= m
      <3>1. \A i \in ackMask : i \in Int /\ i <= n
        BY <1>4, <2>3, RingTypes DEF AckedUpTo, TypeOK, TrigTypes
      <3> QED  BY <1>2, <2>3, <3>1
    <2>9. AckedUpTo(m)'
      BY <1>9, <2>5, <2>6, <2>7, <2>8 DEF AckedUpTo, Acks
    <2> QED  BY <1>8, <2>2, <2>3, <2>9 DEF Pausing
  <1> QED  BY <1>10, <1>11

\* PAUSE_REQ locks the board, is answered and passed on, also behind the GO.
LEMMA RxPauseReqCalm == ASSUME RingInv, NEW b \in Board, RxPauseReq(b) PROVE Calm'
  <1>1. Arrives(b, "PAUSE_REQ") /\ "PAUSE_REQ" \in FwdTypes
    <2>1. UNCHANGED fwdSlot \/ \E f : QueueFwd(b, f)
      BY DEF RxPauseReq
    <2> QED  BY <2>1 DEF RxPauseReq, Arrives, FwdTypes
  <1>2. /\ UNCHANGED <<brx, relayQ, busy, totalIn, budget, initOk>> /\ Undisturbed
    BY DEF RxPauseReq, RxPayload, PopFwd, SetLock, ids, masterVars, enumVars, trigVars,
           resVars, diagVars, hist, Undisturbed
  <1>3. LocksKept
    BY <1>2, RingTypes DEF RxPauseReq, SetLock, LocksKept, NoStream, TypeOK, Layer2Types
  <1>4. UNCHANGED fwdSlot \/ \E x \in Word : QueueFwd(b, [frx[b] EXCEPT !.pl = x])
    BY Widths DEF RxPauseReq
  <1>5. /\ NoAssign' /\ AssignComes' /\ Lawful' /\ Unstreamed'
        /\ UNCHANGED bwdSlot => AcksStay
    BY <1>1, <1>2, <1>4, ArrivalKeeps
  <1>6. BudgetKept
    BY <1>2 DEF BudgetKept
  <1>7. CASE Pausing
    BY <1>2, <1>3, <1>5, <1>6, <1>7, RxPauseReqPauses, CountsKept DEF Calm, Phases
  <1>8. CASE ~Pausing
    <2>1. b = Master /\ (Going \/ Gone)
      BY <1>1, <1>8, Arrival, RingTypes DEF Phases
    <2>2. frx[b] \in Pauses \cup Gos
      <3>1. Ends(Hop(Pred(b)), Pauses) \/ Ends(Hop(Pred(b)), Pauses \cup Gos)
        BY <2>1 DEF Going, Gone, LastBoard
      <3> QED  BY <1>1, <3>1, RxPayloadHops, RingTypes DEF Arrives
    <2>3. UNCHANGED fwdSlot /\ UNCHANGED bwdSlot
      <3>1. RingReturn(b)
        BY <2>1, <2>2, RingTypes DEF RingReturn, Pauses, Gos, Broadcasts
      <3> QED  BY <2>1, <3>1 DEF RxPauseReq
    <2>4. Going' \/ Gone'
      BY <1>1, <1>2, <1>5, <2>1, <2>3, MasterEnds
    <2> QED  BY <1>2, <1>3, <1>5, <1>6, <2>4, CountsKept DEF Calm, Phases
  <1> QED  BY <1>7, <1>8

\* A larger set of headers describes the last hop as well.
LEMMA WiderEnds ==
    ASSUME NEW h, NEW H, NEW I, H \subseteq I, Ends(h, H)
    PROVE  Ends(h, I)
  BY DEF Ends

\* The GO reaches the board behind the hop it was on, which fires and passes it on.
LEMMA RxGoFires ==
    ASSUME RingInv, NEW b \in Board, RxGo(b), Going
    PROVE  /\ b # Master /\ FiredInOrder' /\ (Going' \/ Gone')
           /\ fires' = [fires EXCEPT ![b] = Append(@, goLog[Len(goLog)])]
  <1> DEFINE g == goLog[Len(goLog)]
  <1>1. Arrives(b, "GO") /\ "GO" \in FwdTypes
    <2>1. UNCHANGED fwdSlot \/ \E f : QueueFwd(b, f)
      BY DEF RxGo
    <2> QED  BY <2>1 DEF RxGo, Arrives, FwdTypes
  <1>2. /\ UNCHANGED <<bwdSlot, brx, bLink, relayQ, totalIn, goTx, goLog, waiting, pendGroup>>
    BY DEF RxGo, RxPayload, PopFwd, SetLock, ids, masterVars, trigVars
  <1>3. PICK s \in Board \ {LastBoard} :
          /\ goLog # <<>> /\ Carries(Hop(s), Gos, {g}, Gos)
          /\ \A c \in Board \ {s, LastBoard} : Idle(Hop(c))
          /\ Ends(Hop(LastBoard), Pauses)
          /\ goTx => s = Master
          /\ Owes(Master) <=> goTx
          /\ \A c \in Slaves : Owes(c) <=> Dist(c) > Dist(s)
    BY DEF Going
  <1>4. PICK p \in Board : p = Pred(b) /\ p # b
    BY Apart
  <1>5. /\ ~Idle(Hop(p)) /\ frx[b].type = "GO"
        /\ \A c \in Board : c # p /\ c # b => Same(Hop(c), Hop(c)')
        /\ \A H, P, D : Carries(Hop(p), H, P, D) =>
             /\ Idle(Hop(p)') /\ frx[b] \in D /\ ~fwdPending[p] /\ IsPayload(FwdHead(b), P)
        /\ \A H : Ends(Hop(p), H) => frx[b] \in H
        /\ \A f, H, P, D : QueueFwd(b, f) /\ f \in H /\ f.pl \in P =>
             /\ Idle(Hop(b)) => Carries(Hop(b)', H, P, D)
             /\ Ends(Hop(b), H) => Ends(Hop(b)', H)
    BY <1>1, <1>4, RxPayloadHops, RingTypes DEF Arrives
  <1>6. p = s
    <2>1. p # LastBoard
      BY <1>3, <1>5 DEF Pauses, Broadcasts
    <2> QED  BY <1>3, <1>5, <2>1
  <1>7. Idle(Hop(s)') /\ frx[b] \in Gos /\ ~fwdPending[s] /\ IsPayload(FwdHead(b), {g})
    BY <1>3, <1>5, <1>6
  <1>8. b # Master /\ Dist(b) = Dist(s) + 1 /\ Dist(s) \in 0..N-1 /\ Dist(b) \in 1..N-1
    BY <1>3, <1>4, <1>6, Ids
  <1>9. ~goTx /\ ~Owes(Master)
    <2>1. goTx => fwdPending[Master]
      BY DEF RingInv, FireInv, MasterFiresOncePerGo
    <2> QED  BY <1>3, <1>7, <2>1
  <1>10. g \in 0..15 /\ g \in Word /\ Low4(FwdHead(b)) = g
    <2>1. goLog \in Seq(0..15) /\ Len(goLog) \in Nat /\ Len(goLog) # 0
      BY <1>3, RingTypes, LenProperties, EmptySeq DEF TypeOK, HistTypes
    <2>2. Len(goLog) \in 1..Len(goLog)
      BY <2>1
    <2>3. g \in 0..15
      BY <2>1, <2>2, ElementOfSeq
    <2>4. Bits(FwdHead(b)) = g
      BY <1>7 DEF IsPayload, Bits
    <2> QED  BY <2>3, <2>4 DEF Low4, Word
  <1>11. ~RingReturn(b)
    BY <1>7, <1>8, Ids DEF RingReturn, Gos, Broadcasts
  <1>12. PICK f : /\ f = [frx[b] EXCEPT !.pl = g] /\ QueueFwd(b, f) /\ f \in Gos /\ f.pl = g
                  /\ fires' = [fires EXCEPT ![b] = Append(@, g)]
    <2>1. PICK f : f = [frx[b] EXCEPT !.pl = g]
      OBVIOUS
    <2>2. QueueFwd(b, f) /\ fires' = [fires EXCEPT ![b] = Append(@, g)]
      BY <1>10, <1>11, <2>1 DEF RxGo
    <2>3. f \in Gos
      BY <1>7, <1>10, <2>1, Kinds DEF ReqSet
    <2>4. f.pl = g
      BY <1>7, <2>1 DEF Gos, Broadcasts, Beat
    <2> QED  BY <2>1, <2>2, <2>3, <2>4
  <1>13. b \in Slaves /\ Owes(b)
    BY <1>3, <1>8 DEF Slaves
  <1>14. FiredInOrder' /\ ~Owes(b)' /\ \A c \in Board : c # b => (Owes(c)' <=> Owes(c))
    BY <1>2, <1>12, <1>13, FireKeeps, RingTypes
  <1>15. \A c \in Slaves : Owes(c)' <=> Dist(c) > Dist(b)
    <2>1. ASSUME NEW c \in Slaves, c # b PROVE Owes(c)' <=> Dist(c) > Dist(b)
      <3>1. Dist(c) # Dist(b) /\ Dist(c) \in 0..N-1
        BY <2>1, Ring DEF Slaves
      <3>2. Owes(c)' <=> Dist(c) > Dist(s)
        BY <1>3, <1>14, <2>1 DEF Slaves
      <3> QED  BY <1>8, <3>1, <3>2
    <2> QED  BY <1>8, <1>14, <2>1
  <1>16. ~waiting' /\ NoAssign' /\ Acks(AnyPauseAck, Word)' /\ ~goTx' /\ ~Owes(Master)'
    <2>1. UNCHANGED fwdSlot \/ \E x \in Word : QueueFwd(b, [frx[b] EXCEPT !.pl = x])
      BY <1>10, <1>12
    <2>2. NoAssign' /\ AcksStay
      BY <1>1, <1>2, <2>1, ArrivalKeeps
    <2>3. \A c \in Board : Answers(Back(c)', AnyPauseAck, Word)
      BY <2>2, Kinds DEF AcksStay, Going
    <2> QED  BY <1>2, <1>8, <1>9, <1>14, <2>2, <2>3, Ring DEF Going, Acks, AnyPauseAck
  <1>17. \A c \in Board : c # p /\ c # b => HopKept(Hop(c), Hop(c)')
    BY <1>5, SameHop
  <1>18. CASE b # LastBoard
    <2>1. PICK P : P = {g}
      OBVIOUS
    <2>2. Carries(Hop(b)', Gos, P, Gos)
      BY <1>3, <1>4, <1>5, <1>6, <1>12, <1>18, <2>1
    <2>3. \A c \in Board \ {b, LastBoard} : Idle(Hop(c)')
      BY <1>3, <1>6, <1>7, <1>17 DEF HopKept
    <2>4. Ends(Hop(LastBoard)', Pauses)
      BY <1>3, <1>6, <1>17, <1>18, Kinds, Ring DEF HopKept
    <2>5. P = {goLog'[Len(goLog')]} /\ goLog' # <<>>
      BY <1>2, <1>3, <2>1
    <2>6. Going'
      BY <1>15, <1>16, <1>18, <2>2, <2>3, <2>4, <2>5, Ring DEF Going, Gos, Pauses, Broadcasts, Slaves
    <2> QED  BY <1>8, <1>12, <1>14, <2>6
  <1>19. CASE b = LastBoard
    <2>1. \A c \in Board \ {LastBoard} : Idle(Hop(c)')
      BY <1>3, <1>6, <1>7, <1>17, <1>19 DEF HopKept
    <2>2. Ends(Hop(LastBoard)', Pauses \cup Gos)
      <3>1. Ends(Hop(LastBoard), Pauses \cup Gos)
        BY <1>3, WiderEnds
      <3> QED  BY <1>5, <1>12, <1>19, <3>1
    <2>3. NoneOwes'
      <3>1. \A c \in Slaves : ~(Dist(c) > Dist(b))
        BY <1>8, <1>19, Ring DEF Slaves
      <3> QED  BY <1>15, <1>16, <3>1 DEF NoneOwes, Slaves
    <2>4. Gone'
      BY <1>16, <2>1, <2>2, <2>3 DEF Gone, Pauses, Gos, Broadcasts
    <2> QED  BY <1>8, <1>12, <1>14, <2>4
  <1> QED  BY <1>18, <1>19

\* GO fires a board and passes on.
LEMMA RxGoCalm == ASSUME RingInv, NEW b \in Board, RxGo(b) PROVE Calm'
  <1>1. Arrives(b, "GO") /\ "GO" \in FwdTypes
    <2>1. UNCHANGED fwdSlot \/ \E f : QueueFwd(b, f)
      BY DEF RxGo
    <2> QED  BY <2>1 DEF RxGo, Arrives, FwdTypes
  <1>2. /\ UNCHANGED <<bwdSlot, brx, relayQ, busy, totalIn, goTx, goLog, waiting, goSent, pendGroup,
                       boardIndex, boardId, total, initOk, resDest, diagDest, up, budget>>
    BY DEF RxGo, RxPayload, PopFwd, SetLock, ids, masterVars, trigVars, enumVars, resVars, diagVars
  <1>3. Going \/ (Gone /\ b = Master)
    BY <1>1, Arrival, RingTypes DEF Phases
  <1>4. UNCHANGED fwdSlot \/ \E x \in Word : QueueFwd(b, [frx[b] EXCEPT !.pl = x])
    <2>1. frx[b] \in Beat /\ FwdHead(b) \in Beat
      BY <1>1, RxPayloadHops, Arrival, RingTypes DEF Arrives
    <2>2. Low4(FwdHead(b)) \in Word
      BY <2>1, BitsInWord, Widths
    <2> QED  BY <2>2 DEF RxGo
  <1>5. NoAssign' /\ AssignComes' /\ Lawful' /\ Unstreamed' /\ AcksStay
    BY <1>1, <1>2, <1>4, ArrivalKeeps
  <1>6. Healthy' /\ Numbers'
    BY <1>2, RingTypes DEF Healthy, Numbers, Numbered
  <1>7. GosCounted'
    BY <1>2, RingTypes DEF GosCounted
  <1>8. AcksCounted'
    BY <1>2, <1>3 DEF AcksCounted, Going, Gone
  <1>9. CASE Going
    <2>1. FiredInOrder' /\ (Going' \/ Gone')
      BY <1>9, RxGoFires
    <2> QED  BY <1>5, <1>6, <1>7, <1>8, <2>1 DEF Calm, Phases
  <1>10. CASE Gone /\ ~Going
    <2>1. b = Master /\ Gone
      BY <1>3, <1>10
    <2>2. frx[b] \in Pauses \cup Gos
      <3>1. Ends(Hop(Pred(b)), Pauses \cup Gos)
        BY <2>1 DEF Gone, LastBoard
      <3> QED  BY <1>1, <3>1, RxPayloadHops, RingTypes DEF Arrives
    <2>3. UNCHANGED <<fwdSlot, fires>>
      <3>1. RingReturn(b)
        BY <2>1, <2>2, RingTypes DEF RingReturn, Pauses, Gos, Broadcasts
      <3> QED  BY <3>1 DEF RxGo
    <2>4. Undisturbed
      BY <1>2, <2>1, <2>3 DEF Undisturbed, Gone
    <2>5. Going' \/ Gone'
      BY <1>1, <1>5, <1>10, <2>1, <2>3, <2>4, MasterEnds
    <2>6. FiredInOrder'
      BY <1>2, <2>3, RingTypes DEF FiredInOrder
    <2> QED  BY <1>5, <1>6, <1>7, <1>8, <2>5, <2>6 DEF Calm, Phases
  <1> QED  BY <1>3, <1>9, <1>10

\* T_BOARD_ID_ASSIGN reaches the next board, which takes its index as its id.
LEMMA AssignArrives ==
    ASSUME RingInv, NEW b \in Board, RxAssign(b)
    PROVE  LET f == FwdHead(b) IN
           /\ Assigning /\ f \in LawfulBeat /\ f.type = "BOARD_ID_ASSIGN"
           /\ f.src = 0 /\ f.dest = Bcast /\ f.pl = N /\ GateOk(b, f)
           /\ fLink[Pred(b)] # <<>> /\ frx[b] = NoFrame /\ PopFwd(b)
  <1> DEFINE f == FwdHead(b)
  <1>1. fLink[Pred(b)] # <<>> /\ PopFwd(b) /\ f.type = "BOARD_ID_ASSIGN" /\ frx[b] = NoFrame
    BY DEF RxAssign
  <1>2. f \in LawfulBeat /\ f \in Beat
    BY <1>1, PopLawful, LawfulSets, RingTypes
  <1>3. f.src = 0 /\ f.dest = Bcast /\ f.pl = N
    BY <1>1, <1>2 DEF LawfulBeat
  <1>4. ~NoAssign
    <2>1. Pred(b) \in Board /\ Holds(fLink[Pred(b)], "BOARD_ID_ASSIGN")
      BY <1>1, PopHolds, RingTypes, Ring
    <2> QED  BY <2>1 DEF NoAssign, AssignOn
  <1>5. Assigning
    BY <1>4, RingTypes DEF Phases, Resting, Enumerating, Pausing, Going, Gone, Reserving, Diagnosing
  <1>6. GateOk(b, f)
    BY <1>2, <1>3, GatePasses, RingTypes
  <1> QED  BY <1>1, <1>2, <1>3, <1>5, <1>6

\* T_BOARD_ID_ASSIGN gives a board its count and its id and passes on.
LEMMA RxAssignCalm == ASSUME RingInv, NEW b \in Board, RxAssign(b) PROVE Calm'
  <1> DEFINE f == FwdHead(b)
             p == Pred(b)
  <1>1. /\ Assigning /\ f \in LawfulBeat /\ f.type = "BOARD_ID_ASSIGN"
        /\ f.src = 0 /\ f.dest = Bcast /\ f.pl = N /\ GateOk(b, f)
        /\ fLink[p] # <<>> /\ frx[b] = NoFrame /\ PopFwd(b)
    BY AssignArrives
  <1>2. /\ UNCHANGED <<fwdSlot, bwdSlot, bLink, frx, brx, locked, busy, budget>>
        /\ UNCHANGED <<boardIndex, total, initOk, waiting, goSent, goTx, pendGroup, fires, goLog,
                       resDest, diagDest, up, ackMask, ackCount>>
    BY DEF RxAssign, PopFwd, TakeId, ids, masterVars, enumVars, trigVars, resVars, diagVars, hist
  <1>3. p \in Board /\ (f.src # boardId[b] <=> b # Master)
    BY <1>1, Ids
  <1>4. /\ b = Master => UNCHANGED <<boardId, totalIn, relayQ>>
        /\ b # Master => /\ boardId' = [boardId EXCEPT ![b] = boardIndex[b]]
                         /\ totalIn' = [totalIn EXCEPT ![b] = N]
                         /\ relayQ' = [relayQ EXCEPT ![b] = Append(@, f)]
    <2>1. b = Master => UNCHANGED <<boardId, totalIn, relayQ>>
      BY <1>1, <1>3 DEF RxAssign, ids
    <2>2. N % 32 = N
      BY BoardAssumption
    <2>3. f.dest # boardId[b]
      BY <1>1, HopTypes, RingTypes, BcastWidth DEF Id
    <2>4. b # Master => relayQ' = [relayQ EXCEPT ![b] = Append(@, f)]
      BY <1>1, <1>3, <2>3 DEF RxAssign, Relayed
    <2>5. b # Master => /\ boardId' = [boardId EXCEPT ![b] = boardIndex[b]]
                        /\ totalIn' = [totalIn EXCEPT ![b] = N]
      BY <1>1, <1>3, <2>2 DEF RxAssign, TakeId
    <2> QED  BY <2>1, <2>4, <2>5
  <1>5. /\ \A c \in Board : c # b => boardId'[c] = boardId[c] /\ totalIn'[c] = totalIn[c]
        /\ b # Master => boardId'[b] = boardIndex[b] /\ totalIn'[b] = N
    BY <1>4, RingTypes DEF TypeOK, IdTypes
  <1>6. HopsKept
    BY <1>1, <1>2, RxDataHops, RingTypes DEF DataTypes
  <1>7. Numbered /\ Numbered'
    BY <1>1, <1>2 DEF Assigning, Numbered
  <1>8. Assigning'
    <2>1. Empty' /\ NoAcks'
      BY <1>1, <1>2, <1>6, FramesKept, BackwardKept, BacksSame, AcksKept DEF Assigning
    <2>2. NoneOwes' /\ ~Ready'
      BY <1>1, <1>2 DEF Assigning, NoneOwes, Owes, Ready, TotalEff
    <2> QED  BY <1>7, <2>1, <2>2 DEF Assigning
  <1>9. Numbers'
    <2>1. \A c \in Slaves : boardId'[c] \in {Unassigned, Dist(c)}
      BY <1>2, <1>4, <1>5, <1>7, RingTypes DEF Numbers, Numbered, Slaves
    <2>2. \A c \in Board : totalIn'[c] \in {0, N}
      BY <1>4, <1>5, RingTypes DEF Numbers
    <2> QED  BY <1>2, <1>7, <2>1, <2>2, RingTypes DEF Numbers
  <1>10. /\ \A t : \A c \in Board : Holds(fLink[c], t) <=> Holds(fLink'[c], t) \/ (c = p /\ f.type = t)
         /\ \A t : \A c \in Board : b # Master =>
              (Holds(relayQ'[c], t) <=> Holds(relayQ[c], t) \/ (c = b /\ f.type = t))
    <2>1. \A t : \A c \in Board : Holds(fLink[c], t) <=> Holds(fLink'[c], t) \/ (c = p /\ f.type = t)
      BY <1>1, PopHolds, RingTypes
    <2>2. f \in Beat
      BY <1>1, LawfulSets
    <2>3. \A t : \A c \in Board : b # Master =>
              (Holds(relayQ'[c], t) <=> Holds(relayQ[c], t) \/ (c = b /\ f.type = t))
      BY <1>4, <2>2, QueueHolds, RingTypes
    <2> QED  BY <2>1, <2>3
  <1>11. Unstreamed'
    BY <1>1, <1>2, <1>4, <1>10, UnstreamedKept
  <1>12. Lawful'
    <2>1. fLink' \in [Board -> Seq(LawfulBeat)]
      BY <1>1, PopLawful, RingTypes
    <2>2. f \in LawfulData
      BY <1>1 DEF LawfulData, DataTypes
    <2>3. relayQ' \in [Board -> Seq(LawfulData)]
      BY <1>4, <2>2, KeepLawful, LawfulKept, RingTypes
    <2> QED  BY <1>2, <2>1, <2>3, RingTypes DEF Lawful, fwdSlot
  <1>13. AssignComes'
    <2> SUFFICES ASSUME totalIn'[Master] # 0, NEW c \in Slaves, totalIn'[c] = 0
                 PROVE  \E d \in Board : AssignOn(d)' /\ Dist(d) < Dist(c)
      BY DEF AssignComes
    <2>1. totalIn'[Master] = totalIn[Master] /\ Master \in Board /\ c \in Board
      BY <1>4, <1>5, Ring DEF Slaves
    <2>2. totalIn[c] = 0 /\ (b # Master => c # b)
      BY <1>4, <1>5, <2>1, BoardAssumption
    <2>3. PICK d \in Board : AssignOn(d) /\ Dist(d) < Dist(c)
      BY <2>1, <2>2, RingTypes DEF AssignComes
    <2>4. Dist(c) \in 0..N-1 /\ Dist(d) \in 0..N-1
      BY <2>1, <2>3, Ring
    <2>5. CASE d # p
      <3>1. AssignOn(d)'
        BY <1>4, <1>10, <2>3, <2>5 DEF AssignOn
      <3> QED  BY <2>3, <3>1
    <2>6. CASE d = p
      <3>1. b # Master
        <4>1. Dist(LastBoard) = N - 1
          BY Ring
        <4> QED  BY <2>3, <2>4, <2>6, <4>1 DEF LastBoard
      <3>2. AssignOn(b)'
        BY <1>1, <1>10, <3>1 DEF AssignOn
      <3>3. Dist(b) = Dist(p) + 1 /\ Dist(b) # Dist(c)
        BY <2>1, <2>2, <3>1, Ids, Ring
      <3>4. Dist(b) < Dist(c)
        BY <2>3, <2>4, <2>6, <3>3
      <3> QED  BY <3>2, <3>4
    <2> QED  BY <2>5, <2>6
  <1>14. Healthy' /\ FiredInOrder'
    BY <1>2, RingTypes DEF Healthy, FiredInOrder
  <1>15. GosCounted'
    BY <1>2, RingTypes DEF GosCounted
  <1>16. AcksCounted'
    BY <1>2, RingTypes DEF AcksCounted, NoStream
  <1> QED  BY <1>8, <1>9, <1>11, <1>12, <1>13, <1>14, <1>15, <1>16 DEF Calm, Phases

-----------------------------------------------------------------------------
(* The host's commands, which find the ring at rest.                       *)

\* The queues, latches and links of a quiet ring are empty, so that only a
\* ring at rest is quiet.
LEMMA QuietRests ==
    ASSUME RingInv, RingQuiet
    PROVE  Resting /\ ~Ready
  <1>1. ~Ready
    BY Ring DEF RingQuiet, GoReady, Ready
  <1>2. ASSUME NEW b \in Board PROVE Idle(Hop(b))
    <2>1. /\ Hop(b).pending = fwdPending[b] /\ Hop(b).half = ftxBeat1[b]
          /\ Hop(b).link = fLink[b] /\ Hop(b).latch = frx[Succ(b)]
      BY HopParts
    <2>2. ~fwdPending[b] /\ fLink[b] = <<>> /\ frx[Succ(b)] = NoFrame
      BY Apart DEF RingQuiet
    <2>3. ~ftxBeat1[b]
      BY <2>2 DEF RingInv, FireInv, SlotDiscipline
    <2>4. OnlyData(<<>>, {})
      BY BeatSeqs DEF OnlyData
    <2> QED  BY <2>1, <2>2, <2>3, <2>4 DEF Idle
  <1>3. ASSUME NEW b \in Board PROVE BackIdle(Back(b))
    <2>1. /\ Back(b).pending = bwdPending[b] /\ Back(b).half = btxBeat1[b]
          /\ Back(b).link = bLink[b] /\ Back(b).latch = brx[Pred(b)]
      BY BackParts
    <2>2. ~bwdPending[b] /\ bLink[b] = <<>> /\ brx[Pred(b)] = NoFrame
      BY Apart DEF RingQuiet
    <2>3. ~btxBeat1[b]
      BY <2>2 DEF RingInv, FireInv, SlotDiscipline
    <2> QED  BY <2>1, <2>2, <2>3 DEF BackIdle
  <1>4. NoAssign
    BY HoldsNothing DEF NoAssign, AssignOn, RingQuiet
  <1>5. ~Going
    <2>1. \A s \in Board : \A P : ~Carries(Hop(s), Gos, P, Gos)
      <3>1. \A s \in Board : Hop(s).link \in Seq(Beat)
        BY HopParts, HopTypes, RingTypes
      <3> QED  BY <1>2, <3>1, HopEnds
    <2> QED  BY <2>1 DEF Going
  <1>6. NoneOwes
    BY <1>5, RingTypes DEF Phases, Resting, Enumerating, Assigning, Pausing, Gone, Reserving,
       Diagnosing
  <1> QED  BY <1>1, <1>2, <1>3, <1>4, <1>6 DEF Resting, Empty, NoAcks

\* A command takes one from its own budget.
LEMMA Spent ==
    ASSUME TypeOK, NEW op \in HostOps, Spend(op)
    PROVE  /\ budget[op] \in Nat /\ budget[op] > 0 /\ budget'[op] = budget[op] - 1
           /\ \A o \in HostOps : o # op => budget'[o] = budget[o]
  BY DEF TypeOK, Spend

\* What a command leaves of a ring at rest when it queues one frame.
LEMMA CommandWires ==
    ASSUME RingInv, Resting, UNCHANGED <<bwdSlot, fLink, bLink, frx, brx, relayQ>>,
           NEW f \in ReqBeat, QueueFwd(Master, f)
    PROVE  /\ NoAcks' /\ NoAssign' /\ Lawful' /\ (UNCHANGED totalIn => AssignComes')
           /\ \A A, V : \A b \in Board : Answers(Back(b)', A, V)
           /\ \A H, P, D : f \in H /\ f.pl \in P => Carries(Hop(Master)', H, P, D)
           /\ \A b \in Board \ {Master} : Idle(Hop(b)')
  <1>1. NoAcks' /\ \A A, V : \A b \in Board : Answers(Back(b)', A, V)
    <2>1. NoAcks'
      BY BackwardKept, BacksSame, AcksKept DEF Resting
    <2>2. \A b \in Board : BackIdle(Back(b)')
      BY <2>1 DEF NoAcks
    <2> QED  BY <2>1, <2>2, NoAnswers
  <1>2. NoAssign' /\ (UNCHANGED totalIn => AssignComes')
    <2>1. \A b \in Board : AssignOn(b)' <=> AssignOn(b)
      BY DEF AssignOn
    <2> QED  BY <2>1, AssignComesKept, RingTypes DEF NoAssign, Resting
  <1>3. Lawful'
    BY Ring, QueueLawful, LawfulKept, RingTypes DEF Lawful
  <1>4. /\ \A H, P, D : f \in H /\ f.pl \in P => Carries(Hop(Master)', H, P, D)
        /\ \A b \in Board \ {Master} : Idle(Hop(b)')
    <2>1. Master \in Board /\ \A b \in Board : Idle(Hop(b))
      BY Ring DEF Resting, Empty
    <2>2. /\ \A b \in Board : b # Master => Same(Hop(b), Hop(b)')
          /\ \A H, P, D : f \in H /\ f.pl \in P => Carries(Hop(Master)', H, P, D)
      BY <2>1, QueueHops, RingTypes
    <2> QED  BY <2>1, <2>2, SameHop DEF HopKept
  <1> QED  BY <1>1, <1>2, <1>3, <1>4

\* A request of the master's own, as its slot holds it.
LEMMA MasterRequest ==
    ASSUME NEW t \in FwdTypes, NEW d \in 0..Bcast, NEW x \in Word
    PROVE  LET f == Frame(t, 0, d, x) IN
           /\ f \in ReqBeat /\ f \in Beat /\ f.type = t /\ f.src = 0 /\ f.dest = d /\ f.pl = x
  <1>1. t \in FwdTypes \cup BwdTypes \cup DataTypes \cup {"PAYLOAD", "NONE"} /\ 0 \in Id
    BY Widths
  <1>2. Frame(t, 0, d, x) \in Beat
    BY <1>1, FrameInBeat
  <1>3. /\ Frame(t, 0, d, x).type = t /\ Frame(t, 0, d, x).src = 0
        /\ Frame(t, 0, d, x).dest = d /\ Frame(t, 0, d, x).pl = x
    BY DEF Frame
  <1> QED  BY <1>2, <1>3 DEF ReqBeat

\* No lock opens, no stream starts and the counts stand.
LEMMA CountsStay ==
    ASSUME RingInv, BudgetKept, LocksKept, initOk' => initOk,
           UNCHANGED <<boardIndex, boardId, totalIn, total, waiting, goSent, goTx, pendGroup, fires,
                       goLog, up, ackMask, ackCount>>
    PROVE  /\ Healthy' /\ Numbers' /\ FiredInOrder' /\ GosCounted' /\ AcksCounted'
           /\ (NoneOwes => NoneOwes') /\ (Ready' => Ready)
  <1>1. Healthy' /\ FiredInOrder'
    BY DEF RingInv, Calm, Healthy, FiredInOrder, BudgetKept
  <1>2. Numbers'
    BY DEF RingInv, Calm, Numbers, Numbered
  <1>3. GosCounted'
    BY DEF RingInv, Calm, GosCounted, BudgetKept
  <1>4. AcksCounted'
    BY Ring DEF RingInv, Calm, AcksCounted, LocksKept, Slaves
  <1>5. NoneOwes => NoneOwes'
    BY DEF NoneOwes, Owes
  <1>6. Ready' => Ready
    BY DEF Ready, TotalEff
  <1> QED  BY <1>1, <1>2, <1>3, <1>4, <1>5, <1>6

\* The commands other than a trigger and a stream cost nothing that is counted.
LEMMA CommandSpends ==
    ASSUME RingInv, NEW op \in {"init", "assign", "reserve", "diag"}, Spend(op)
    PROVE  BudgetKept /\ budget'["stream"] = budget["stream"]
  <1>1. op \in HostOps /\ op \notin {"down", "reset", "trig", "stream"}
    BY DEF HostOps
  <1>2. "down" \in HostOps /\ "reset" \in HostOps /\ "trig" \in HostOps /\ "stream" \in HostOps
    BY DEF HostOps
  <1> QED  BY <1>1, <1>2, Spent, RingTypes DEF BudgetKept

\* The host starts the enumeration.
LEMMA InitStartCalm == ASSUME CalmHost, RingInv, InitStart PROVE Calm'
  <1>1. Resting /\ ~Ready
    BY QuietRests DEF CalmHost, InitStart, Command
  <1>2. /\ UNCHANGED <<bwdSlot, fLink, bLink, frx, brx, relayQ, locked, busy>>
        /\ UNCHANGED <<boardIndex, boardId, totalIn, waiting, goSent, goTx, pendGroup, fires,
                       goLog, up, ackMask, ackCount>>
        /\ total' = 0 /\ initOk' = FALSE
    BY DEF InitStart, links, layer2, ids, trigVars, hist
  <1>3. PICK f \in ReqBeat : /\ f \in Counts /\ f.pl = 0 /\ QueueFwd(Master, f)
    <2>1. Master \in Board /\ Pred(Master) \in Board /\ boardId[Master] = 0
      BY Apart, RingTypes
    <2>2. up[Pred(Master)] /\ up[Master]
      BY <2>1, RingTypes DEF Healthy
    <2>3. QueueFwd(Master, Frame("ENUM_COUNT", 0, 0, 0))
      BY <2>1, <2>2 DEF InitStart
    <2>4. "ENUM_COUNT" \in FwdTypes /\ 0 \in 0..Bcast /\ 0 \in Word
      BY Widths, BcastWidth DEF FwdTypes
    <2> QED  BY <2>3, <2>4, MasterRequest DEF Counts
  <1>4. BudgetKept /\ budget'["stream"] = budget["stream"]
    BY CommandSpends DEF InitStart, Command
  <1>5. /\ NoAcks' /\ NoAssign' /\ Lawful' /\ AssignComes'
        /\ \A H, P, D : f \in H /\ f.pl \in P => Carries(Hop(Master)', H, P, D)
        /\ \A b \in Board \ {Master} : Idle(Hop(b)')
    BY <1>1, <1>2, <1>3, CommandWires
  <1>6. Enumerating'
    <2>1. NoneOwes'
      BY <1>1, <1>2 DEF Resting, NoneOwes, Owes
    <2>2. ~Ready'
      BY <1>1, <1>2 DEF Ready, TotalEff
    <2>3. /\ Master \in Board /\ Dist(Master) = 0
          /\ \A b \in Slaves : ~(Dist(b) <= Dist(Master))
      BY Ring DEF Slaves
    <2>4. PICK P : P = {Dist(Master)} /\ 0 \in P
      BY <2>3
    <2>5. Carries(Hop(Master)', Counts, P, Counts)
      BY <1>3, <1>5, <2>4
    <2>6. AloneAt(Master, Counts, {Dist(Master)}, Counts)'
      BY <1>5, <2>4, <2>5 DEF AloneAt, Counts
    <2> QED  BY <1>5, <2>1, <2>2, <2>3, <2>6 DEF Enumerating
  <1>7. Healthy' /\ FiredInOrder' /\ GosCounted'
    BY <1>2, <1>4, RingTypes DEF Healthy, FiredInOrder, GosCounted, BudgetKept
  <1>8. Numbers'
    BY <1>2, RingTypes DEF Numbers, Numbered
  <1>9. AcksCounted' /\ Unstreamed'
    <2>1. NoStream' <=> NoStream
      BY <1>4 DEF NoStream
    <2>2. AcksCounted'
      BY <1>2, <2>1, RingTypes DEF AcksCounted
    <2>3. Unstreamed'
      BY <1>2, <1>4, UnstreamedKept
    <2> QED  BY <2>2, <2>3
  <1> QED  BY <1>5, <1>6, <1>7, <1>8, <1>9 DEF Calm, Phases

\* The host reserves a path.
LEMMA ReserveStartCalm == ASSUME CalmHost, RingInv, ReserveStart PROVE Calm'
  <1>1. Resting /\ ~Ready
    BY QuietRests DEF CalmHost, ReserveStart, Command
  <1>2. /\ UNCHANGED <<bwdSlot, fLink, bLink, frx, brx, relayQ, locked, busy, initOk>>
        /\ UNCHANGED <<boardIndex, boardId, totalIn, total, waiting, goSent, goTx, pendGroup,
                       fires, goLog, up, ackMask, ackCount>>
    BY DEF ReserveStart, links, layer2, ids, enumVars, trigVars, hist
  <1>3. PICK d \in HostDests :
          /\ QueueFwd(Master, Frame("RESERVE_REQ", 0, d, 0)) /\ resDest' = d
    <2>1. up[Master] /\ boardId[Master] = 0
      BY RingTypes DEF Healthy
    <2> QED  BY <2>1 DEF ReserveStart
  <1>4. PICK f \in ReqBeat : /\ f \in Requests("RESERVE_REQ", d) /\ f.pl \in Word
                             /\ QueueFwd(Master, f)
    <2>1. "RESERVE_REQ" \in FwdTypes /\ d \in 0..Bcast /\ 0 \in Word
      BY Widths, HostAssumption DEF FwdTypes
    <2> QED  BY <1>3, <2>1, MasterRequest DEF Requests
  <1>5. BudgetKept /\ budget'["stream"] = budget["stream"]
    BY CommandSpends DEF ReserveStart, Command
  <1>6. /\ NoAcks' /\ NoAssign' /\ Lawful' /\ AssignComes'
        /\ \A A, V : \A b \in Board : Answers(Back(b)', A, V)
        /\ \A H, P, D : f \in H /\ f.pl \in P => Carries(Hop(Master)', H, P, D)
        /\ \A b \in Board \ {Master} : Idle(Hop(b)')
    BY <1>1, <1>2, <1>4, CommandWires
  <1>7. LocksKept /\ Unstreamed'
    <2>1. LocksKept
      BY <1>2, <1>5 DEF LocksKept, NoStream
    <2>2. Unstreamed'
      BY <1>2, <1>5, UnstreamedKept
    <2> QED  BY <2>1, <2>2
  <1>8. /\ Healthy' /\ Numbers' /\ FiredInOrder' /\ GosCounted' /\ AcksCounted'
        /\ NoneOwes' /\ ~Ready'
    BY <1>1, <1>2, <1>5, <1>7, CountsStay DEF Resting
  <1>9. Reserving'
    <2>1. PICK H, D : H = Requests("RESERVE_REQ", d) /\ D = Passed(H)
      OBVIOUS
    <2>2. H = Requests("RESERVE_REQ", resDest') /\ D = Passed(H)
      BY <1>3, <2>1
    <2>3. AloneAt(Master, H, Word, D)'
      BY <1>4, <1>6, <2>1 DEF AloneAt
    <2>4. PICK V : V = Grants'
      OBVIOUS
    <2>5. Acks(ReserveAcks, Grants)'
      BY <1>6, <2>4 DEF Acks, ReserveAcks
    <2>6. Master \in Board /\ \A b \in Slaves : ~(Dist(b) <= Dist(Master))
      BY Ring DEF Slaves
    <2>7. LockedUpTo(Dist(Master))'
      BY <2>6 DEF LockedUpTo
    <2> QED  BY <1>6, <1>8, <2>2, <2>3, <2>5, <2>6, <2>7 DEF Reserving
  <1> QED  BY <1>6, <1>7, <1>8, <1>9 DEF Calm, Phases

\* The host asks one board how it is.
LEMMA DiagStartCalm == ASSUME CalmHost, RingInv, DiagStart PROVE Calm'
  <1>1. Resting /\ ~Ready
    BY QuietRests DEF CalmHost, DiagStart, Command
  <1>2. /\ UNCHANGED <<bwdSlot, fLink, bLink, frx, brx, relayQ, locked, busy, initOk>>
        /\ UNCHANGED <<boardIndex, boardId, totalIn, total, waiting, goSent, goTx, pendGroup,
                       fires, goLog, up, ackMask, ackCount>>
    BY DEF DiagStart, links, layer2, ids, enumVars, trigVars, hist
  <1>3. PICK d \in HostDests :
          /\ diagDest' = d
          /\ UNCHANGED fwdSlot \/ QueueFwd(Master, Frame("DIAG_REQ", 0, d, 0))
    <2>1. up[Master] /\ boardId[Master] = 0
      BY RingTypes DEF Healthy
    <2> QED  BY <2>1 DEF DiagStart
  <1>5. BudgetKept /\ budget'["stream"] = budget["stream"]
    BY CommandSpends DEF DiagStart, Command
  <1>7. LocksKept /\ Unstreamed'
    <2>1. LocksKept
      BY <1>2, <1>5 DEF LocksKept, NoStream
    <2>2. Unstreamed'
      BY <1>2, <1>5, UnstreamedKept
    <2> QED  BY <2>1, <2>2
  <1>8. /\ Healthy' /\ Numbers' /\ FiredInOrder' /\ GosCounted' /\ AcksCounted'
        /\ NoneOwes' /\ ~Ready'
    BY <1>1, <1>2, <1>5, <1>7, CountsStay DEF Resting
  <1>9. CASE UNCHANGED fwdSlot
    <2>1. HopsKept /\ (NoAcks => NoAcks') /\ (NoAssign => NoAssign') /\ Lawful' /\ AssignComes'
      BY <1>2, <1>9, StillWires
    <2>2. Resting'
      BY <1>1, <1>8, <2>1, FramesKept DEF Resting
    <2> QED  BY <1>7, <1>8, <2>1, <2>2 DEF Calm, Phases
  <1>10. CASE QueueFwd(Master, Frame("DIAG_REQ", 0, d, 0))
    <2>1. PICK f \in ReqBeat : /\ f \in Requests("DIAG_REQ", d) /\ f.pl \in Word
                               /\ QueueFwd(Master, f)
      <3>1. "DIAG_REQ" \in FwdTypes /\ d \in 0..Bcast /\ 0 \in Word
        BY Widths, HostAssumption DEF FwdTypes
      <3> QED  BY <1>10, <3>1, MasterRequest DEF Requests
    <2>2. /\ NoAcks' /\ NoAssign' /\ Lawful' /\ AssignComes'
          /\ \A A, V : \A b \in Board : Answers(Back(b)', A, V)
          /\ \A H, P, D : f \in H /\ f.pl \in P => Carries(Hop(Master)', H, P, D)
          /\ \A b \in Board \ {Master} : Idle(Hop(b)')
      BY <1>1, <1>2, <2>1, CommandWires
    <2>3. PICK H, D : H = Requests("DIAG_REQ", d) /\ D = Passed(H)
      OBVIOUS
    <2>4. H = Requests("DIAG_REQ", diagDest') /\ D = Passed(H)
      BY <1>3, <2>3
    <2>5. AloneAt(Master, H, Word, D)'
      BY <2>1, <2>2, <2>3 DEF AloneAt
    <2>6. PICK A : A = DiagAcks'
      OBVIOUS
    <2>7. Acks(DiagAcks, Healths)'
      BY <2>2, <2>6 DEF Acks, Healths
    <2>8. Diagnosing'
      BY <1>8, <2>2, <2>4, <2>5, <2>7, Ring DEF Diagnosing
    <2> QED  BY <1>7, <1>8, <2>2, <2>8 DEF Calm, Phases
  <1> QED  BY <1>3, <1>9, <1>10

\* A ring whose boards are counted at all counts all of them.
LEMMA AllCounted ==
    ASSUME CalmHost, RingInv
    PROVE  TotalEff \in {0, N} /\ TotalEff # 1
  BY BoardAssumption, RingTypes DEF TotalEff, CalmHost, Numbers

\* The host triggers: the pauses of an earlier trigger are forgotten.
LEMMA TrigStartCalm == ASSUME CalmHost, RingInv, TrigStart PROVE Calm'
  <1>1. Resting /\ ~Ready
    BY QuietRests DEF CalmHost, TrigStart, Command
  <1>2. PICK g \in GroupSel : TrigHandshake(g)
    <2>1. up[Master]
      BY RingTypes DEF Healthy
    <2> QED  BY <2>1, AllCounted DEF TrigStart, TrigBypass
  <1>3. /\ UNCHANGED <<bwdSlot, fLink, bLink, frx, brx, relayQ, busy, initOk>>
        /\ UNCHANGED <<boardIndex, boardId, totalIn, total, goTx, fires, goLog, up>>
        /\ ackMask' = {} /\ ackCount' = 0 /\ waiting' /\ pendGroup' = g /\ waiting' = TRUE
        /\ locked' = [locked EXCEPT ![Master] = TRUE]
    BY <1>2 DEF TrigStart, TrigHandshake, SetLock, links, ids, enumVars, hist
  <1>4. PICK f \in ReqBeat : f \in Pauses /\ f.pl \in Word /\ QueueFwd(Master, f)
    <2>1. "PAUSE_REQ" \in FwdTypes /\ Bcast \in 0..Bcast /\ 0 \in Word
      BY Widths DEF FwdTypes
    <2>2. QueueFwd(Master, Frame("PAUSE_REQ", 0, Bcast, 0))
      BY <1>2, RingTypes DEF TrigHandshake
    <2> QED  BY <2>1, <2>2, MasterRequest DEF Pauses, Broadcasts
  <1>5. /\ budget'["stream"] = budget["stream"] /\ budget'["down"] = budget["down"]
        /\ budget'["reset"] = budget["reset"] /\ budget'["trig"] = budget["trig"] - 1
        /\ budget["trig"] \in Nat /\ budget["trig"] > 0
    <2>1. "trig" \in HostOps /\ "stream" \in HostOps /\ "down" \in HostOps /\ "reset" \in HostOps
      BY DEF HostOps
    <2>2. Spend("trig")
      BY DEF TrigStart, Command
    <2> QED  BY <2>1, <2>2, Spent, RingTypes
  <1>6. /\ NoAcks' /\ NoAssign' /\ Lawful' /\ AssignComes'
        /\ \A A, V : \A b \in Board : Answers(Back(b)', A, V)
        /\ \A H, P, D : f \in H /\ f.pl \in P => Carries(Hop(Master)', H, P, D)
        /\ \A b \in Board \ {Master} : Idle(Hop(b)')
    BY <1>1, <1>3, <1>4, CommandWires
  <1>7. Unstreamed'
    BY <1>3, <1>5, UnstreamedKept
  <1>8. Healthy' /\ Numbers' /\ FiredInOrder' /\ NoneOwes'
    <2>1. Healthy' /\ FiredInOrder'
      BY <1>3, <1>5, RingTypes DEF Healthy, FiredInOrder
    <2>2. Numbers'
      BY <1>3, RingTypes DEF Numbers, Numbered
    <2>3. NoneOwes'
      BY <1>1, <1>3 DEF Resting, NoneOwes, Owes
    <2> QED  BY <2>1, <2>2, <2>3
  <1>9. GosCounted'
    <2>1. Len(goLog) \in Nat /\ Budget["trig"] \in Nat
      BY RingTypes, LenProperties, HostAssumption DEF TypeOK, HistTypes, HostOps
    <2>2. Len(goLog) + budget["trig"] <= Budget["trig"]
      <3>1. PICK w \in Nat : /\ w = IF waiting THEN 1 ELSE 0
                             /\ Len(goLog) + budget["trig"] + w <= Budget["trig"]
        BY RingTypes DEF GosCounted
      <3> QED  BY <1>5, <2>1, <3>1
    <2>3. Len(goLog) + (budget["trig"] - 1) + 1 <= Budget["trig"]
      BY <1>5, <2>1, <2>2
    <2>4. ~goTx'
      BY <1>8 DEF NoneOwes
    <2> QED  BY <1>3, <1>5, <2>3, <2>4 DEF GosCounted
  <1>10. AcksCounted'
    <2>1. locked'[Master] /\ Cardinality({}) = 0
      BY <1>3, RingTypes, FS_EmptySet DEF TypeOK, Layer2Types
    <2> QED  BY <1>3, <2>1 DEF AcksCounted
  <1>11. Pausing'
    <2>1. AloneAt(Master, Pauses, Word, Pauses)'
      BY <1>4, <1>6 DEF AloneAt, Pauses, Broadcasts
    <2>2. Master \in Board /\ \A b \in Slaves : ~(Dist(b) <= Dist(Master))
      BY Ring DEF Slaves
    <2>3. PICK A, V : A = PauseAcks' /\ V = IndicesUpTo(Dist(Master))'
      OBVIOUS
    <2>4. Acks(PauseAcks, IndicesUpTo(Dist(Master)))'
      BY <1>6, <2>3 DEF Acks
    <2>5. AckedUpTo(Dist(Master))'
      BY <1>3, <2>2, <2>4 DEF AckedUpTo, LockedUpTo
    <2> QED  BY <1>3, <1>6, <1>8, <2>1, <2>2, <2>5 DEF Pausing
  <1> QED  BY <1>6, <1>7, <1>8, <1>9, <1>10, <1>11 DEF Calm, Phases

\* The host gives out the ids.
LEMMA AssignCalm == ASSUME CalmHost, RingInv, Assign PROVE Calm'
  <1>1. Resting /\ ~Ready
    BY QuietRests DEF CalmHost, Assign, Command
  <1>2. total = N /\ Numbered /\ N \in Word /\ N \in 2..16
    <2>1. total = N /\ Numbered
      BY RingTypes DEF Assign, Numbers
    <2> QED  BY <2>1, BoardAssumption DEF Word
  <1>3. PICK f : f = Frame("BOARD_ID_ASSIGN", 0, Bcast, N)
    OBVIOUS
  <1>4. /\ UNCHANGED <<fwdSlot, bwdSlot, bLink, frx, brx, relayQ, locked, busy, initOk>>
        /\ UNCHANGED <<boardIndex, total, waiting, goSent, goTx, pendGroup,
                       fires, goLog, up, ackMask, ackCount, resDest, diagDest>>
        /\ boardId' = boardId
        /\ totalIn' = [totalIn EXCEPT ![Master] = N]
        /\ fLink' = [fLink EXCEPT ![Master] = Append(@, f)]
    <2>1. /\ UNCHANGED <<fwdSlot, bwdSlot, bLink, frx, brx, relayQ, locked, busy, initOk>>
          /\ UNCHANGED <<total, waiting, goSent, goTx, pendGroup,
                         fires, goLog, up, ackMask, ackCount, resDest, diagDest>>
          /\ TakeId(Master, total)
          /\ fLink' = [fLink EXCEPT ![Master] =
                         Append(@, Frame("BOARD_ID_ASSIGN", boardId[Master], Bcast, total))]
      BY DEF Assign, layer2, masterVars, enumVars, trigVars, resVars, diagVars, hist
    <2>2. boardId[Master] = 0 /\ boardIndex[Master] = 0
      BY RingTypes
    <2>3. boardId' = boardId
      BY <2>1, <2>2, RingTypes DEF TakeId, TypeOK, IdTypes
    <2> QED  BY <1>2, <1>3, <2>1, <2>2, <2>3 DEF TakeId
  <1>5. f \in LawfulBeat /\ f \in Beat /\ f.type = "BOARD_ID_ASSIGN" /\ f.type \in DataTypes
    <2>1. 0 \in Id /\ Bcast \in 0..Bcast
      BY Widths
    <2>2. "BOARD_ID_ASSIGN" \in FwdTypes \cup BwdTypes \cup DataTypes \cup {"PAYLOAD", "NONE"}
          /\ "BOARD_ID_ASSIGN" \in DataTypes
      BY DEF DataTypes
    <2>3. f \in Beat
      BY <1>2, <1>3, <2>1, <2>2, FrameInBeat
    <2>4. f.type = "BOARD_ID_ASSIGN" /\ f.src = 0 /\ f.dest = Bcast /\ f.pl = N
      BY <1>3 DEF Frame
    <2> QED  BY <2>2, <2>3, <2>4 DEF LawfulBeat
  <1>6. \A t : \A c \in Board : Holds(fLink'[c], t) <=> Holds(fLink[c], t) \/ (c = Master /\ f.type = t)
    BY <1>4, <1>5, SendHolds, RingTypes
  <1>7. BudgetKept /\ budget'["stream"] = budget["stream"]
    BY CommandSpends DEF Assign, Command
  <1>8. Lawful'
    <2>1. fLink' \in [Board -> Seq(LawfulBeat)]
      BY <1>4, <1>5, SendLawful, RingTypes
    <2> QED  BY <1>4, <2>1, RingTypes DEF Lawful, fwdSlot
  <1>9. Unstreamed'
    BY <1>4, <1>5, <1>6, <1>7, UnstreamedKept
  <1>10. AssignComes'
    <2>1. AssignOn(Master)'
      BY <1>5, <1>6, RingTypes DEF AssignOn
    <2>2. \A c \in Slaves : Dist(Master) < Dist(c)
      BY Ring DEF Slaves
    <2> QED  BY <2>1, <2>2, RingTypes DEF AssignComes
  <1>11. /\ Healthy' /\ FiredInOrder' /\ GosCounted' /\ AcksCounted' /\ NoneOwes' /\ ~Ready'
    <2>1. Healthy' /\ FiredInOrder' /\ GosCounted'
      BY <1>4, <1>7, RingTypes DEF Healthy, FiredInOrder, GosCounted, BudgetKept
    <2>2. AcksCounted'
      BY <1>4, <1>7, RingTypes DEF AcksCounted, NoStream
    <2>3. NoneOwes' /\ ~Ready'
      BY <1>1, <1>4 DEF Resting, NoneOwes, Owes, Ready, TotalEff
    <2> QED  BY <2>1, <2>2, <2>3
  <1>12. Numbers' /\ Numbered'
    <2>1. \A b \in Board : totalIn'[b] = IF b = Master THEN N ELSE totalIn[b]
      BY <1>4, RingTypes DEF TypeOK, IdTypes
    <2> QED  BY <1>2, <1>4, <2>1, RingTypes DEF Numbers, Numbered
  <1>13. Assigning'
    <2>1. ~ftxBeat1[Master]
      BY <1>1, HopParts, RingTypes DEF Resting, Empty, Idle
    <2>2. HopsKept
      BY <1>4, <1>5, <2>1, DataHops, RingTypes
    <2>3. Empty'
      BY <1>1, <2>2, FramesKept DEF Resting
    <2>4. NoAcks'
      BY <1>1, <1>4, BackwardKept, BacksSame, AcksKept DEF Resting
    <2> QED  BY <1>11, <1>12, <2>3, <2>4 DEF Assigning
  <1> QED  BY <1>8, <1>9, <1>10, <1>11, <1>12, <1>13 DEF Calm, Phases

-----------------------------------------------------------------------------
(* The GO.                                                                 *)

\* All ACKs are in: every other board has been counted, once.
LEMMA AllAcked ==
    ASSUME CalmHost, RingInv, GoReady
    PROVE  /\ waiting /\ TotalEff = N /\ \A b \in Slaves : Dist(b) \in ackMask
           /\ Resting \/ Pausing
  <1>1. waiting /\ TotalEff = N /\ ackCount = N - 1 /\ Ready
    <2>1. waiting /\ TotalEff = N
      BY AllCounted DEF GoReady
    <2> QED  BY <2>1 DEF GoReady, Ready
  <1>2. Resting \/ Pausing
    BY <1>1, RingTypes DEF Phases, Enumerating, Assigning, Going, Gone, Reserving, Diagnosing
  <1>3. PICK n \in Nat : n = N - 1 /\ n >= 1
    BY BoardAssumption
  <1>4. ackMask \subseteq 1..n
    <2>1. \A b \in Slaves : Dist(b) \in 1..n
      BY <1>3, Ids, BoardAssumption DEF Slaves
    <2>2. ackMask \subseteq {Dist(b) : b \in Slaves}
      BY <1>1, RingTypes DEF AcksCounted
    <2> QED  BY <2>1, <2>2
  <1>5. Cardinality(ackMask) = n /\ IsFiniteSet(1..n) /\ Cardinality(1..n) = n
    <2>1. Cardinality(ackMask) = n
      BY <1>1, <1>3, RingTypes DEF AcksCounted
    <2>2. PICK a \in Int : a = 1
      OBVIOUS
    <2>3. IsFiniteSet(a..n) /\ Cardinality(a..n) = IF a > n THEN 0 ELSE n - a + 1
      BY FS_Interval
    <2> QED  BY <1>3, <2>1, <2>2, <2>3
  <1>6. ackMask = 1..n
    BY <1>4, <1>5, FS_Subset
  <1>7. \A b \in Slaves : Dist(b) \in ackMask
    BY <1>3, <1>6, Ids DEF Slaves
  <1> QED  BY <1>1, <1>2, <1>7

\* The PAUSE_REQ has been everywhere: only the last hop may still hold its tail.
LEMMA PauseAround ==
    ASSUME CalmHost, RingInv, GoReady
    PROVE  /\ \A b \in Board \ {LastBoard} : Idle(Hop(b))
           /\ Ends(Hop(LastBoard), Pauses)
           /\ Acks(AnyPauseAck, Word) /\ NoAssign /\ NoneOwes
  <1>1. /\ waiting /\ \A b \in Slaves : Dist(b) \in ackMask
        /\ Resting \/ Pausing
    BY AllAcked
  <1>2. /\ LastBoard \in Board /\ LastBoard \in Slaves /\ Dist(LastBoard) = N - 1
        /\ \A b \in Board : Dist(b) \in 0..N-1 /\ (Dist(b) = N - 1 => b = LastBoard)
    BY Ring DEF Slaves
  <1>3. Hop(LastBoard).link \in Seq(Beat)
    BY <1>2, HopParts, HopTypes, RingTypes
  <1>4. CASE Resting
    <2>1. Ends(Hop(LastBoard), Pauses)
      BY <1>2, <1>3, <1>4, HopEnds DEF Resting, Empty
    <2>2. Acks(AnyPauseAck, Word)
      BY <1>4, NoAnswers DEF Resting, NoAcks, Acks
    <2> QED  BY <1>4, <2>1, <2>2 DEF Resting, Empty
  <1>5. CASE Pausing
    <2>1. \A n : AckedUpTo(n) => Acks(AnyPauseAck, Word)
      <3>1. PauseAcks \subseteq AnyPauseAck
        BY DEF PauseAcks, AnyPauseAck
      <3>2. \A n : IndicesUpTo(n) \subseteq Word
        <4>1. \A b \in Board : boardIndex[b] \in 0..16
          BY HopTypes, RingTypes
        <4> QED  BY <4>1 DEF IndicesUpTo, Word, Slaves
      <3> QED  BY <3>1, <3>2, WiderAnswers DEF AckedUpTo, Acks
    <2>2. CASE Empty /\ \E n \in 0..N-1 : AckedUpTo(n)
      <3>1. Ends(Hop(LastBoard), Pauses)
        BY <1>2, <1>3, <2>2, HopEnds DEF Empty
      <3> QED  BY <1>5, <2>1, <2>2, <3>1 DEF Pausing, Empty
    <2>3. ASSUME NEW s \in Board, AloneAt(s, Pauses, Word, Pauses), AckedUpTo(Dist(s))
          PROVE  /\ \A b \in Board \ {LastBoard} : Idle(Hop(b))
                 /\ Ends(Hop(LastBoard), Pauses)
                 /\ Acks(AnyPauseAck, Word)
      <3>1. N - 1 <= Dist(s)
        BY <1>1, <1>2, <2>3 DEF AckedUpTo
      <3>2. s = LastBoard
        <4>1. Dist(s) \in 0..N-1 /\ N \in Nat
          BY <1>2, BoardAssumption
        <4> QED  BY <1>2, <3>1, <4>1
      <3>3. Ends(Hop(LastBoard), Pauses)
        BY <1>3, <2>3, <3>2, HopEnds DEF AloneAt
      <3> QED  BY <2>1, <2>3, <3>2, <3>3 DEF AloneAt
    <2> QED  BY <1>5, <2>2, <2>3 DEF Pausing
  <1> QED  BY <1>1, <1>4, <1>5

\* A GO decided: every board owes a fire.
LEMMA GoOwes ==
    ASSUME TypeOK, FiredInOrder, NoneOwes, NEW g \in 0..15,
           goLog' = Append(goLog, g), UNCHANGED fires
    PROVE  /\ FiredInOrder' /\ \A b \in Board : Owes(b)'
           /\ goLog' # <<>> /\ goLog'[Len(goLog')] = g /\ Len(goLog') = Len(goLog) + 1
           /\ Len(goLog) \in Nat
  <1>1. goLog \in Seq(0..15) /\ \A b \in Board : fires[b] \in Seq(0..15)
    BY DEF TypeOK, HistTypes
  <1>2. PICK m \in Nat : m = Len(goLog)
    BY <1>1, LenProperties
  <1>3. /\ goLog' \in Seq(0..15) /\ Len(goLog') = m + 1 /\ goLog'[m + 1] = g /\ goLog' # <<>>
        /\ \A i \in 1..m : goLog'[i] = goLog[i]
    BY <1>1, <1>2, AppendProperties
  <1>4. ASSUME NEW b \in Board
        PROVE  /\ IsPrefixOf(fires'[b], goLog') /\ Len(goLog') <= Len(fires'[b]) + 1
               /\ Len(fires'[b]) < Len(goLog')
    <2>1. PICK n \in Nat : n = Len(fires[b])
      BY <1>1, LenProperties
    <2>2. n = m /\ \A i \in 1..n : fires[b][i] = goLog[i]
      <3>1. ~(n < m) /\ n <= m
        BY <1>2, <2>1 DEF NoneOwes, Owes, FiredInOrder, IsPrefixOf
      <3> QED  BY <2>1, <3>1 DEF FiredInOrder, IsPrefixOf
    <2> QED  BY <1>2, <1>3, <2>1, <2>2 DEF IsPrefixOf
  <1> QED  BY <1>2, <1>3, <1>4 DEF FiredInOrder, Owes

\* The last ACK is in and the GO is queued.
LEMMA SendGoCalm == ASSUME CalmHost, RingInv, SendGo PROVE Calm'
  <1>1. /\ UNCHANGED <<bwdSlot, fLink, bLink, frx, brx, relayQ, busy, initOk, budget>>
        /\ UNCHANGED <<boardIndex, boardId, totalIn, total, fires, up, pendGroup>>
        /\ waiting' = FALSE /\ goTx' = TRUE /\ goLog' = Append(goLog, pendGroup)
        /\ QueueFwd(Master, Frame("GO", 0, Bcast, pendGroup)) /\ GoReady
    BY RingTypes DEF SendGo, SetLock, links, ids, enumVars
  <1>2. /\ \A b \in Board \ {LastBoard} : Idle(Hop(b))
        /\ Ends(Hop(LastBoard), Pauses)
        /\ Acks(AnyPauseAck, Word) /\ NoAssign /\ NoneOwes /\ waiting
    BY <1>1, PauseAround, AllAcked
  <1>3. pendGroup \in GroupSel /\ pendGroup \in 0..15 /\ pendGroup \in Word
    <2>1. pendGroup \in GroupSel
      BY <1>2, RingTypes DEF GosCounted
    <2>2. pendGroup \in 0..15
      BY <2>1, HostAssumption
    <2> QED  BY <2>1, <2>2 DEF Word
  <1>4. /\ FiredInOrder' /\ \A b \in Board : Owes(b)'
        /\ goLog' # <<>> /\ goLog'[Len(goLog')] = pendGroup /\ Len(goLog') = Len(goLog) + 1
        /\ Len(goLog) \in Nat
    BY <1>1, <1>2, <1>3, GoOwes, RingTypes
  <1>5. PICK f \in ReqBeat : f \in Gos /\ f.pl = pendGroup /\ QueueFwd(Master, f)
    <2>1. "GO" \in FwdTypes /\ Bcast \in 0..Bcast
      BY Widths DEF FwdTypes
    <2> QED  BY <1>1, <1>3, <2>1, MasterRequest DEF Gos, Broadcasts
  <1>6. NoAssign' /\ AssignComes' /\ Unstreamed' /\ Lawful'
    <2>1. \A b \in Board : AssignOn(b)' <=> AssignOn(b)
      BY <1>1 DEF AssignOn
    <2>2. NoAssign' /\ AssignComes'
      BY <1>1, <1>2, <2>1, AssignComesKept, RingTypes DEF NoAssign
    <2>3. Unstreamed'
      BY <1>1, UnstreamedKept
    <2>4. Lawful'
      BY <1>1, <1>5, Ring, QueueLawful, LawfulKept, RingTypes DEF Lawful
    <2> QED  BY <2>2, <2>3, <2>4
  <1>7. Healthy' /\ Numbers'
    BY <1>1, RingTypes DEF Healthy, Numbers, Numbered
  <1>8. GosCounted'
    <2>1. budget["trig"] \in Nat /\ Budget["trig"] \in Nat
      BY RingTypes, HostAssumption DEF TypeOK, HostOps
    <2>2. Len(goLog) + budget["trig"] + 1 <= Budget["trig"]
      BY <1>2, RingTypes DEF GosCounted
    <2>3. Len(goLog) + 1 + budget["trig"] + 0 <= Budget["trig"]
      BY <1>4, <2>1, <2>2
    <2> QED  BY <1>1, <1>3, <1>4, <2>3 DEF GosCounted
  <1>9. AcksCounted'
    BY <1>1 DEF AcksCounted
  <1>10. Going'
    <2>1. /\ Master \in Board /\ LastBoard \in Board /\ LastBoard # Master
          /\ \A b \in Slaves : Dist(b) > Dist(Master)
      BY Ring DEF Slaves
    <2>2. /\ \A b \in Board : b # Master => Same(Hop(b), Hop(b)')
          /\ \A H, P, D : f \in H /\ f.pl \in P /\ Idle(Hop(Master)) => Carries(Hop(Master)', H, P, D)
      BY <1>1, <1>5, <2>1, QueueHops, RingTypes
    <2>3. PICK P : P = {goLog'[Len(goLog')]}
      OBVIOUS
    <2>4. f.pl \in P
      BY <1>4, <1>5, <2>3
    <2>5. Carries(Hop(Master)', Gos, P, Gos)
      BY <1>2, <1>5, <2>1, <2>2, <2>4
    <2>6. \A b \in Board \ {Master, LastBoard} : Idle(Hop(b)')
      BY <1>2, <2>2, SameHop DEF HopKept
    <2>7. Ends(Hop(LastBoard)', Pauses)
      BY <1>2, <2>1, <2>2, SameHop, Kinds DEF HopKept
    <2>8. Acks(AnyPauseAck, Word)'
      <3>1. AcksStay
        BY <1>1, BackwardKept, BacksSame, AcksKept
      <3> QED  BY <1>2, <3>1, Kinds DEF AcksStay, Acks, AnyPauseAck
    <2>9. \A b \in Slaves : Owes(b)' <=> Dist(b) > Dist(Master)
      BY <1>4, <2>1 DEF Slaves
    <2> QED  BY <1>1, <1>4, <1>6, <2>1, <2>3, <2>5, <2>6, <2>7, <2>8, <2>9
             DEF Going, Gos, Pauses, Broadcasts
  <1> QED  BY <1>4, <1>6, <1>7, <1>8, <1>9, <1>10 DEF Calm, Phases

-----------------------------------------------------------------------------
(* The invariant.                                                          *)

\* A calm ring has no faults left.
LEMMA NoFaults == RingInv => ~Fault
  <1>1. ASSUME RingInv, NEW b \in Board
        PROVE  ~LinkDown(b) /\ ~LinkUp(b) /\ ~CtrlReset(b)
    <2>1. up[b] /\ budget["down"] = 0 /\ budget["reset"] = 0
      BY <1>1, RingTypes DEF Healthy
    <2> QED  BY <2>1 DEF LinkDown, LinkUp, CtrlReset, Command, Spend
  <1> QED  BY <1>1 DEF Fault

\* Every step of the host.
LEMMA HostCalm == ASSUME CalmHost, RingInv, Host PROVE Calm'
  BY InitStartCalm, TrigStartCalm, ReserveStartCalm, DiagStartCalm, AssignCalm, StreamStartCalm
     DEF Host

\* Every step of a board.
LEMMA BoardCalm ==
    ASSUME CalmHost, RingInv, NEW b \in Board, Tx(b) \/ TxBack(b) \/ Rx(b) \/ RxBack(b)
    PROVE  Calm'
  <1>1. CASE Tx(b)
    BY <1>1, FwdTxBeat0Calm, FwdTxBeat1Calm, RelayTxCalm, StreamEndCalm DEF Tx
  <1>2. CASE TxBack(b)
    BY <1>2, BwdTxCalm DEF TxBack
  <1>3. CASE Rx(b)
    BY <1>3, RxHeaderCalm, RxEnumCalm, RxPauseReqCalm, RxGoCalm, RxReserveReqCalm, RxDiagReqCalm,
       RxDataLastCalm, RxAssignCalm DEF Rx
  <1>4. CASE RxBack(b)
    BY <1>4, RxBackHeaderCalm, RxBackRelayCalm, RxPauseAckCalm, RxReserveAckCalm, RxDiagAckCalm
       DEF RxBack
  <1> QED  BY <1>1, <1>2, <1>3, <1>4

\* No step at all.
LEMMA StutterCalm == ASSUME RingInv, UNCHANGED vars PROVE Calm'
  <1>1. /\ UNCHANGED <<fwdSlot, bwdSlot, fLink, bLink, frx, brx, locked, relayQ>>
        /\ UNCHANGED <<totalIn, budget, busy, initOk>> /\ Undisturbed
    BY DEF vars, Undisturbed, links, layer2, ids, masterVars, enumVars, trigVars, resVars,
           diagVars, hist
  <1>2. Phases'
    BY <1>1, StillWires, PhaseKept, RingTypes
  <1> QED  BY <1>1, <1>2, StillWires, CountsKept DEF Calm

\* Every step of a ring without faults.
LEMMA NextCalm == ASSUME CalmHost, RingInv, [Next]_vars PROVE RingInv'
  <1>1. FireInv'
    BY NextFires DEF RingInv
  <1>2. Calm'
    <2>1. CASE Timeout
      BY <2>1, EnumTimeoutCalm, ReserveTimeoutCalm, DiagTimeoutCalm DEF Timeout
    <2>2. CASE UNCHANGED vars
      BY <2>2, StutterCalm
    <2>3. CASE Fault
      BY <2>3, NoFaults
    <2> QED  BY <2>1, <2>2, <2>3, HostCalm, SendGoCalm, BoardCalm DEF Next
  <1> QED  BY <1>1, <1>2 DEF RingInv

\* The ring at power-up.
LEMMA InitCalm == ASSUME CalmHost, Init PROVE RingInv
  <1>1. FireInv /\ TypeOK
    BY InitFires, InitTypes
  <1>2. Healthy
    BY DEF Init, Healthy, CalmHost
  <1>3. Numbers
    BY DEF Init, Numbers, Slaves
  <1>4. Lawful
    <2>1. NoFrame \in ReqBeat
      BY NoFrameInBeat, TypeOfFrame, Widths DEF NoFrame, ReqBeat
    <2>2. <<>> \in Seq(LawfulBeat) /\ <<>> \in Seq(LawfulData)
      BY EmptySeq
    <2> QED  BY <2>1, <2>2 DEF Init, Lawful
  <1>5. \A b \in Board : \A t : ~Holds(fLink[b], t) /\ ~Holds(relayQ[b], t)
    BY HoldsNothing DEF Init
  <1>6. AssignComes /\ NoAssign
    BY <1>5, Ring DEF Init, AssignComes, NoAssign, AssignOn
  <1>7. Unstreamed
    <2>1. Budget["stream"] \in Nat
      BY HostAssumption DEF HostOps
    <2> QED  BY <1>5, <2>1 DEF Init, Unstreamed
  <1>8. FiredInOrder /\ NoneOwes
    BY EmptySeq, LenProperties DEF Init, FiredInOrder, NoneOwes, Owes, IsPrefixOf
  <1>9. GosCounted /\ AcksCounted
    <2>1. Budget["trig"] \in Nat /\ Len(goLog) = 0
      BY HostAssumption, EmptySeq DEF Init, HostOps
    <2> QED  BY <2>1 DEF Init, GosCounted, AcksCounted
  <1>10. Empty
    <2>1. OnlyData(<<>>, {})
      BY BeatSeqs DEF OnlyData
    <2> QED  BY <2>1, Neighbours DEF Init, Empty, Idle, Hop
  <1>11. NoAcks
    BY Neighbours DEF Init, NoAcks, BackIdle, Back
  <1> QED  BY <1>1, <1>2, <1>3, <1>4, <1>6, <1>7, <1>8, <1>9, <1>10, <1>11
           DEF RingInv, Calm, Phases, Resting

\* A ring without faults and with a paced host works in phases: at any time one control frame
\* goes round, and it has done on its way what the receivers of spi_bcast_ctrl.v say it does.
THEOREM RingStaysCalm == CalmHost /\ Spec => []Calm
  <1>1. CalmHost /\ Init => RingInv
    BY InitCalm
  <1>2. CalmHost /\ RingInv /\ [Next]_vars => RingInv'
    BY NextCalm
  <1>3. RingInv => Calm
    BY DEF RingInv
  <1>4. CASE CalmHost
    <2>1. Init => RingInv
      BY <1>1, <1>4
    <2>2. RingInv /\ [Next]_vars => RingInv'
      BY <1>2, <1>4
    <2> QED  BY <1>3, <2>1, <2>2, PTL DEF Spec
  <1> QED  BY <1>4

-----------------------------------------------------------------------------
(* What a calm ring promises.                                              *)

\* Only SendGo decides a GO, and only the end of the master's own frame and the
\* arrival of a GO fire anything.
LEMMA HistorySteps ==
    ASSUME Next, ~Fault
    PROVE  /\ UNCHANGED goLog \/ SendGo
           /\ UNCHANGED fires \/ \E b \in Board : RxGo(b) \/ FwdTxBeat1(b)
  <1>1. CASE Host
    BY <1>1 DEF Host, InitStart, TrigStart, TrigBypass, TrigHandshake, ReserveStart, DiagStart,
       Assign, StreamStart, hist
  <1>2. CASE Timeout
    BY <1>2 DEF Timeout, EnumTimeout, ReserveTimeout, DiagTimeout, hist
  <1>3. CASE SendGo
    BY <1>3 DEF SendGo
  <1>4. ASSUME NEW b \in Board, Tx(b) \/ TxBack(b)
        PROVE  UNCHANGED goLog /\ (UNCHANGED fires \/ FwdTxBeat1(b))
    BY <1>4 DEF Tx, TxBack, FwdTxBeat0, FwdTxBeat1, RelayTx, StreamEnd, BwdTxBeat0, BwdTxBeat1, hist
  <1>5. ASSUME NEW b \in Board, Rx(b)
        PROVE  UNCHANGED goLog /\ (UNCHANGED fires \/ RxGo(b))
    BY <1>5 DEF Rx, RxHeader, RxEnum, RxPauseReq, RxGo, RxReserveReq, RxDiagReq, RxDataLast,
       RxAssign, hist
  <1>6. ASSUME NEW b \in Board, RxBack(b) PROVE UNCHANGED <<goLog, fires>>
    BY <1>6 DEF RxBack, RxBackHeader, RxBackRelay, RxPauseAck, RxReserveAck, RxDiagAck, hist
  <1> QED  BY <1>1, <1>2, <1>3, <1>4, <1>5, <1>6 DEF Next

\* The step of a board that fires: it fires the last GO, which it owes, while
\* that GO is on its way.
LEMMA FireSteps ==
    ASSUME CalmHost, RingInv, Next, NEW b \in Board, fires'[b] # fires[b]
    PROVE  /\ Going /\ UNCHANGED goLog
           /\ RxGo(b) \/ (b = Master /\ UNCHANGED locked)
           /\ fires' = [fires EXCEPT ![b] = Append(@, goLog[Len(goLog)])]
           /\ Owes(b)
  <1>1. PICK c \in Board : RxGo(c) \/ FwdTxBeat1(c)
    BY HistorySteps, NoFaults
  <1>2. CASE RxGo(c)
    <2>1. Arrives(c, "GO") /\ "GO" \in FwdTypes
      <3>1. UNCHANGED fwdSlot \/ \E f : QueueFwd(c, f)
        BY <1>2 DEF RxGo
      <3> QED  BY <1>2, <3>1 DEF RxGo, Arrives, FwdTypes
    <2>2. ~RingReturn(c) /\ UNCHANGED goLog
      BY <1>2 DEF RxGo
    <2>3. Going \/ Gone
      BY <2>1, Arrival, RingTypes DEF Phases
    <2>4. Going
      <3>1. CASE Gone
        <4>1. c = Master /\ Ends(Hop(LastBoard), Pauses \cup Gos) /\ Pred(Master) = LastBoard
          BY <2>1, <3>1, Arrival DEF Gone, LastBoard
        <4>2. frx[c] \in Pauses \cup Gos
          BY <2>1, <4>1, RxPayloadHops, RingTypes DEF Arrives
        <4> QED  BY <2>2, <4>1, <4>2, RingTypes DEF RingReturn, Pauses, Gos, Broadcasts
      <3> QED  BY <2>3, <3>1
    <2>5. c # Master /\ fires' = [fires EXCEPT ![c] = Append(@, goLog[Len(goLog)])]
      BY <1>2, <2>4, RxGoFires
    <2>6. b = c
      BY <2>5, RingTypes DEF TypeOK, HistTypes
    <2>7. Owes(c)
      <3>1. PICK s \in Board : /\ Carries(Hop(s), Gos, {goLog[Len(goLog)]}, Gos)
                               /\ s # LastBoard
                               /\ \A d \in Board \ {s, LastBoard} : Idle(Hop(d))
                               /\ \A d \in Slaves : Owes(d) <=> Dist(d) > Dist(s)
        BY <2>4 DEF Going
      <3>2. Pred(c) \in Board /\ Pred(c) # LastBoard /\ Dist(c) = Dist(Pred(c)) + 1
            /\ Dist(Pred(c)) \in 0..N-1
        BY <2>5, Ids
      <3>3. ~Idle(Hop(Pred(c)))
        BY <2>1, RxPayloadHops, RingTypes DEF Arrives
      <3>4. s = Pred(c)
        BY <3>1, <3>2, <3>3
      <3> QED  BY <2>5, <3>1, <3>2, <3>4 DEF Slaves
    <2> QED  BY <1>2, <2>2, <2>4, <2>5, <2>6, <2>7
  <1>3. CASE FwdTxBeat1(c)
    <2>1. /\ c = Master /\ goTx /\ UNCHANGED <<goLog, locked>>
          /\ fires' = [fires EXCEPT ![Master] = Append(@, pendGroup)]
      BY <1>3 DEF FwdTxBeat1, MasterFires, layer2
    <2>2. Going
      BY <2>1, MasterOwes, RingTypes
    <2>3. pendGroup = goLog[Len(goLog)]
      BY <2>1, RingTypes DEF GosCounted
    <2>4. b = Master /\ Owes(Master)
      BY <2>1, <2>2, RingTypes DEF Going, TypeOK, HistTypes
    <2> QED  BY <2>1, <2>2, <2>3, <2>4
  <1> QED  BY <1>1, <1>2, <1>3

\* A successful enumeration (ENUM_COUNT back at the master before its timeout) has counted every
\* board and given each its place in the ring, for any number of boards.
THEOREM EnumerationCounts == CalmHost /\ Spec => []EnumCorrect
  <1>1. Calm => EnumCorrect
    BY DEF Calm, Numbers, Numbered, EnumCorrect, Slaves
  <1> QED  BY <1>1, RingStaysCalm, PTL

\* The fires of every board are the GOs the master decided, in that order, none twice and none
\* skipped, and no board is more than the last GO behind.
THEOREM FiresInOrder == CalmHost /\ Spec => []FiresFollowGo
  <1>1. Calm => FiresFollowGo
    BY DEF Calm, FiredInOrder, FiresFollowGo
  <1> QED  BY <1>1, RingStaysCalm, PTL

\* The boards fire in step: whatever two boards have fired, one is at most one fire ahead.
THEOREM FiresInStep == CalmHost /\ Spec => []Barrier!InStep
  <1>1. CalmHost /\ Init => RingInv
    BY InitCalm
  <1>2. CalmHost /\ RingInv /\ [Next]_vars => RingInv'
    BY NextCalm
  <1>3. RingInv => Barrier!InStep
    <2> SUFFICES ASSUME RingInv, NEW a \in Board, NEW b \in Board
                 PROVE  /\ Len(fires[a]) <= Len(fires[b]) + 1
                        /\ \A i \in 1..Len(fires[a]) :
                             i <= Len(fires[b]) => fires[a][i] = fires[b][i]
      BY DEF Barrier!InStep
    <2>1. PICK m \in Nat, n \in Nat, k \in Nat :
            m = Len(fires[a]) /\ n = Len(fires[b]) /\ k = Len(goLog)
      <3>1. fires[a] \in Seq(0..15) /\ fires[b] \in Seq(0..15) /\ goLog \in Seq(0..15)
        BY RingTypes DEF TypeOK, HistTypes
      <3> QED  BY <3>1, LenProperties
    <2>2. /\ m <= k /\ n <= k /\ k <= n + 1
          /\ \A i \in 1..m : fires[a][i] = goLog[i]
          /\ \A i \in 1..n : fires[b][i] = goLog[i]
      BY <2>1, RingTypes DEF FiredInOrder, IsPrefixOf
    <2> QED  BY <2>1, <2>2
  <1>4. CASE CalmHost
    <2>1. (Init => RingInv) /\ (RingInv /\ [Next]_vars => RingInv')
      BY <1>1, <1>2, <1>4
    <2> QED  BY <1>3, <2>1, PTL DEF Spec
  <1> QED  BY <1>4

\* The master decides a GO only when all boards hold back their data.
LEMMA GoLocks ==
    ASSUME CalmHost, RingInv, SendGo, NoStream
    PROVE  \A b \in Board : locked[b]
  <1>1. waiting /\ \A b \in Slaves : Dist(b) \in ackMask
    BY AllAcked DEF SendGo
  <1> QED  BY <1>1, RingTypes DEF AcksCounted, Slaves

\* The same for any step in which the log of GOs grows.
LEMMA GoPaused ==
    ASSUME CalmHost, RingInv, [Next]_vars,
           Len(goLog') > Len(goLog), budget["stream"] = Budget["stream"]
    PROVE  \A b \in Board : locked[b]
  <1>1. goLog' # goLog
    <2>1. Len(goLog) \in Nat
      BY RingTypes, LenProperties DEF TypeOK, HistTypes
    <2> QED  BY <2>1
  <1>2. Next
    BY <1>1 DEF vars, hist
  <1>3. SendGo
    BY <1>1, <1>2, HistorySteps, NoFaults
  <1> QED  BY <1>3, GoLocks DEF NoStream

\* As long as nobody streams, the master decides a GO (the last PAUSE_ACK counted) only when
\* every board of the ring holds back its data.
THEOREM GoAfterAllPaused == CalmHost /\ Spec => GoOnlyWhenAllPaused
  <1>1. CalmHost /\ Init => RingInv
    BY InitCalm
  <1>2. CalmHost /\ RingInv /\ [Next]_vars => RingInv'
    BY NextCalm
  <1>3. CalmHost /\ RingInv /\ [Next]_vars =>
          [Len(goLog') > Len(goLog) /\ budget["stream"] = Budget["stream"]
             => \A b \in Board : locked[b]]_vars
    BY GoPaused
  <1>4. CASE CalmHost
    <2>1. Init => RingInv
      BY <1>1, <1>4
    <2>2. RingInv /\ [Next]_vars => RingInv'
      BY <1>2, <1>4
    <2>3. RingInv /\ [Next]_vars =>
            [Len(goLog') > Len(goLog) /\ budget["stream"] = Budget["stream"]
               => \A b \in Board : locked[b]]_vars
      BY <1>3, <1>4
    <2> QED  BY <2>1, <2>2, <2>3, PTL DEF Spec, GoOnlyWhenAllPaused
  <1> QED  BY <1>4

\* In a ring whose master has its board count, a board that a GO has reached
\* knows its place and the length of the ring.
LEMMA FireAligned ==
    ASSUME CalmHost, RingInv, [Next]_vars, NEW b \in Board,
           Len(fires'[b]) > Len(fires[b]), totalIn[Master] # 0
    PROVE  Dist(b) + NativeHops(b) = N - 1
  <1>1. fires'[b] # fires[b]
    <2>1. Len(fires[b]) \in Nat
      BY RingTypes, LenProperties DEF TypeOK, HistTypes
    <2> QED  BY <2>1
  <1>2. Going
    <2>1. Next
      BY <1>1 DEF vars, hist
    <2> QED  BY <1>1, <2>1, FireSteps
  <1>3. totalIn[b] # 0
    BY <1>2, RingTypes DEF Going, NoAssign, AssignComes, Slaves
  <1>4. totalIn[b] = N /\ Numbered
    BY <1>3, RingTypes DEF Numbers
  <1>5. boardIndex[b] = Dist(b)
    BY <1>4, Ids, RingTypes DEF Numbered, Slaves
  <1>6. Dist(b) \in 0..N-1 /\ N \in Nat
    BY Ring, BoardAssumption
  <1> QED  BY <1>4, <1>5, <1>6 DEF NativeHops

\* The hops a GO travels to a board and the hops that board still waits in its delay compensation
\* add up to the same number on every board.
THEOREM FiresAligned == CalmHost /\ Spec => FireInstantsAligned
  <1>1. CalmHost /\ Init => RingInv
    BY InitCalm
  <1>2. CalmHost /\ RingInv /\ [Next]_vars => RingInv'
    BY NextCalm
  <1>3. CalmHost /\ RingInv /\ [Next]_vars =>
          [\A b \in Board : Len(fires'[b]) > Len(fires[b]) /\ totalIn[Master] # 0
             => Dist(b) + NativeHops(b) = N - 1]_vars
    BY FireAligned
  <1>4. CASE CalmHost
    <2>1. Init => RingInv
      BY <1>1, <1>4
    <2>2. RingInv /\ [Next]_vars => RingInv'
      BY <1>2, <1>4
    <2>3. RingInv /\ [Next]_vars =>
            [\A b \in Board : Len(fires'[b]) > Len(fires[b]) /\ totalIn[Master] # 0
               => Dist(b) + NativeHops(b) = N - 1]_vars
      BY <1>3, <1>4
    <2> QED  BY <2>1, <2>2, <2>3, PTL DEF Spec, FireInstantsAligned
  <1> QED  BY <1>4

\* Who ends a reservation.
LEMMA ReserveSteps ==
    ASSUME Next, ~Fault, resWait, ~resWait', resOk'
    PROVE  \E b \in Board : RxReserveAck(b)
  <1>1. ~Host
    BY DEF Host, InitStart, TrigStart, ReserveStart, DiagStart, Assign, StreamStart, masterVars,
       resVars
  <1>2. ~Timeout
    BY DEF Timeout, EnumTimeout, ReserveTimeout, DiagTimeout, resVars
  <1>3. ~SendGo
    BY DEF SendGo, resVars
  <1>4. ASSUME NEW b \in Board PROVE ~Tx(b) /\ ~TxBack(b)
    BY DEF Tx, TxBack, FwdTxBeat0, FwdTxBeat1, RelayTx, StreamEnd, BwdTxBeat0, BwdTxBeat1,
       masterVars, resVars
  <1>5. ASSUME NEW b \in Board PROVE ~Rx(b)
    BY DEF Rx, RxHeader, RxEnum, RxPauseReq, RxGo, RxReserveReq, RxDiagReq, RxDataLast,
       RxAssign, masterVars, resVars
  <1>6. ASSUME NEW b \in Board, RxBack(b) PROVE RxReserveAck(b)
    BY <1>6 DEF RxBack, RxBackHeader, RxBackRelay, RxPauseAck, RxReserveAck, RxDiagAck,
       masterVars, resVars
  <1> QED  BY <1>1, <1>2, <1>3, <1>4, <1>5, <1>6 DEF Next

\* A step that ends a RESERVE with a grant found the whole path locked.
LEMMA GrantLocks ==
    ASSUME CalmHost, RingInv, [Next]_vars, resWait, ~resWait', resOk',
           budget["stream"] = Budget["stream"],
           NEW c \in Board, 0 < Dist(c), Dist(c) <= resDest
    PROVE  locked[c]
  <1>1. Next
    BY DEF vars, masterVars, resVars
  <1>2. PICK b \in Board : RxReserveAck(b)
    BY <1>1, ReserveSteps, NoFaults
  <1>3. RxBackPayload(b) /\ UNCHANGED bwdSlot /\ brx[b].type = "RESERVE_ACK"
        /\ BitOn(BwdHead(b), 1)
    BY <1>2 DEF RxReserveAck
  <1>4. IsPayload(BwdHead(b), Grants)
    BY <1>3, AckArrives
  <1>5. PICK x \in {0, 1} : BwdHead(b).type = "PAYLOAD" /\ BwdHead(b).pl = x /\ x \in Grants
    BY <1>4 DEF IsPayload, Grants
  <1>6. x = 1
    BY <1>3, <1>5 DEF BitOn, Bits
  <1>7. LockedUpTo(resDest)
    BY <1>5, <1>6 DEF Grants
  <1>8. c \in Slaves
    BY Ring DEF Slaves
  <1> QED  BY <1>7, <1>8 DEF LockedUpTo, NoStream

\* A RESERVE the master is told was granted has locked every board up to the one it asked for.
THEOREM GrantsLockPath == CalmHost /\ Spec => ReservedPathLocked
  <1>1. CalmHost /\ Init => RingInv
    BY InitCalm
  <1>2. CalmHost /\ RingInv /\ [Next]_vars => RingInv'
    BY NextCalm
  <1>3. CalmHost /\ RingInv /\ [Next]_vars =>
          [resWait /\ ~resWait' /\ resOk' /\ budget["stream"] = Budget["stream"] =>
             \A b \in Board : 0 < Dist(b) /\ Dist(b) <= resDest => locked[b]]_vars
    BY GrantLocks
  <1>4. CASE CalmHost
    <2>1. Init => RingInv
      BY <1>1, <1>4
    <2>2. RingInv /\ [Next]_vars => RingInv'
      BY <1>2, <1>4
    <2>3. RingInv /\ [Next]_vars =>
            [resWait /\ ~resWait' /\ resOk' /\ budget["stream"] = Budget["stream"] =>
               \A b \in Board : 0 < Dist(b) /\ Dist(b) <= resDest => locked[b]]_vars
      BY <1>3, <1>4
    <2> QED  BY <2>1, <2>2, <2>3, PTL DEF Spec, ReservedPathLocked
  <1> QED  BY <1>4

\* Who ends a diagnosis with an answer.
LEMMA DiagSteps ==
    ASSUME TypeOK, Next, ~Fault, diagWait, ~diagWait', diagRes'.ok
    PROVE  \E b \in Board : RxDiagAck(b)
  <1>0. [diagRes EXCEPT !.ok = FALSE].ok = FALSE
    BY DEF TypeOK, DiagTypes
  <1>1. ~Host
    BY DEF Host, InitStart, TrigStart, ReserveStart, DiagStart, Assign, StreamStart, masterVars,
       diagVars
  <1>2. ~Timeout
    BY <1>0 DEF Timeout, EnumTimeout, ReserveTimeout, DiagTimeout, diagVars
  <1>3. ~SendGo
    BY DEF SendGo, diagVars
  <1>4. ASSUME NEW b \in Board PROVE ~Tx(b) /\ ~TxBack(b)
    BY DEF Tx, TxBack, FwdTxBeat0, FwdTxBeat1, RelayTx, StreamEnd, BwdTxBeat0, BwdTxBeat1,
       masterVars, diagVars
  <1>5. ASSUME NEW b \in Board PROVE ~Rx(b)
    BY <1>0 DEF Rx, RxHeader, RxEnum, RxPauseReq, RxGo, RxReserveReq, RxDiagReq, RxDataLast,
       RxAssign, masterVars, diagVars
  <1>6. ASSUME NEW b \in Board, RxBack(b) PROVE RxDiagAck(b)
    BY <1>6 DEF RxBack, RxBackHeader, RxBackRelay, RxPauseAck, RxReserveAck, RxDiagAck,
       masterVars, diagVars
  <1> QED  BY <1>1, <1>2, <1>3, <1>4, <1>5, <1>6 DEF Next

\* A step that ends a DIAG with an answer has it from the board asked, which is not blocked.
LEMMA DiagAnswered ==
    ASSUME CalmHost, RingInv, [Next]_vars, diagWait, ~diagWait', diagRes'.ok
    PROVE  ~diagRes'.blocked /\ diagRes'.from = diagDest
  <1>1. Next
    BY DEF vars, masterVars, diagVars
  <1>2. PICK b \in Board : RxDiagAck(b)
    BY <1>1, DiagSteps, NoFaults, RingTypes
  <1>3. RxBackPayload(b) /\ UNCHANGED bwdSlot /\ brx[b].type = "DIAG_ACK"
        /\ diagRes'.blocked = BitOn(BwdHead(b), 8) /\ diagRes'.from = brx[b].src
    BY <1>2 DEF RxDiagAck
  <1>4. IsPayload(BwdHead(b), Healths) /\ brx[b].src = diagDest
    BY <1>3, AckArrives
  <1>5. PICK x \in Nat : BwdHead(b).type = "PAYLOAD" /\ BwdHead(b).pl = x /\ x % 16 = 7
    BY <1>4 DEF IsPayload, Healths, Word
  <1>6. (x \div 8) % 2 # 1
    BY <1>5
  <1>7. ~BitOn(BwdHead(b), 8)
    BY <1>5, <1>6 DEF BitOn, Bits
  <1> QED  BY <1>3, <1>4, <1>7

\* An answer that ends the wait of a DIAG query comes from the board asked, and not from the first
\* board of the path that found itself blocked.
THEOREM DiagAnswersFromTarget == CalmHost /\ Spec => DiagAnswersQuery
  <1>1. CalmHost /\ Init => RingInv
    BY InitCalm
  <1>2. CalmHost /\ RingInv /\ [Next]_vars => RingInv'
    BY NextCalm
  <1>3. CalmHost /\ RingInv /\ [Next]_vars =>
          [diagWait /\ ~diagWait' /\ diagRes'.ok =>
             IF diagRes'.blocked
               THEN 0 < diagRes'.from /\ diagRes'.from < diagDest /\ ~diagRes'.up1
               ELSE diagRes'.from = diagDest]_vars
    BY DiagAnswered
  <1>4. CASE CalmHost
    <2>1. Init => RingInv
      BY <1>1, <1>4
    <2>2. RingInv /\ [Next]_vars => RingInv'
      BY <1>2, <1>4
    <2>3. RingInv /\ [Next]_vars =>
            [diagWait /\ ~diagWait' /\ diagRes'.ok =>
               IF diagRes'.blocked
                 THEN 0 < diagRes'.from /\ diagRes'.from < diagDest /\ ~diagRes'.up1
                 ELSE diagRes'.from = diagDest]_vars
      BY <1>3, <1>4
    <2> QED  BY <2>1, <2>2, <2>3, PTL DEF Spec, DiagAnswersQuery
  <1> QED  BY <1>4

-----------------------------------------------------------------------------
(* The ring implements the barrier.                                        *)

\* The boards that are locked, which is what the abstract barrier calls paused.
Paused == {b \in Board : locked[b]}

\* Without streams no data frame opens a lock.
LEMMA NoDataLast ==
    ASSUME RingInv, NoStream, NEW b \in Board PROVE ~RxDataLast(b)
  <1>1. SUFFICES ASSUME RxDataLast(b) PROVE FALSE
    OBVIOUS
  <1>2. PICK p \in Board : p = Pred(b) /\ fLink[p] \in Seq(Beat)
    BY Apart, HopTypes, RingTypes
  <1>3. fLink[p] # <<>> /\ Head(fLink[p]).type = "DATA_LAST"
    BY <1>1, <1>2 DEF RxDataLast, FwdHead
  <1>4. Holds(fLink[p], "DATA_LAST")
    BY <1>2, <1>3, HoldsTail
  <1> QED  BY <1>4, RingTypes DEF Unstreamed

\* The steps that touch neither lock nor history.
LEMMA BarrierIdle ==
    ASSUME RingInv, NoStream, Next, ~Fault
    PROVE  \/ UNCHANGED <<locked, goLog, fires>>
           \/ TrigStart \/ SendGo
           \/ \E b \in Board : RxPauseReq(b) \/ RxReserveReq(b) \/ RxGo(b) \/ FwdTxBeat1(b)
  <1>1. Host => UNCHANGED <<locked, goLog, fires>> \/ TrigStart
    BY DEF Host, InitStart, ReserveStart, DiagStart, Assign, StreamStart, hist, layer2
  <1>2. Timeout => UNCHANGED <<locked, goLog, fires>>
    BY DEF Timeout, EnumTimeout, ReserveTimeout, DiagTimeout, hist, layer2
  <1>3. ASSUME NEW b \in Board, Tx(b) \/ TxBack(b)
        PROVE  UNCHANGED <<locked, goLog, fires>> \/ FwdTxBeat1(b)
    BY <1>3 DEF Tx, TxBack, FwdTxBeat0, FwdTxBeat1, RelayTx, StreamEnd, BwdTxBeat0, BwdTxBeat1,
       hist, layer2
  <1>4. ASSUME NEW b \in Board, Rx(b)
        PROVE  UNCHANGED <<locked, goLog, fires>> \/ RxPauseReq(b) \/ RxReserveReq(b) \/ RxGo(b)
    BY <1>4, NoDataLast DEF Rx, RxHeader, RxEnum, RxDiagReq, RxAssign, hist, layer2
  <1>5. ASSUME NEW b \in Board, RxBack(b) PROVE UNCHANGED <<locked, goLog, fires>>
    BY <1>5 DEF RxBack, RxBackHeader, RxBackRelay, RxPauseAck, RxReserveAck, RxDiagAck, hist,
       layer2
  <1> QED  BY <1>1, <1>2, <1>3, <1>4, <1>5 DEF Next

\* Locking a board pauses it.
LEMMA LockPauses ==
    ASSUME TypeOK, NEW b \in Board
    PROVE  /\ locked' = [locked EXCEPT ![b] = TRUE] => Paused' = Paused \cup {b}
           /\ locked' = [locked EXCEPT ![b] = FALSE] => Paused' = Paused \ {b}
           /\ UNCHANGED locked => Paused' = Paused
  BY DEF TypeOK, Layer2Types, Paused

\* A fire of the ring is a fire of the barrier.
LEMMA FireImplements ==
    ASSUME CalmHost, RingInv, Next, NEW b \in Board, fires'[b] # fires[b],
           Paused' = Paused \/ Paused' = Paused \ {b}
    PROVE  Barrier!Fire(b)
  <1>1. /\ UNCHANGED goLog /\ Owes(b)
        /\ fires' = [fires EXCEPT ![b] = Append(@, goLog[Len(goLog)])]
    BY FireSteps
  <1>2. PICK n \in Nat, m \in Nat : n = Len(fires[b]) /\ m = Len(goLog)
    BY RingTypes, LenProperties DEF TypeOK, HistTypes
  <1>3. m = n + 1
    BY <1>1, <1>2, RingTypes DEF Owes, FiredInOrder
  <1>4. fires' = [fires EXCEPT ![b] = Append(@, goLog[Len(@) + 1])]
    BY <1>1, <1>2, <1>3, RingTypes DEF TypeOK, HistTypes
  <1>5. Len(fires[b]) # Len(goLog)
    BY <1>2, <1>3
  <1> QED  BY <1>1, <1>4, <1>5 DEF Barrier!Fire, Barrier!UpToDate, Paused

\* Every step of an unstreamed calm ring is a step of the barrier or none of its business.
LEMMA BarrierStep ==
    ASSUME CalmHost, RingInv, NoStream, [Next]_vars
    PROVE  [Barrier!Next]_(Barrier!vars)
  <1>1. CASE UNCHANGED <<locked, goLog, fires>>
    BY <1>1 DEF Barrier!vars
  <1>2. CASE TrigStart
    <2>1. locked' = [locked EXCEPT ![Master] = TRUE] \/ UNCHANGED locked
      BY <1>2 DEF TrigStart, TrigBypass, TrigHandshake, SetLock, layer2
    <2>2. UNCHANGED <<goLog, fires>>
      BY <1>2 DEF TrigStart, TrigBypass, TrigHandshake, hist
    <2>3. CASE UNCHANGED locked
      BY <1>1, <2>2, <2>3
    <2>4. CASE locked' = [locked EXCEPT ![Master] = TRUE]
      <3>1. Barrier!Pause(Master)
        BY <2>2, <2>4, LockPauses, RingTypes DEF Barrier!Pause, Paused
      <3> QED  BY <3>1, RingTypes DEF Barrier!Next
    <2> QED  BY <2>1, <2>3, <2>4
  <1>3. ASSUME NEW b \in Board, RxPauseReq(b) \/ RxReserveReq(b)
        PROVE  [Barrier!Next]_(Barrier!vars)
    <2>1. locked' = [locked EXCEPT ![b] = TRUE] \/ UNCHANGED locked
      BY <1>3 DEF RxPauseReq, RxReserveReq, SetLock, LockAfterCheck, layer2
    <2>2. UNCHANGED <<goLog, fires>>
      BY <1>3 DEF RxPauseReq, RxReserveReq, hist
    <2>3. CASE UNCHANGED locked
      BY <1>1, <2>2, <2>3
    <2>4. CASE locked' = [locked EXCEPT ![b] = TRUE]
      <3>1. Barrier!Pause(b)
        BY <2>2, <2>4, LockPauses, RingTypes DEF Barrier!Pause, Paused
      <3> QED  BY <3>1 DEF Barrier!Next
    <2> QED  BY <2>1, <2>3, <2>4
  <1>4. CASE SendGo
    <2>1. /\ locked' = [locked EXCEPT ![Master] = FALSE] /\ goLog' = Append(goLog, pendGroup)
          /\ UNCHANGED fires /\ GoReady
      BY <1>4 DEF SendGo, SetLock
    <2>2. Paused = Board
      BY <1>4, GoLocks DEF Paused
    <2>3. NoneOwes /\ waiting
      BY <2>1, PauseAround, AllAcked
    <2>4. pendGroup \in GroupSel
      BY <2>3, RingTypes DEF GosCounted
    <2>5. Len(goLog) < Budget["trig"]
      <3>1. Len(goLog) \in Nat /\ budget["trig"] \in Nat /\ Budget["trig"] \in Nat
        BY RingTypes, LenProperties, HostAssumption DEF TypeOK, HistTypes, HostOps
      <3>2. Len(goLog) + budget["trig"] + 1 <= Budget["trig"]
        BY <2>3, RingTypes DEF GosCounted
      <3> QED  BY <3>1, <3>2
    <2>6. \A b \in Board : Len(fires[b]) = Len(goLog)
      <3>1. ASSUME NEW b \in Board PROVE Len(fires[b]) = Len(goLog)
        <4>1. PICK n \in Nat, m \in Nat : n = Len(fires[b]) /\ m = Len(goLog)
          BY RingTypes, LenProperties DEF TypeOK, HistTypes
        <4>2. ~(n < m) /\ n <= m
          BY <2>3, <4>1, RingTypes DEF NoneOwes, Owes, FiredInOrder, IsPrefixOf
        <4> QED  BY <4>1, <4>2
      <3> QED  BY <3>1
    <2>7. Paused' = Paused \ {Master}
      BY <2>1, LockPauses, RingTypes
    <2>8. PICK g \in GroupSel : g = pendGroup
      BY <2>4
    <2>9. Barrier!Decide(g)
      BY <2>1, <2>2, <2>5, <2>6, <2>7, <2>8, RingTypes DEF Barrier!Decide, Barrier!UpToDate, Paused
    <2> QED  BY <2>9 DEF Barrier!Next
  <1>5. ASSUME NEW b \in Board, RxGo(b) PROVE [Barrier!Next]_(Barrier!vars)
    <2>1. locked' = [locked EXCEPT ![b] = FALSE] /\ UNCHANGED goLog /\ Next
      BY <1>5 DEF RxGo, SetLock, Next, Rx
    <2>2. Paused' = Paused \ {b}
      BY <2>1, LockPauses, RingTypes
    <2>3. CASE fires'[b] # fires[b]
      <3>1. Barrier!Fire(b)
        BY <2>1, <2>2, <2>3, FireImplements
      <3> QED  BY <3>1 DEF Barrier!Next
    <2>4. CASE fires'[b] = fires[b]
      <3>1. UNCHANGED fires
        BY <1>5, <2>4, RingTypes DEF RxGo, TypeOK, HistTypes
      <3>2. ~Going
        <4>1. ASSUME Going PROVE FALSE
          <5>1. fires' = [fires EXCEPT ![b] = Append(@, goLog[Len(goLog)])]
            BY <1>5, <4>1, RxGoFires
          <5>2. PICK q \in Seq(0..15), n \in Nat : q = fires[b] /\ n = Len(q)
            BY RingTypes, LenProperties DEF TypeOK, HistTypes
          <5>3. fires'[b] = Append(q, goLog[Len(goLog)])
            BY <5>1, <5>2, RingTypes DEF TypeOK, HistTypes
          <5>4. Len(Append(q, goLog[Len(goLog)])) = n + 1
            BY <5>2
          <5> QED  BY <2>4, <5>2, <5>3, <5>4
        <4> QED  BY <4>1
      <3>3. NoneOwes
        <4>1. Arrives(b, "GO") /\ "GO" \in FwdTypes
          <5>1. UNCHANGED fwdSlot \/ \E f : QueueFwd(b, f)
            BY <1>5 DEF RxGo
          <5> QED  BY <1>5, <5>1 DEF RxGo, Arrives, FwdTypes
        <4>2. Gone
          BY <3>2, <4>1, Arrival, RingTypes DEF Phases
        <4> QED  BY <4>2 DEF Gone
      <3>4. Len(fires[b]) = Len(goLog)
        <4>1. PICK n \in Nat, m \in Nat : n = Len(fires[b]) /\ m = Len(goLog)
          BY RingTypes, LenProperties DEF TypeOK, HistTypes
        <4>2. ~(n < m) /\ n <= m
          BY <3>3, <4>1, RingTypes DEF NoneOwes, Owes, FiredInOrder, IsPrefixOf
        <4> QED  BY <4>1, <4>2
      <3>5. Barrier!Release(b)
        BY <2>1, <2>2, <3>1, <3>4 DEF Barrier!Release, Barrier!UpToDate, Paused
      <3> QED  BY <3>5 DEF Barrier!Next
    <2> QED  BY <2>3, <2>4
  <1>6. ASSUME NEW b \in Board, FwdTxBeat1(b) PROVE [Barrier!Next]_(Barrier!vars)
    <2>1. UNCHANGED <<goLog, locked>> /\ Next
      BY <1>6 DEF FwdTxBeat1, layer2, Next, Tx
    <2>2. CASE fires'[b] # fires[b]
      <3>1. Barrier!Fire(b)
        BY <2>1, <2>2, LockPauses, FireImplements, RingTypes
      <3> QED  BY <3>1 DEF Barrier!Next
    <2>3. CASE fires'[b] = fires[b]
      <3>1. UNCHANGED fires
        BY <1>6, <2>3, RingTypes DEF FwdTxBeat1, MasterFires, TypeOK, HistTypes
      <3> QED  BY <1>1, <2>1, <3>1
    <2> QED  BY <2>2, <2>3
  <1>7. CASE UNCHANGED vars
    BY <1>1, <1>7 DEF vars, layer2, hist
  <1>8. ~Fault
    BY NoFaults
  <1> QED  BY <1>1, <1>2, <1>3, <1>4, <1>5, <1>6, <1>7, <1>8, BarrierIdle

\* A calm ring whose boards do not stream implements the barrier of TriggerBarrier: its steps
\* decide, pause and fire as the barrier's do, or change nothing the barrier sees.
THEOREM RingIsBarrier == CalmHost /\ Budget["stream"] = 0 /\ Spec => Barrier!Spec
  <1>1. CASE CalmHost /\ Budget["stream"] = 0
    <2>1. Init => RingInv /\ Barrier!Init
      <3>1. Init => Barrier!Init
        BY DEF Init, Barrier!Init
      <3> QED  BY <1>1, <3>1, InitCalm
    <2>2. RingInv => NoStream
      <3>1. ASSUME RingInv PROVE NoStream
        <4>1. budget["stream"] \in Nat /\ budget["stream"] <= Budget["stream"]
          BY <3>1, RingTypes DEF Unstreamed, TypeOK, HostOps
        <4> QED  BY <1>1, <4>1 DEF NoStream
      <3> QED  BY <3>1
    <2>3. RingInv /\ [Next]_vars => RingInv'
      BY <1>1, NextCalm
    <2>4. RingInv /\ [Next]_vars => [Barrier!Next]_(Barrier!vars)
      BY <1>1, <2>2, BarrierStep
    <2> QED  BY <2>1, <2>3, <2>4, PTL DEF Spec, Barrier!Spec
  <1> QED  BY <1>1

-----------------------------------------------------------------------------
(* What the barrier promises.                                              *)

\* The barrier's own invariant: a board owes at most the last fire decided, and fired the
\* others in order.
OwesLast ==
    \A b \in Board :
        /\ Len(fires[b]) <= Len(goLog) /\ Len(goLog) <= Len(fires[b]) + 1
        /\ \A i \in 1..Len(fires[b]) : fires[b][i] = goLog[i]

BarrierInv == Barrier!TypeOK /\ OwesLast

LEMMA BarrierStarts == Barrier!Init => BarrierInv
  <1> SUFFICES ASSUME Barrier!Init PROVE BarrierInv
    OBVIOUS
  <1>1. <<>> \in Seq(GroupSel) /\ Len(<<>>) = 0
    BY EmptySeq
  <1>2. Barrier!TypeOK
    BY <1>1 DEF Barrier!Init, Barrier!TypeOK
  <1>3. OwesLast
    <2>1. \A b \in Board : Len(fires[b]) = 0
      BY <1>1 DEF Barrier!Init
    <2>2. Len(goLog) = 0
      BY <1>1 DEF Barrier!Init
    <2>3. ASSUME NEW b \in Board, NEW i \in 1..Len(fires[b])
          PROVE  fires[b][i] = goLog[i]
      <3>1. i \in 1..0
        BY <2>1
      <3> QED  BY <3>1
    <2>4. ASSUME NEW b \in Board
          PROVE  Len(fires[b]) <= Len(goLog) /\ Len(goLog) <= Len(fires[b]) + 1
      BY <2>1, <2>2
    <2> QED  BY <2>3, <2>4 DEF OwesLast
  <1> QED  BY <1>2, <1>3 DEF BarrierInv

LEMMA BarrierDecides == ASSUME BarrierInv, NEW g \in GroupSel, Barrier!Decide(g) PROVE BarrierInv'
  <1>1. /\ Len(goLog') = Len(goLog) + 1
        /\ \A i \in 1..Len(goLog) : goLog'[i] = goLog[i]
        /\ goLog' \in Seq(GroupSel)
    BY AppendProperties DEF BarrierInv, Barrier!TypeOK, Barrier!Decide
  <1>2. Barrier!TypeOK'
    BY <1>1 DEF BarrierInv, Barrier!TypeOK, Barrier!Decide
  <1>3. ASSUME NEW b \in Board
        PROVE  /\ Len(fires'[b]) <= Len(goLog') /\ Len(goLog') <= Len(fires'[b]) + 1
               /\ \A i \in 1..Len(fires'[b]) : fires'[b][i] = goLog'[i]
    <2>1. fires' = fires /\ Len(fires[b]) = Len(goLog) /\ Len(goLog) \in Nat
      BY LenProperties DEF BarrierInv, Barrier!TypeOK, Barrier!Decide, Barrier!UpToDate
    <2> QED  BY <1>1, <2>1 DEF BarrierInv, OwesLast
  <1> QED  BY <1>2, <1>3 DEF BarrierInv, OwesLast

LEMMA BarrierFires == ASSUME BarrierInv, NEW b \in Board, Barrier!Fire(b) PROVE BarrierInv'
  <1> DEFINE n == Len(fires[b])
  <1>1. /\ fires \in [Board -> Seq(GroupSel)] /\ goLog \in Seq(GroupSel)
        /\ n \in Nat /\ Len(goLog) \in Nat
    BY LenProperties DEF BarrierInv, Barrier!TypeOK
  <1>2. n + 1 = Len(goLog) /\ goLog[n + 1] \in GroupSel
    <2>1. n + 1 = Len(goLog)
      BY <1>1 DEF BarrierInv, OwesLast, Barrier!Fire, Barrier!UpToDate
    <2>2. n + 1 \in 1..Len(goLog)
      BY <1>1, <2>1
    <2> QED  BY <1>1, <2>1, <2>2, ElementOfSeq
  <1>3. /\ fires' = [fires EXCEPT ![b] = Append(fires[b], goLog[n + 1])]
        /\ goLog' = goLog
    BY DEF Barrier!Fire
  <1>4. /\ fires'[b] \in Seq(GroupSel) /\ Len(fires'[b]) = n + 1
        /\ \A i \in 1..n : fires'[b][i] = fires[b][i]
        /\ fires'[b][n + 1] = goLog[n + 1]
    BY <1>1, <1>2, <1>3, AppendProperties
  <1>5. Barrier!TypeOK'
    BY <1>1, <1>3, <1>4 DEF BarrierInv, Barrier!TypeOK, Barrier!Fire
  <1>6. ASSUME NEW c \in Board
        PROVE  /\ Len(fires'[c]) <= Len(goLog') /\ Len(goLog') <= Len(fires'[c]) + 1
               /\ \A i \in 1..Len(fires'[c]) : fires'[c][i] = goLog'[i]
    <2>1. CASE c = b
      <3>1. \A i \in 1..n + 1 : i \in 1..n \/ i = n + 1
        BY <1>1
      <3> QED  BY <1>1, <1>2, <1>3, <1>4, <2>1, <3>1 DEF BarrierInv, OwesLast
    <2>2. CASE c # b
      BY <1>1, <1>3, <2>2 DEF BarrierInv, OwesLast
    <2> QED  BY <2>1, <2>2
  <1> QED  BY <1>5, <1>6 DEF BarrierInv, OwesLast

LEMMA BarrierSteps == BarrierInv /\ [Barrier!Next]_(Barrier!vars) => BarrierInv'
  <1> SUFFICES ASSUME BarrierInv, [Barrier!Next]_(Barrier!vars) PROVE BarrierInv'
    OBVIOUS
  <1>1. ASSUME NEW b \in Board, Barrier!Pause(b) \/ Barrier!Release(b) PROVE BarrierInv'
    BY <1>1 DEF BarrierInv, Barrier!TypeOK, OwesLast, Barrier!Pause, Barrier!Release
  <1>2. CASE UNCHANGED Barrier!vars
    BY <1>2 DEF BarrierInv, Barrier!TypeOK, OwesLast, Barrier!vars
  <1> QED  BY <1>1, <1>2, BarrierDecides, BarrierFires DEF Barrier!Next

\* The boards of the barrier fire in step: any two have fired the same groups in the same
\* order, and their numbers of fires differ by at most one, for any number of boards and of
\* rounds: what the two-phase handshake of aurora_ctrl_channel.v is for.  It follows from the
\* barrier alone, and so does not need the phases of the ring.
THEOREM FireInStep == Barrier!Spec => []Barrier!InStep
  <1>1. Barrier!Init => BarrierInv
    BY BarrierStarts
  <1>2. BarrierInv /\ [Barrier!Next]_(Barrier!vars) => BarrierInv'
    BY BarrierSteps
  <1>3. BarrierInv => Barrier!InStep
    <2> SUFFICES ASSUME BarrierInv, NEW a \in Board, NEW b \in Board
                 PROVE  /\ Len(fires[a]) <= Len(fires[b]) + 1
                        /\ \A i \in 1..Len(fires[a]) :
                             i <= Len(fires[b]) => fires[a][i] = fires[b][i]
      BY DEF Barrier!InStep
    <2>1. Len(fires[a]) \in Nat /\ Len(fires[b]) \in Nat /\ Len(goLog) \in Nat
      BY LenProperties DEF BarrierInv, Barrier!TypeOK
    <2> QED  BY <2>1 DEF BarrierInv, OwesLast
  <1> QED  BY <1>1, <1>2, <1>3, PTL DEF Barrier!Spec

-----------------------------------------------------------------------------
(* A ring that loses frames: what a step does to a hop, when cables drop   *)
(* and boards start over at any time.                                      *)

\* A hop's sender puts the header or the payload on the cable, its receiver takes a
\* beat, or a fault wipes what one of them holds.
SendsHeader(h, k) == /\ h.pending /\ ~h.half /\ k.pending /\ k.half
                     /\ k.slot = h.slot /\ k.latch = h.latch
                     /\ k.link = Append(h.link, Header(h.slot))
SendsPayload(h, k) == /\ h.half /\ ~k.pending /\ ~k.half
                      /\ k.slot = h.slot /\ k.latch = h.latch
                      /\ k.link = Append(h.link, Payload(h.slot))
Takes(h, k) == /\ h.link # <<>> /\ k.link = Tail(h.link)
               /\ k.slot = h.slot /\ k.pending = h.pending /\ k.half = h.half
               /\ k.latch = NoFrame \/ (h.latch = NoFrame /\ k.latch = Head(h.link))
SenderWiped(h, k) == /\ ~k.pending /\ ~k.half
                     /\ k.slot = h.slot /\ k.link = h.link /\ k.latch = h.latch
CableWiped(h, k) == /\ k.link = <<>> /\ k.latch = NoFrame
                    /\ k.slot = h.slot /\ k.pending = h.pending /\ k.half = h.half
Moves(h, k) == \/ Same(h, k) \/ SendsHeader(h, k) \/ SendsPayload(h, k) \/ Takes(h, k)
               \/ SenderWiped(h, k) \/ CableWiped(h, k)
\* A move other than the arrival of a GO.
Shifts(h, k) == Moves(h, k) /\ (h.latch.type = "GO" => k.latch = h.latch \/ CableWiped(h, k))
\* A frame is put into the slot.
Adds(h, k, f) == /\ k.slot = f /\ k.pending
                 /\ k.half = h.half /\ k.link = h.link /\ k.latch = h.latch

\* What the types and the transmitters make of a hop.
Wired(h) == /\ h.link \in Seq(Beat) /\ h.slot \in Beat /\ h.latch \in Beat
            /\ h.half => h.pending

\* A set of beats that nothing leads out of: headers of any payload, and payloads.
Closed(K) == /\ NoFrame \in K
             /\ \A f \in K : f \in Beat /\ Header(f) \in K /\ Payload(f) \in K

\* The beats of the phases are such sets.
LEMMA ClosedSets == Closed(Goless) /\ Closed(PlainBeats) /\ Closed(AskingBeats) /\ Closed(AnswerBeats)
  <1>1. NoFrame \in Beat /\ NoFrame.type = "NONE"
    BY NoFrameInBeat DEF NoFrame, Frame
  <1>2. \A f \in Beat : /\ Header(f) \in Beat /\ Payload(f) \in Beat
                        /\ Header(f).type = f.type /\ Header(f).src = f.src /\ Header(f).dest = f.dest
                        /\ Payload(f).type = "PAYLOAD"
    BY BeatParts DEF Header, Payload, Frame, Beat
  <1>3. Closed(Goless)
    BY <1>1, <1>2 DEF Closed, Goless
  <1>4. Closed(PlainBeats)
    BY <1>1, <1>2 DEF Closed, PlainBeats
  <1>5. Closed(AskingBeats)
    BY <1>1, <1>2 DEF Closed, AskingBeats
  <1>6. Closed(AnswerBeats)
    BY <1>1, <1>2 DEF Closed, AnswerBeats
  <1> QED  BY <1>3, <1>4, <1>5, <1>6

\* A move adds nothing new to a hop.
LEMMA AmongAppend ==
    ASSUME NEW q \in Seq(Beat), NEW K, Among(q, K), NEW e \in K, e \in Beat
    PROVE  Among(Append(q, e), K)
  <1>1. \A i \in 1..Len(Append(q, e)) : i \in 1..Len(q) \/ i = Len(q) + 1
    BY AppendBeat
  <1> QED  BY <1>1, AppendBeat DEF Among

\* The beats left after the first are of the same set.
LEMMA AmongTail ==
    ASSUME NEW q \in Seq(Beat), q # <<>>, NEW K, Among(q, K)
    PROVE  Head(q) \in K /\ Among(Tail(q), K)
  <1>1. /\ Len(q) \in Nat /\ Len(q) >= 1 /\ Len(Tail(q)) = Len(q) - 1 /\ Head(q) = q[1]
        /\ \A i \in 1..Len(q) - 1 : Tail(q)[i] = q[i + 1]
    BY TailBeats
  <1>2. \A i \in 1..Len(Tail(q)) : i \in 1..Len(q) - 1 /\ i + 1 \in 1..Len(q)
    BY <1>1
  <1> QED  BY <1>1, <1>2 DEF Among

\* An empty cable carries only beats of any set.
LEMMA AmongNothing == \A K : Among(<<>>, K)
  BY EmptySeq DEF Among

\* A hop that carries only beats of a closed set still does after it moved.
LEMMA MoveOnly ==
    ASSUME NEW h, NEW k, NEW K, Wired(h), Closed(K), Only(h, K), Moves(h, k)
    PROVE  Only(k, K)
  <1>1. CASE Same(h, k)
    BY <1>1 DEF Same, Only
  <1>2. CASE SendsHeader(h, k)
    <2>1. h.slot \in K /\ Header(h.slot) \in K /\ Header(h.slot) \in Beat
      BY <1>2 DEF Only, SendsHeader, Closed
    <2>2. Among(Append(h.link, Header(h.slot)), K)
      BY <2>1, AmongAppend DEF Only, Wired
    <2> QED  BY <1>2, <2>1, <2>2 DEF Only, SendsHeader
  <1>3. CASE SendsPayload(h, k)
    <2>1. h.slot \in K /\ Payload(h.slot) \in K /\ Payload(h.slot) \in Beat
      BY <1>3 DEF Only, SendsPayload, Closed, Wired
    <2>2. Among(Append(h.link, Payload(h.slot)), K)
      BY <2>1, AmongAppend DEF Only, Wired
    <2> QED  BY <1>3, <2>2 DEF Only, SendsPayload
  <1>4. CASE Takes(h, k)
    <2>1. Head(h.link) \in K /\ Among(Tail(h.link), K)
      BY <1>4, AmongTail DEF Only, Wired, Takes
    <2> QED  BY <1>4, <2>1 DEF Only, Takes, Closed
  <1>5. CASE SenderWiped(h, k)
    BY <1>5 DEF SenderWiped, Only
  <1>6. CASE CableWiped(h, k)
    BY <1>6, AmongNothing DEF CableWiped, Only, Closed
  <1> QED  BY <1>1, <1>2, <1>3, <1>4, <1>5, <1>6 DEF Moves

\* Nor does a queued frame of the set add another.
LEMMA AddOnly ==
    ASSUME NEW h, NEW k, NEW K, Only(h, K), NEW f \in K, Adds(h, k, f)
    PROVE  Only(k, K)
  BY DEF Only, Adds

\* A hop that is clear stays so until a frame is queued there.
LEMMA MoveClear ==
    ASSUME NEW h, NEW k, Wired(h), Clear(h), Moves(h, k)
    PROVE  Clear(k)
  BY DEF Wired, Clear, Moves, Same, SendsHeader, SendsPayload, Takes, SenderWiped, CableWiped

-----------------------------------------------------------------------------
\* A hop without a GO is one that a GO could travel.
LEMMA GolessTravels ==
    ASSUME NEW h, NEW g, Only(h, Goless)
    PROVE  Travels(h, g)
  BY DEF Only, Goless, Among, Travels, Unsent

\* The GO is queued where no other is left.
LEMMA AddGo ==
    ASSUME NEW h, NEW k, NEW f, NEW g, Only(h, Goless), Adds(h, k, f), f.pl = g
    PROVE  Travels(k, g)
  BY DEF Only, Goless, Among, Travels, Unsent, Adds

\* Its payload arrives at the board that has latched its header, and nothing is left of it.
LEMMA TakeGo ==
    ASSUME NEW h, NEW k, NEW g, Wired(h), Travels(h, g), Takes(h, k), h.latch.type = "GO"
    PROVE  Clear(k) /\ IsPayload(Head(h.link), {g})
  <1>1. h.latch # NoFrame /\ k.latch = NoFrame
    BY DEF Takes, NoFrame, Frame
  <1>2. Arriving(h, g)
    BY DEF Travels, Unsent, HalfSent, WholeSent, HalfTaken, Takes
  <1>3. Head(h.link) = h.link[1] /\ Tail(h.link) = <<>>
    BY <1>2, TailBeats DEF Arriving, Wired, Takes
  <1> QED  BY <1>1, <1>2, <1>3 DEF Arriving, Clear, Takes

\* The sender moves the frame on.
LEMMA SendTravels ==
    ASSUME NEW h, NEW k, NEW g, Wired(h), Travels(h, g), SendsHeader(h, k) \/ SendsPayload(h, k)
    PROVE  Travels(k, g)
  <1>1. h.pending
    BY DEF Wired, SendsHeader, SendsPayload
  <1>2. PICK n \in Nat : n = Len(h.link)
    BY LenProperties DEF Wired
  <1>3. CASE SendsHeader(h, k)
    <2>1. Unsent(h)
      BY <1>1, <1>3 DEF Travels, HalfSent, WholeSent, HalfTaken, Arriving, Finishes, SendsHeader
    <2>2. Header(h.slot) \in Beat /\ Header(h.slot).type = h.slot.type
      BY BeatParts DEF Wired, Header, Beat
    <2>3. /\ Len(k.link) = n + 1 /\ k.link[n + 1] = Header(h.slot)
          /\ \A i \in 1..n : k.link[i] = h.link[i]
      BY <1>2, <1>3, <2>2, AppendBeat DEF Wired, SendsHeader
    <2>4. CASE h.slot.type = "GO"
      <3>1. EndsInHeader(k.link)
        BY <1>2, <2>1, <2>2, <2>3, <2>4 DEF EndsInHeader, Unsent
      <3>2. k.latch.type # "GO" /\ k.slot.pl = g /\ k.half /\ k.slot = h.slot
        BY <1>1, <1>3, <2>1, <2>4 DEF Unsent, Travels, SendsHeader
      <3> QED  BY <3>1, <3>2 DEF Travels, HalfSent, Finishes
    <2>5. CASE h.slot.type # "GO"
      <3>1. \A i \in 1..n + 1 : i \in 1..n \/ i = n + 1
        OBVIOUS
      <3>2. Unsent(k)
        BY <1>2, <1>3, <2>1, <2>2, <2>3, <2>5, <3>1 DEF Unsent, SendsHeader
      <3> QED  BY <1>3, <2>5, <3>2 DEF Travels, SendsHeader
    <2> QED  BY <2>4, <2>5
  <1>4. CASE SendsPayload(h, k)
    <2>1. Unsent(h) \/ HalfSent(h, g) \/ HalfTaken(h, g)
      BY <1>1 DEF Travels, WholeSent, Arriving
    <2>2. Payload(h.slot) \in Beat /\ Payload(h.slot).type = "PAYLOAD" /\ Payload(h.slot).pl = h.slot.pl
      BY BeatParts DEF Wired, Payload, Frame
    <2>3. /\ Len(k.link) = n + 1 /\ k.link[n + 1] = Payload(h.slot)
          /\ \A i \in 1..n : k.link[i] = h.link[i]
          /\ ~k.pending /\ k.latch = h.latch
      BY <1>2, <1>4, <2>2, AppendBeat DEF Wired, SendsPayload
    <2>4. CASE Unsent(h)
      <3>1. \A i \in 1..n + 1 : i \in 1..n \/ i = n + 1
        OBVIOUS
      <3>2. Unsent(k)
        BY <1>2, <2>2, <2>3, <2>4, <3>1 DEF Unsent
      <3> QED  BY <2>3, <3>2 DEF Travels
    <2>5. CASE HalfSent(h, g)
      <3>1. h.slot.pl = g
        BY <1>1, <2>5 DEF HalfSent, Finishes
      <3>2. n >= 1 /\ h.link[n].type = "GO" /\ \A i \in 1..n - 1 : h.link[i].type # "GO"
        BY <1>2, <2>5 DEF HalfSent, EndsInHeader
      <3>3. k.link[n].type = "GO" /\ \A i \in 1..n - 1 : k.link[i].type # "GO"
        <4>1. n \in 1..n /\ \A i \in 1..n - 1 : i \in 1..n
          BY <3>2
        <4>2. \A i \in 1..n : k.link[i] = h.link[i]
          BY <2>3
        <4> QED  BY <3>2, <4>1, <4>2
      <3>4. n + 1 >= 2 /\ (n + 1) - 1 = n /\ (n + 1) - 2 = n - 1
        BY <3>2
      <3>5. EndsInGo(k.link, g)
        BY <2>2, <2>3, <3>1, <3>3, <3>4 DEF EndsInGo, IsPayload
      <3> QED  BY <2>3, <2>5, <3>5 DEF Travels, WholeSent, HalfSent
    <2>6. CASE HalfTaken(h, g)
      <3>1. h.slot.pl = g /\ n = 0
        BY <1>1, <1>2, <2>6, BeatSeqs DEF HalfTaken, Finishes
      <3>2. Arriving(k, g)
        BY <2>2, <2>3, <2>6, <3>1 DEF HalfTaken, Arriving, IsPayload
      <3> QED  BY <2>3, <3>2 DEF Travels
    <2> QED  BY <2>1, <2>4, <2>5, <2>6
  <1> QED  BY <1>3, <1>4

\* The receiver takes a beat that is not the payload of the GO.
LEMMA TakeTravels ==
    ASSUME NEW h, NEW k, NEW g, Wired(h), Travels(h, g), Takes(h, k), h.latch.type # "GO"
    PROVE  Travels(k, g)
  <1>1. PICK n \in Nat : /\ n = Len(h.link) /\ n >= 1 /\ Len(k.link) = n - 1
                         /\ Head(h.link) = h.link[1]
                         /\ \A i \in 1..n - 1 : k.link[i] = h.link[i + 1]
                         /\ n = 1 => k.link = <<>>
    BY TailBeats DEF Wired, Takes
  <1>2. n = 1 \/ n > 1
    <2>1. \A m \in Nat : m >= 1 => m = 1 \/ m > 1
      OBVIOUS
    <2> QED  BY <1>1, <2>1, Zenon
  <1>3. k.pending = h.pending /\ k.slot = h.slot /\ k.half = h.half
        /\ (k.latch = NoFrame \/ k.latch = h.link[1])
    BY <1>1 DEF Takes
  <1>4. NoFrame.type # "GO"
    BY DEF NoFrame, Frame
  <1>5. Unsent(h) \/ HalfSent(h, g) \/ WholeSent(h, g)
    BY DEF Travels, HalfTaken, Arriving
  <1>6. CASE Unsent(h)
    <2>1. \A i \in 1..n : h.link[i].type # "GO"
      BY <1>1, <1>6 DEF Unsent
    <2>2. \A i \in 1..n - 1 : k.link[i].type # "GO"
      <3>1. \A i \in 1..n - 1 : i + 1 \in 1..n
        OBVIOUS
      <3> QED  BY <1>1, <2>1, <3>1
    <2>3. k.latch.type # "GO"
      BY <1>1, <1>3, <1>4, <2>1
    <2>4. Unsent(k)
      BY <1>1, <2>2, <2>3 DEF Unsent
    <2> QED  BY <1>3, <1>6, <2>4 DEF Travels
  <1>7. CASE HalfSent(h, g)
    <2>1. Finishes(k, g)
      BY <1>3, <1>7 DEF HalfSent, Finishes
    <2>2. CASE n = 1
      <3>1. k.link = <<>> /\ Len(k.link) = 0
        BY <1>1, <2>2
      <3>2. Unsent(k) \/ HalfTaken(k, g)
        BY <2>1, <3>1 DEF Unsent, HalfTaken
      <3> QED  BY <1>3, <3>2 DEF Travels
    <2>3. CASE n > 1
      <3>1. PICK m \in Nat : n = m + 1 /\ m >= 1
        BY <2>3
      <3>2. /\ Len(k.link) = m /\ \A i \in 1..m : k.link[i] = h.link[i + 1]
            /\ h.link[m + 1].type = "GO" /\ \A i \in 1..m : h.link[i].type # "GO"
        BY <1>1, <1>7, <3>1 DEF HalfSent, EndsInHeader
      <3>3. EndsInHeader(k.link) /\ h.link[1].type # "GO"
        <4>1. k.link[m].type = "GO"
          BY <3>1, <3>2
        <4>2. \A i \in 1..m - 1 : i \in 1..m /\ i + 1 \in 1..m
          BY <3>1
        <4> QED  BY <3>1, <3>2, <4>1, <4>2 DEF EndsInHeader
      <3>4. k.latch.type # "GO"
        BY <1>3, <1>4, <3>3
      <3> QED  BY <1>3, <2>1, <3>3, <3>4 DEF Travels, HalfSent
    <2> QED  BY <1>2, <2>2, <2>3
  <1>8. CASE WholeSent(h, g)
    <2>1. ~k.pending
      BY <1>3, <1>8 DEF WholeSent
    <2>2. PICK m \in Nat : n = m + 2
      <3>1. n >= 2
        BY <1>1, <1>8 DEF WholeSent, EndsInGo
      <3>2. n - 2 \in Nat /\ n = (n - 2) + 2
        BY <3>1
      <3> QED  BY <3>2
    <2>3. /\ Len(k.link) = m + 1 /\ \A i \in 1..m + 1 : k.link[i] = h.link[i + 1]
          /\ h.link[m + 1].type = "GO" /\ IsPayload(h.link[m + 2], {g})
          /\ \A i \in 1..m : h.link[i].type # "GO"
      BY <1>1, <1>8, <2>2 DEF WholeSent, EndsInGo
    <2>4. IsPayload(k.link[m + 1], {g})
      BY <2>3
    <2>5. CASE m = 0
      <3>1. Len(k.link) = 1 /\ IsPayload(k.link[1], {g}) /\ k.link[1].type # "GO"
        BY <2>3, <2>4, <2>5 DEF IsPayload
      <3>2. Unsent(k) \/ Arriving(k, g)
        BY <2>1, <3>1 DEF Unsent, Arriving
      <3> QED  BY <2>1, <3>2 DEF Travels
    <2>6. CASE m # 0
      <3>0. m >= 1 /\ 1 \in 1..m /\ m \in 1..m + 1
        BY <2>6
      <3>1. h.link[1].type # "GO"
        BY <2>3, <3>0
      <3>2. EndsInGo(k.link, g)
        <4>1. k.link[m].type = "GO"
          BY <2>3, <3>0
        <4>2. \A i \in 1..m - 1 : i \in 1..m + 1 /\ i + 1 \in 1..m
          OBVIOUS
        <4>3. \A i \in 1..m - 1 : k.link[i].type # "GO"
          BY <2>3, <4>2
        <4>4. (m + 1) - 1 = m /\ (m + 1) - 2 = m - 1 /\ m + 1 >= 2
          BY <3>0
        <4> QED  BY <2>3, <2>4, <4>1, <4>3, <4>4 DEF EndsInGo
      <3>3. k.latch.type # "GO"
        BY <1>3, <1>4, <3>1
      <3> QED  BY <1>8, <2>1, <3>2, <3>3 DEF Travels, WholeSent
    <2> QED  BY <2>5, <2>6
  <1> QED  BY <1>5, <1>6, <1>7, <1>8

\* The GO stays one, whole or cut short, as its hop moves.
LEMMA MoveTravels ==
    ASSUME NEW h, NEW k, NEW g, Wired(h), Travels(h, g), Shifts(h, k)
    PROVE  Travels(k, g)
  <1>1. CASE Same(h, k)
    BY <1>1 DEF Same, Travels, Unsent, HalfSent, WholeSent, HalfTaken, Arriving, Finishes
  <1>2. CASE SenderWiped(h, k)
    BY <1>2 DEF SenderWiped, Travels, Unsent, HalfSent, WholeSent, HalfTaken, Arriving, Finishes
  <1>3. CASE CableWiped(h, k)
    <2>1. Unsent(k)
      BY <1>3, EmptySeq DEF CableWiped, Unsent, NoFrame, Frame
    <2> QED  BY <1>3, <2>1 DEF CableWiped, Travels
  <1>4. CASE Takes(h, k) /\ ~CableWiped(h, k)
    <2>1. h.latch.type = "GO" => h.latch = NoFrame
      BY <1>4 DEF Takes, Shifts
    <2> QED  BY <1>4, <2>1, TakeTravels DEF NoFrame, Frame
  <1> QED  BY <1>1, <1>2, <1>3, <1>4, SendTravels DEF Moves, Shifts

\* Every hop of the ring is wired so.
LEMMA HopsWired ==
    ASSUME FireInv, NEW b \in Board
    PROVE  Wired(Hop(b)) /\ Wired(Back(b))
  <1>1. TypeOK /\ SlotDiscipline
    BY DEF FireInv, OwnInv
  <1>2. Succ(b) \in Board /\ Pred(b) \in Board
    BY Neighbours
  <1> QED  BY <1>1, <1>2, HopTypes, HopParts, BackParts DEF Wired, SlotDiscipline

\* What the transmitters do to the hops.
LEMMA FwdTxBeat0Moves ==
    ASSUME TypeOK, NEW b \in Board, FwdTxBeat0(b)
    PROVE  /\ SendsHeader(Hop(b), Hop(b)')
           /\ \A c \in Board : c # b => Same(Hop(c), Hop(c)')
  <1>1. \A c \in Board : c # b => Same(Hop(c), Hop(c)')
    BY HopTypes DEF FwdTxBeat0, Hop, Same, TypeOK, SlotTypes, LinkTypes
  <1>2. /\ fwdPending[b] /\ ~ftxBeat1[b] /\ fwdPending'[b] /\ ftxBeat1'[b]
        /\ fLink'[b] = Append(fLink[b], Header(fwd[b])) /\ fwd'[b] = fwd[b] /\ frx' = frx
    BY DEF FwdTxBeat0, TypeOK, SlotTypes, LinkTypes
  <1> QED  BY <1>1, <1>2, HopParts DEF SendsHeader

LEMMA FwdTxBeat1Moves ==
    ASSUME TypeOK, NEW b \in Board, FwdTxBeat1(b)
    PROVE  /\ SendsPayload(Hop(b), Hop(b)')
           /\ \A c \in Board : c # b => Same(Hop(c), Hop(c)')
  <1>1. \A c \in Board : c # b => Same(Hop(c), Hop(c)')
    BY HopTypes DEF FwdTxBeat1, Hop, Same, TypeOK, SlotTypes, LinkTypes
  <1>2. /\ ftxBeat1[b] /\ ~fwdPending'[b] /\ ~ftxBeat1'[b]
        /\ fLink'[b] = Append(fLink[b], Payload(fwd[b])) /\ fwd'[b] = fwd[b] /\ frx' = frx
    BY DEF FwdTxBeat1, TypeOK, SlotTypes, LinkTypes
  <1> QED  BY <1>1, <1>2, HopParts DEF SendsPayload

LEMMA BwdTxBeat0Moves ==
    ASSUME TypeOK, NEW b \in Board, BwdTxBeat0(b)
    PROVE  \A c \in Board : Moves(Back(c), Back(c)')
  <1>1. \A c \in Board : c # b => Same(Back(c), Back(c)')
    BY HopTypes DEF BwdTxBeat0, Back, Same, TypeOK, SlotTypes, LinkTypes
  <1>2. /\ bwdPending[b] /\ ~btxBeat1[b] /\ bwdPending'[b] /\ btxBeat1'[b]
        /\ bLink'[b] = Append(bLink[b], Header(bwd[b])) /\ bwd'[b] = bwd[b] /\ brx' = brx
    BY DEF BwdTxBeat0, TypeOK, SlotTypes, LinkTypes
  <1>3. SendsHeader(Back(b), Back(b)')
    BY <1>2, BackParts DEF SendsHeader
  <1> QED  BY <1>1, <1>3 DEF Moves

LEMMA BwdTxBeat1Moves ==
    ASSUME TypeOK, NEW b \in Board, BwdTxBeat1(b)
    PROVE  \A c \in Board : Moves(Back(c), Back(c)')
  <1>1. \A c \in Board : c # b => Same(Back(c), Back(c)')
    BY HopTypes DEF BwdTxBeat1, Back, Same, TypeOK, SlotTypes, LinkTypes
  <1>2. /\ btxBeat1[b] /\ ~bwdPending'[b] /\ ~btxBeat1'[b]
        /\ bLink'[b] = Append(bLink[b], Payload(bwd[b])) /\ bwd'[b] = bwd[b] /\ brx' = brx
    BY DEF BwdTxBeat1, TypeOK, SlotTypes, LinkTypes
  <1>3. SendsPayload(Back(b), Back(b)')
    BY <1>2, BackParts DEF SendsPayload
  <1> QED  BY <1>1, <1>3 DEF Moves

\* Board b takes a beat off its link, and may queue a frame.
LEMMA TakeMoves ==
    ASSUME TypeOK, NEW b \in Board, fLink[Pred(b)] # <<>>, PopFwd(b),
           NEW x, x = NoFrame \/ (frx[b] = NoFrame /\ x = FwdHead(b)),
           frx' = [frx EXCEPT ![b] = x],
           UNCHANGED fwdSlot \/ \E f : QueueFwd(b, f)
    PROVE  /\ Takes(Hop(Pred(b)), Hop(Pred(b))')
           /\ Hop(Pred(b)).latch = frx[b] /\ Head(Hop(Pred(b)).link) = FwdHead(b)
           /\ \A c \in Board : c # Pred(b) /\ c # b => Same(Hop(c), Hop(c)')
           /\ UNCHANGED fwdSlot => Same(Hop(b), Hop(b)')
           /\ \A f : QueueFwd(b, f) => Adds(Hop(b), Hop(b)', f)
  <1> DEFINE p == Pred(b)
  <1>0. p \in Board /\ Succ(p) = b /\ p # b /\ Succ(b) # b /\ Succ(b) \in Board
        /\ \A c \in Board : c # p => Succ(c) # b /\ Succ(c) \in Board
    BY Apart
  <1>1. \A c \in Board : c # p => frx'[Succ(c)] = frx[Succ(c)] /\ fLink'[c] = fLink[c]
    BY <1>0 DEF TypeOK, LinkTypes, PopFwd
  <1>2. \A c \in Board : c # b => /\ fwdPending'[c] = fwdPending[c]
                                  /\ ftxBeat1'[c] = ftxBeat1[c] /\ fwd'[c] = fwd[c]
    BY DEF TypeOK, SlotTypes, fwdSlot, QueueFwd
  <1>3. \A c \in Board : c # p /\ c # b => Same(Hop(c), Hop(c)')
    BY <1>1, <1>2, HopParts DEF Same
  <1>4. UNCHANGED fwdSlot => Same(Hop(b), Hop(b)')
    BY <1>0, <1>1, HopParts DEF Same, fwdSlot
  <1>5. fLink'[p] = Tail(fLink[p]) /\ frx'[b] = x
    BY <1>0 DEF TypeOK, LinkTypes, PopFwd
  <1>6. FwdHead(b) = Head(fLink[p])
    BY DEF FwdHead
  <1>7. Takes(Hop(p), Hop(p)') /\ Hop(p).latch = frx[b] /\ Head(Hop(p).link) = FwdHead(b)
    BY <1>0, <1>2, <1>5, <1>6, HopParts DEF Takes
  <1>8. ASSUME NEW f, QueueFwd(b, f) PROVE Adds(Hop(b), Hop(b)', f)
    <2>1. fwd'[b] = f /\ fwdPending'[b] /\ ftxBeat1'[b] = ftxBeat1[b]
      BY <1>8 DEF TypeOK, SlotTypes, QueueFwd
    <2> QED  BY <1>0, <1>1, <2>1, HopParts DEF Adds
  <1> QED  BY <1>3, <1>4, <1>7, <1>8

\* The same of the link behind, for the answers.
LEMMA TakeBackMoves ==
    ASSUME TypeOK, NEW b \in Board, bLink[Succ(b)] # <<>>, PopBwd(b),
           NEW x, x = NoFrame \/ (brx[b] = NoFrame /\ x = BwdHead(b)),
           brx' = [brx EXCEPT ![b] = x],
           UNCHANGED bwdSlot \/ \E f : QueueBwd(b, f)
    PROVE  /\ Takes(Back(Succ(b)), Back(Succ(b))')
           /\ Back(Succ(b)).latch = brx[b] /\ Head(Back(Succ(b)).link) = BwdHead(b)
           /\ \A c \in Board : c # Succ(b) /\ c # b => Same(Back(c), Back(c)')
           /\ UNCHANGED bwdSlot => Same(Back(b), Back(b)')
           /\ \A f : QueueBwd(b, f) => Adds(Back(b), Back(b)', f)
  <1> DEFINE p == Succ(b)
  <1>0. p \in Board /\ Pred(p) = b /\ p # b /\ Pred(b) # b /\ Pred(b) \in Board
        /\ \A c \in Board : c # p => Pred(c) # b /\ Pred(c) \in Board
    BY Apart
  <1>1. \A c \in Board : c # p => brx'[Pred(c)] = brx[Pred(c)] /\ bLink'[c] = bLink[c]
    BY <1>0 DEF TypeOK, LinkTypes, PopBwd
  <1>2. \A c \in Board : c # b => /\ bwdPending'[c] = bwdPending[c]
                                  /\ btxBeat1'[c] = btxBeat1[c] /\ bwd'[c] = bwd[c]
    BY DEF TypeOK, SlotTypes, bwdSlot, QueueBwd
  <1>3. \A c \in Board : c # p /\ c # b => Same(Back(c), Back(c)')
    BY <1>1, <1>2, BackParts DEF Same
  <1>4. UNCHANGED bwdSlot => Same(Back(b), Back(b)')
    BY <1>0, <1>1, BackParts DEF Same, bwdSlot
  <1>5. bLink'[p] = Tail(bLink[p]) /\ brx'[b] = x
    BY <1>0 DEF TypeOK, LinkTypes, PopBwd
  <1>6. BwdHead(b) = Head(bLink[p])
    BY DEF BwdHead
  <1>7. Takes(Back(p), Back(p)') /\ Back(p).latch = brx[b] /\ Head(Back(p).link) = BwdHead(b)
    BY <1>0, <1>2, <1>5, <1>6, BackParts DEF Takes
  <1>8. ASSUME NEW f, QueueBwd(b, f) PROVE Adds(Back(b), Back(b)', f)
    <2>1. bwd'[b] = f /\ bwdPending'[b] /\ btxBeat1'[b] = btxBeat1[b]
      BY <1>8 DEF TypeOK, SlotTypes, QueueBwd
    <2> QED  BY <1>0, <1>1, <2>1, BackParts DEF Adds
  <1> QED  BY <1>3, <1>4, <1>7, <1>8

\* A board queues a frame forward, or an answer.
LEMMA QueueMoves ==
    ASSUME TypeOK, NEW b \in Board, NEW f, QueueFwd(b, f), UNCHANGED <<fLink, frx>>
    PROVE  /\ Adds(Hop(b), Hop(b)', f)
           /\ \A c \in Board : c # b => Same(Hop(c), Hop(c)')
  <1>1. \A c \in Board : c # b => Same(Hop(c), Hop(c)')
    BY DEF Hop, Same, TypeOK, SlotTypes, QueueFwd
  <1>2. fwd'[b] = f /\ fwdPending'[b] /\ ftxBeat1'[b] = ftxBeat1[b]
    BY DEF TypeOK, SlotTypes, QueueFwd
  <1> QED  BY <1>1, <1>2, HopParts DEF Adds

LEMMA QueueBackMoves ==
    ASSUME TypeOK, NEW b \in Board, NEW f, QueueBwd(b, f), UNCHANGED <<bLink, brx>>
    PROVE  /\ Adds(Back(b), Back(b)', f)
           /\ \A c \in Board : c # b => Same(Back(c), Back(c)')
  <1>1. \A c \in Board : c # b => Same(Back(c), Back(c)')
    BY DEF Back, Same, TypeOK, SlotTypes, QueueBwd
  <1>2. bwd'[b] = f /\ bwdPending'[b] /\ btxBeat1'[b] = btxBeat1[b]
    BY DEF TypeOK, SlotTypes, QueueBwd
  <1> QED  BY <1>1, <1>2, BackParts DEF Adds

\* A dropped cable, and the board that starts over because of it.
LEMMA LinkDownMoves ==
    ASSUME TypeOK, NEW b \in Board, LinkDown(b)
    PROVE  /\ \A c \in Board : Shifts(Hop(c), Hop(c)')
           /\ \A K, c : c \in Board /\ Closed(K) /\ Only(Back(c), K) => Only(Back(c)', K)
           /\ relayQ' = [relayQ EXCEPT ![Succ(b)] = <<>>]
  <1> DEFINE d == Succ(b)
  <1>0. d \in Board /\ d # b /\ Pred(d) = b /\ Succ(d) # d /\ Pred(b) # b
        /\ (\A c \in Board : c # b => Succ(c) # d /\ Succ(c) \in Board)
        /\ (\A c \in Board : Pred(c) = d => c = Succ(d))
        /\ Succ(d) \in Board /\ Pred(Succ(d)) = d
    BY Apart, Ring
  <1>1. /\ fwd' = fwd /\ fwdPending' = [fwdPending EXCEPT ![d] = FALSE]
        /\ ftxBeat1' = [ftxBeat1 EXCEPT ![d] = FALSE]
        /\ bwd' = bwd /\ bwdPending' = [bwdPending EXCEPT ![d] = FALSE]
        /\ btxBeat1' = [btxBeat1 EXCEPT ![d] = FALSE]
        /\ frx' = [frx EXCEPT ![d] = NoFrame] /\ brx' = [brx EXCEPT ![d] = NoFrame]
        /\ relayQ' = [relayQ EXCEPT ![d] = <<>>]
        /\ fLink' = [fLink EXCEPT ![b] = <<>>] /\ bLink' = [bLink EXCEPT ![d] = <<>>]
    BY DEF LinkDown, ResetBoard
  <1>2. CableWiped(Hop(b), Hop(b)')
    <2>1. /\ fwd'[b] = fwd[b] /\ fwdPending'[b] = fwdPending[b] /\ ftxBeat1'[b] = ftxBeat1[b]
          /\ frx'[Succ(b)] = NoFrame /\ fLink'[b] = <<>>
      BY <1>0, <1>1 DEF TypeOK, SlotTypes, LinkTypes
    <2> QED  BY <2>1, HopParts DEF CableWiped
  <1>3. SenderWiped(Hop(d), Hop(d)') /\ (Hop(d)').latch = Hop(d).latch
    <2>1. /\ fwd'[d] = fwd[d] /\ fwdPending'[d] = FALSE /\ ftxBeat1'[d] = FALSE
          /\ frx'[Succ(d)] = frx[Succ(d)] /\ fLink'[d] = fLink[d]
      BY <1>0, <1>1 DEF TypeOK, SlotTypes, LinkTypes
    <2> QED  BY <1>0, <2>1, HopParts DEF SenderWiped
  <1>4. \A c \in Board : c # b /\ c # d => Same(Hop(c), Hop(c)')
    <2>1. \A c \in Board : c # b /\ c # d =>
            /\ fwd'[c] = fwd[c] /\ fwdPending'[c] = fwdPending[c] /\ ftxBeat1'[c] = ftxBeat1[c]
            /\ frx'[Succ(c)] = frx[Succ(c)] /\ fLink'[c] = fLink[c]
      BY <1>0, <1>1 DEF TypeOK, SlotTypes, LinkTypes
    <2> QED  BY <2>1, HopParts DEF Same
  <1>5. ASSUME NEW K, Closed(K), NEW c \in Board, Only(Back(c), K)
        PROVE  Only(Back(c)', K)
    <2>1. /\ bwd'[c] = bwd[c] /\ (bwdPending'[c] => bwdPending[c])
          /\ bLink'[c] = bLink[c] \/ bLink'[c] = <<>>
      BY <1>0, <1>1 DEF TypeOK, SlotTypes, LinkTypes
    <2>2. Pred(c) \in Board
      BY Neighbours
    <2>3. brx'[Pred(c)] = brx[Pred(c)] \/ brx'[Pred(c)] = NoFrame
      BY <1>1, <2>2 DEF TypeOK, LinkTypes
    <2> QED  BY <1>5, <2>1, <2>3, BackParts, AmongNothing DEF Only, Closed
  <1>6. \A c \in Board : Shifts(Hop(c), Hop(c)')
    BY <1>2, <1>3, <1>4 DEF Shifts, Moves, Same
  <1> QED  BY <1>1, <1>5, <1>6

\* The reset of a board whose hops are clear.
LEMMA ResetMoves ==
    ASSUME TypeOK, NEW b \in Board, ResetBoard(b), UNCHANGED links, frx[b] = NoFrame
    PROVE  \A c \in Board : Shifts(Hop(c), Hop(c)')
  <1>1. /\ fwd' = fwd /\ fwdPending' = [fwdPending EXCEPT ![b] = FALSE]
        /\ ftxBeat1' = [ftxBeat1 EXCEPT ![b] = FALSE]
        /\ frx' = [frx EXCEPT ![b] = NoFrame] /\ fLink' = fLink
    BY DEF ResetBoard, links
  <1>2. frx' = frx
    BY <1>1 DEF TypeOK, LinkTypes
  <1>3. \A c \in Board : fLink'[c] = fLink[c] /\ frx'[Succ(c)] = frx[Succ(c)]
    BY <1>1, <1>2, Zenon
  <1>4. \A c \in Board : c # b => Same(Hop(c), Hop(c)')
    <2>1. \A c \in Board : c # b =>
            fwd'[c] = fwd[c] /\ fwdPending'[c] = fwdPending[c] /\ ftxBeat1'[c] = ftxBeat1[c]
      BY <1>1 DEF TypeOK, SlotTypes
    <2>2. \A c \in Board : (Hop(c)').link = Hop(c).link /\ (Hop(c)').latch = Hop(c).latch
      BY <1>3, HopParts
    <2> QED  BY <2>1, <2>2, HopParts DEF Same
  <1>5. SenderWiped(Hop(b), Hop(b)')
    <2>1. fwd'[b] = fwd[b] /\ fwdPending'[b] = FALSE /\ ftxBeat1'[b] = FALSE
      BY <1>1 DEF TypeOK, SlotTypes
    <2>2. (Hop(b)').link = Hop(b).link /\ (Hop(b)').latch = Hop(b).latch
      BY <1>3, HopParts
    <2> QED  BY <2>1, <2>2, HopParts DEF SenderWiped
  <1> QED  BY <1>4, <1>5 DEF Shifts, Moves, Same, SenderWiped

-----------------------------------------------------------------------------
\* What was within the first n is within more of them.
LEMMA WithinMore ==
    ASSUME NEW s, NEW t, NEW n \in Nat, NEW m \in Nat, n <= m, Within(s, t, n)
    PROVE  Within(s, t, m)
  <1>1. PICK at \in [1..Len(s) -> 1..n] :
          /\ \A i, j \in 1..Len(s) : i < j => at[i] < at[j]
          /\ \A i \in 1..Len(s) : s[i] = t[at[i]]
    BY DEF Within
  <1>2. at \in [1..Len(s) -> 1..m]
    OBVIOUS
  <1> QED  BY <1>1, <1>2 DEF Within

\* A longer t begins as t does.
LEMMA WithinLonger ==
    ASSUME NEW s, NEW S, NEW t \in Seq(S), NEW e \in S, Within(s, t, Len(t))
    PROVE  Within(s, Append(t, e), Len(t)) /\ Len(Append(t, e)) = Len(t) + 1
  <1>1. PICK at \in [1..Len(s) -> 1..Len(t)] :
          /\ \A i, j \in 1..Len(s) : i < j => at[i] < at[j]
          /\ \A i \in 1..Len(s) : s[i] = t[at[i]]
    BY DEF Within
  <1>2. Len(Append(t, e)) = Len(t) + 1 /\ \A i \in 1..Len(t) : Append(t, e)[i] = t[i]
    BY AppendProperties
  <1>3. \A i \in 1..Len(s) : s[i] = Append(t, e)[at[i]]
    BY <1>1, <1>2
  <1> QED  BY <1>1, <1>2, <1>3 DEF Within

\* The next element may follow.
LEMMA WithinNext ==
    ASSUME NEW S, NEW s \in Seq(S), NEW t \in Seq(S), t # <<>>, Within(s, t, Len(t) - 1)
    PROVE  Within(Append(s, t[Len(t)]), t, Len(t))
  <1>1. PICK at \in [1..Len(s) -> 1..Len(t) - 1] :
          /\ \A i, j \in 1..Len(s) : i < j => at[i] < at[j]
          /\ \A i \in 1..Len(s) : s[i] = t[at[i]]
    BY DEF Within
  <1>2. PICK n \in Nat : n = Len(t) /\ n >= 1 /\ n \in 1..n
    BY EmptySeq, LenProperties
  <1>3. PICK m \in Nat : m = Len(s)
    BY LenProperties
  <1>4. t[n] \in S
    BY <1>2, ElementOfSeq
  <1> DEFINE u == Append(s, t[n])
             to == [i \in 1..m + 1 |-> IF i <= m THEN at[i] ELSE n]
  <1>5. Len(u) = m + 1 /\ u[m + 1] = t[n] /\ \A i \in 1..m : u[i] = s[i]
    BY <1>3, <1>4, AppendProperties
  <1>6. /\ \A i \in 1..m : at[i] \in 1..n - 1 /\ to[i] = at[i]
        /\ to[m + 1] = n
    BY <1>1, <1>2, <1>3
  <1>7. to \in [1..m + 1 -> 1..n]
    <2>1. ASSUME NEW i \in 1..m + 1 PROVE (IF i <= m THEN at[i] ELSE n) \in 1..n
      <3>1. i <= m => at[i] \in 1..n - 1
        <4>1. i <= m => i \in 1..m
          OBVIOUS
        <4> QED  BY <1>6, <4>1
      <3> QED  BY <1>2, <3>1
    <2> QED  BY <2>1
  <1> HIDE DEF to, u
  <1>8. ASSUME NEW i \in 1..m + 1, NEW j \in 1..m + 1, i < j
        PROVE  to[i] < to[j]
    <2>1. i \in 1..m
      BY <1>8
    <2>2. CASE j \in 1..m
      BY <1>1, <1>3, <1>6, <1>8, <2>1, <2>2
    <2>3. CASE j = m + 1
      BY <1>6, <2>1, <2>3
    <2> QED  BY <2>2, <2>3
  <1>9. ASSUME NEW i \in 1..m + 1 PROVE u[i] = t[to[i]]
    <2>1. CASE i \in 1..m
      BY <1>1, <1>3, <1>5, <1>6, <2>1
    <2>2. CASE i = m + 1
      BY <1>5, <1>6, <2>2
    <2> QED  BY <2>1, <2>2
  <1>10. Within(u, t, n)
    BY <1>5, <1>7, <1>8, <1>9 DEF Within
  <1> QED  BY <1>2, <1>10 DEF u

\* A subsequence is within the whole.
LEMMA Subsequence == \A s, t : IsSubsequenceOf(s, t) <=> Within(s, t, Len(t))
  BY DEF IsSubsequenceOf, Within

-----------------------------------------------------------------------------
LossInv == FireInv /\ Losses

\* A beat follows on the cable that is not the transmitter's.
Appends(h, k, d) == /\ k.link = Append(h.link, d) /\ k.slot = h.slot /\ k.pending = h.pending
                    /\ k.half = h.half /\ k.latch = h.latch

\* A relayed data frame of the set adds no other.
LEMMA AppendOnly ==
    ASSUME NEW h, NEW k, NEW K, Wired(h), Closed(K), Only(h, K), NEW d \in K, Appends(h, k, d)
    PROVE  Only(k, K)
  <1>1. Among(Append(h.link, d), K)
    BY AmongAppend DEF Only, Wired, Closed
  <1> QED  BY <1>1 DEF Only, Appends

\* What each hop may do in a phase, and what else may change.
AskingHop(h, k) == Moves(h, k) \/ \E f \in AskingBeats : Adds(h, k, f) \/ Appends(h, k, f)
AskingStep == /\ ~Ready'
              /\ \A c \in Board : /\ AskingHop(Hop(c), Hop(c)')
                                  /\ Among(relayQ'[c], AskingBeats)
                                  /\ Only(Back(c)', AnswerBeats)
Relays(c) == /\ c # Master /\ ~Clear(Hop(Pred(c)))
             /\ \E f \in PlainBeats \cap Goless : Adds(Hop(c), Hop(c)', f)
PlainStep == \A c \in Board : relayQ'[c] = <<>> /\ (Shifts(Hop(c), Hop(c)') \/ Relays(c))
\* The GOs decided and, beyond the master, the fires stay; no handshake begins.
SameGos == /\ goLog' = goLog /\ (waiting' => waiting)
           /\ \A b \in Board : b # Master => fires'[b] = fires[b]

\* A ring that is asking goes on asking.
LEMMA AskingKept == ASSUME FireInv, Asking, AskingStep PROVE Asking'
  <1>1. ASSUME NEW c \in Board PROVE Only(Hop(c)', AskingBeats)
    <2>1. Only(Hop(c), AskingBeats) /\ Wired(Hop(c)) /\ AskingHop(Hop(c), Hop(c)')
      BY HopsWired DEF Asking, AskingStep
    <2> QED  BY <2>1, MoveOnly, AddOnly, AppendOnly, ClosedSets DEF AskingHop
  <1> QED  BY <1>1 DEF AskingStep, Asking

\* A board behind the frame at s has its hop clear; s itself keeps its slot.
LEMMA RelaysBeyond ==
    ASSUME NEW s \in Board, GoAt(s), NEW c \in Board, Relays(c)
    PROVE  Dist(c) > Dist(s)
  <1>1. Pred(c) \in Board /\ Dist(Pred(c)) \in Nat /\ Dist(s) \in Nat /\ Dist(c) = Dist(Pred(c)) + 1
    BY Ring, Places, BoardAssumption DEF Relays, Board
  <1>2. ~(Dist(Pred(c)) < Dist(s))
    BY <1>1 DEF GoAt, Relays
  <1> QED  BY <1>1, <1>2

\* The GO stays on its hop while nobody takes its payload.
LEMMA GoAtKept ==
    ASSUME FireInv, NEW s \in Board, GoAt(s), PlainStep, SameGos
    PROVE  GoAt(s)'
  <1>1. ~waiting' /\ goLog' # <<>> /\ LastGo' = LastGo
    BY DEF GoAt, SameGos, LastGo
  <1>2. \A c \in Board : ~(Dist(c) > Dist(s)) => Shifts(Hop(c), Hop(c)')
    BY RelaysBeyond DEF PlainStep
  <1>3. \A c \in Board : Dist(c) \in Nat /\ ~(Dist(c) > Dist(c))
    <2>1. \A c \in Board : Dist(c) \in 0..N-1
      BY Ring
    <2>2. \A d \in 0..N-1 : d \in Nat /\ ~(d > d)
      BY BoardAssumption
    <2> QED  BY <2>1, <2>2
  <1>4. Travels(Hop(s)', LastGo)
    <2>1. Shifts(Hop(s), Hop(s)') /\ Travels(Hop(s), LastGo) /\ Wired(Hop(s))
      BY <1>2, <1>3, HopsWired DEF GoAt
    <2> QED  BY <2>1, MoveTravels
  <1>5. ASSUME NEW c \in Board, Dist(c) < Dist(s) PROVE Clear(Hop(c)')
    <2>1. Shifts(Hop(c), Hop(c)') /\ Clear(Hop(c)) /\ Wired(Hop(c))
      BY <1>2, <1>3, <1>5, HopsWired DEF GoAt
    <2> QED  BY <2>1, MoveClear DEF Shifts
  <1>6. ASSUME NEW c \in Board, c # s PROVE Only(Hop(c)', Goless)
    <2>1. Only(Hop(c), Goless) /\ Wired(Hop(c))
      BY <1>6, HopsWired DEF GoAt
    <2>2. Shifts(Hop(c), Hop(c)') \/ \E f \in Goless : Adds(Hop(c), Hop(c)', f)
      BY DEF PlainStep, Relays
    <2> QED  BY <2>1, <2>2, MoveOnly, AddOnly, ClosedSets DEF Shifts
  <1>7. ASSUME NEW c \in Board, Dist(c) > Dist(s) PROVE LacksLast(c)'
    <2>1. c # Master
      BY <1>3, <1>7, Ring
    <2> QED  BY <1>7, <2>1 DEF GoAt, LacksLast, SameGos
  <1> QED  BY <1>1, <1>4, <1>5, <1>6, <1>7 DEF GoAt

\* No new kind of frame, and no GO, appears on a plain ring.
LEMMA PlainKept ==
    ASSUME FireInv, Plain, PlainStep
    PROVE  Plain' /\ (NoGo => NoGo')
  <1>1. ASSUME NEW K, Closed(K), NEW c \in Board, Only(Hop(c), K), PlainBeats \cap Goless \subseteq K
        PROVE  Only(Hop(c)', K)
    <2>1. Wired(Hop(c)) /\ (Shifts(Hop(c), Hop(c)') \/ \E f \in K : Adds(Hop(c), Hop(c)', f))
      BY <1>1, HopsWired DEF PlainStep, Relays
    <2> QED  BY <1>1, <2>1, MoveOnly, AddOnly DEF Shifts
  <1>2. Plain'
    BY <1>1, ClosedSets DEF Plain, PlainStep
  <1>3. NoGo => NoGo'
    BY <1>1, ClosedSets DEF NoGo
  <1> QED  BY <1>2, <1>3

\* A step that neither decides nor takes a GO.
LEMMA LossStep ==
    ASSUME LossInv, Unstreaming', FiresAreGos', MasterDue', SameGos,
           Asking => AskingStep, Plain => PlainStep
    PROVE  Losses'
  <1>1. CASE Asking
    BY <1>1, AskingKept DEF LossInv, Losses
  <1>2. CASE Plain /\ NoGo
    BY <1>2, PlainKept DEF LossInv, Losses
  <1>3. CASE Plain /\ \E s \in Board : GoAt(s)
    BY <1>3, PlainKept, GoAtKept DEF LossInv, Losses
  <1> QED  BY <1>1, <1>2, <1>3 DEF LossInv, Losses

\* Fires, GOs and the master's debt as they were.
LEMMA DueKept ==
    ASSUME Losses, UNCHANGED <<fires, goLog, goTx, pendGroup>>
    PROVE  FiresAreGos' /\ MasterDue'
  BY DEF Losses, FiresAreGos, MasterDue, LacksLast, LastGo

\* What the invariant says of the types.
LEMMA LossTypes ==
    ASSUME LossInv
    PROVE  /\ FireInv /\ OwnInv /\ TypeOK /\ SlotDiscipline /\ MasterFiresOncePerGo /\ Losses
           /\ Unstreaming /\ FiresAreGos /\ MasterDue
           /\ boardId[Master] = 0 /\ Master \in Board
           /\ goLog \in Seq(0..15) /\ fires \in [Board -> Seq(0..15)] /\ pendGroup \in 0..15
  BY BoardAssumption DEF LossInv, Losses, FireInv, OwnInv, MasterKnown, TypeOK, HistTypes, TrigTypes

\* Moves that leave a latched GO alone.
LEMMA EasyShifts ==
    ASSUME NEW h, NEW k
    PROVE  /\ Same(h, k) => Shifts(h, k)
           /\ SendsHeader(h, k) => Shifts(h, k)
           /\ SendsPayload(h, k) => Shifts(h, k)
           /\ Takes(h, k) /\ h.latch.type # "GO" => Shifts(h, k)
  BY DEF Same, Shifts, Moves, SendsHeader, SendsPayload

\* The backward hops, the relay FIFOs and the handshake as they were.
LEMMA AskingStill ==
    ASSUME UNCHANGED <<relayQ, bwdSlot, bLink, brx, waiting, goSent, total, ackCount>>,
           \A c \in Board : AskingHop(Hop(c), Hop(c)')
    PROVE  Asking => AskingStep
  <1>1. \A c \in Board : Same(Back(c), Back(c)')
    BY BackwardKept
  <1>2. \A c \in Board : Only(Back(c), AnswerBeats) => Only(Back(c)', AnswerBeats)
    BY <1>1 DEF Same, Only
  <1>3. Ready' <=> Ready
    BY DEF Ready, TotalEff
  <1> QED  BY <1>2, <1>3 DEF Asking, AskingStep

\* The relay FIFOs stay empty.
LEMMA PlainStill ==
    ASSUME UNCHANGED relayQ, \A c \in Board : Shifts(Hop(c), Hop(c)') \/ Relays(c)
    PROVE  Plain => PlainStep
  BY DEF Plain, PlainStep

\* Nobody starts to stream.
LEMMA Unstreamed0 ==
    ASSUME Unstreaming, UNCHANGED <<busy, budget>>
    PROVE  Unstreaming'
  BY DEF Unstreaming

\* The header leaves.
LEMMA FwdTxBeat0Loss == ASSUME LossInv, NEW b \in Board, FwdTxBeat0(b) PROVE Losses'
  <1>1. \A c \in Board : Shifts(Hop(c), Hop(c)')
    BY LossTypes, FwdTxBeat0Moves, EasyShifts
  <1>2. /\ UNCHANGED <<relayQ, bwdSlot, bLink, brx, waiting, goSent, total, ackCount>>
        /\ UNCHANGED <<fires, goLog, goTx, pendGroup, busy, budget>>
    BY DEF FwdTxBeat0, layer2, masterVars, enumVars, trigVars, hist
  <1>3. (Asking => AskingStep) /\ (Plain => PlainStep)
    BY <1>1, <1>2, AskingStill, PlainStill DEF AskingHop, Shifts
  <1> QED  BY <1>2, <1>3, LossTypes, DueKept, Unstreamed0, LossStep DEF SameGos

\* The master fires for the GO that leaves it: the last, and the first time.
LEMMA MasterFiresLast ==
    ASSUME LossInv, UNCHANGED <<goLog, pendGroup>>, MasterFires(Master)
    PROVE  FiresAreGos' /\ MasterDue' /\ \A b \in Board : b # Master => fires'[b] = fires[b]
  <1>1. CASE goTx
    <2>1. ~goTx' /\ fires' = [fires EXCEPT ![Master] = Append(@, pendGroup)]
      BY <1>1 DEF MasterFires
    <2>2. MasterDue'
      BY <2>1 DEF MasterDue
    <2>3. fires'[Master] = Append(fires[Master], goLog[Len(goLog)])
          /\ goLog # <<>> /\ Within(fires[Master], goLog, Len(goLog) - 1)
      BY <1>1, <2>1, LossTypes DEF MasterDue, LastGo, LacksLast
    <2>4. Within(fires'[Master], goLog, Len(goLog))
      BY <2>3, LossTypes, WithinNext
    <2>5. \A b \in Board : b # Master => fires'[b] = fires[b]
      BY <2>1, LossTypes
    <2>6. \A b \in Board : IsSubsequenceOf(fires'[b], goLog)
      BY <2>4, <2>5, LossTypes, Subsequence DEF FiresAreGos
    <2> QED  BY <2>2, <2>5, <2>6 DEF FiresAreGos
  <1>2. CASE ~goTx
    <2>1. UNCHANGED <<fires, goTx>>
      BY <1>2 DEF MasterFires
    <2> QED  BY <2>1, LossTypes, DueKept
  <1> QED  BY <1>1, <1>2

\* The payload leaves, and the master fires if it was its GO.
LEMMA FwdTxBeat1Loss == ASSUME LossInv, NEW b \in Board, FwdTxBeat1(b) PROVE Losses'
  <1>1. \A c \in Board : Shifts(Hop(c), Hop(c)')
    BY LossTypes, FwdTxBeat1Moves, EasyShifts
  <1>2. /\ UNCHANGED <<relayQ, bwdSlot, bLink, brx, waiting, goSent, total, ackCount>>
        /\ UNCHANGED <<goLog, pendGroup, busy, budget>> /\ MasterFires(b)
    BY DEF FwdTxBeat1, layer2, enumVars
  <1>3. (Asking => AskingStep) /\ (Plain => PlainStep)
    BY <1>1, <1>2, AskingStill, PlainStill DEF AskingHop, Shifts
  <1>4. FiresAreGos' /\ MasterDue' /\ \A c \in Board : c # Master => fires'[c] = fires[c]
    <2>1. CASE b = Master
      BY <1>2, <2>1, MasterFiresLast
    <2>2. CASE b # Master
      <3>1. UNCHANGED <<fires, goTx>>
        BY <1>2, <2>2 DEF MasterFires
      <3> QED  BY <1>2, <3>1, LossTypes, DueKept
    <2> QED  BY <2>1, <2>2
  <1> QED  BY <1>2, <1>3, <1>4, LossTypes, Unstreamed0, LossStep DEF SameGos

\* An answer leaves.
LEMMA BwdTxLoss == ASSUME LossInv, NEW b \in Board, TxBack(b) PROVE Losses'
  <1>1. /\ UNCHANGED <<relayQ, fwdSlot, fLink, frx, waiting, goSent, total, ackCount>>
        /\ UNCHANGED <<fires, goLog, goTx, pendGroup, busy, budget>>
    BY DEF TxBack, BwdTxBeat0, BwdTxBeat1, layer2, masterVars, enumVars, trigVars, hist
  <1>2. \A c \in Board : Moves(Back(c), Back(c)')
    BY LossTypes, BwdTxBeat0Moves, BwdTxBeat1Moves DEF TxBack
  <1>3. \A c \in Board : Shifts(Hop(c), Hop(c)')
    BY <1>1, ForwardKept, EasyShifts
  <1>4. ASSUME Asking PROVE AskingStep
    <2>1. \A c \in Board : Only(Back(c)', AnswerBeats)
      BY <1>2, <1>4, LossTypes, HopsWired, MoveOnly, ClosedSets DEF Asking
    <2>2. Ready' <=> Ready
      BY <1>1 DEF Ready, TotalEff
    <2> QED  BY <1>1, <1>3, <1>4, <2>1, <2>2 DEF Asking, AskingStep, AskingHop, Shifts
  <1>5. Plain => PlainStep
    BY <1>1, <1>3, PlainStill
  <1> QED  BY <1>1, <1>4, <1>5, LossTypes, DueKept, Unstreamed0, LossStep DEF SameGos

\* T_BOARD_ID_ASSIGN leaves the relay FIFO; only an asking ring has one.
LEMMA RelayTxLoss == ASSUME LossInv, NEW b \in Board, RelayTx(b) PROVE Losses'
  <1>1. /\ UNCHANGED <<bwdSlot, bLink, brx, fwdSlot, frx, waiting, goSent, total, ackCount>>
        /\ UNCHANGED <<fires, goLog, goTx, pendGroup, busy, budget>>
    BY DEF RelayTx, masterVars, enumVars, trigVars, hist
  <1>2. ~Plain
    BY DEF Plain, RelayTx
  <1>3. ASSUME Asking PROVE AskingStep
    <2>1. relayQ[b] \in Seq(Beat) /\ relayQ[b] # <<>> /\ Among(relayQ[b], AskingBeats)
      BY <1>3, LossTypes, HopTypes DEF RelayTx, Asking
    <2>2. Head(relayQ[b]) \in AskingBeats /\ Among(Tail(relayQ[b]), AskingBeats)
      BY <2>1, AmongTail
    <2>3. \A c \in Board : Among(relayQ'[c], AskingBeats)
      BY <1>3, <2>2, LossTypes DEF RelayTx, Asking, TypeOK, Layer2Types
    <2>4. ASSUME NEW c \in Board PROVE AskingHop(Hop(c), Hop(c)')
      <3>1. fLink'[c] = fLink[c] \/ (c = b /\ fLink'[c] = Append(fLink[c], Head(relayQ[b])))
        BY LossTypes DEF RelayTx, TypeOK, LinkTypes
      <3>2. Same(Hop(c), Hop(c)') \/ Appends(Hop(c), Hop(c)', Head(relayQ[b]))
        BY <1>1, <3>1, HopParts DEF Same, Appends, fwdSlot
      <3> QED  BY <2>2, <3>2 DEF AskingHop, Moves
    <2>5. \A c \in Board : Same(Back(c), Back(c)')
      BY <1>1, BackwardKept
    <2>6. \A c \in Board : Only(Back(c)', AnswerBeats)
      BY <1>3, <2>5 DEF Same, Only, Asking
    <2>7. Ready' <=> Ready
      BY <1>1 DEF Ready, TotalEff
    <2> QED  BY <1>3, <2>3, <2>4, <2>6, <2>7 DEF Asking, AskingStep
  <1> QED  BY <1>1, <1>2, <1>3, LossTypes, DueKept, Unstreamed0, LossStep DEF SameGos

\* All transmitters.
LEMMA TxLoss == ASSUME LossInv, NEW b \in Board, Tx(b) \/ TxBack(b) PROVE Losses'
  <1>1. ~StreamEnd(b)
    BY LossTypes DEF StreamEnd, Unstreaming
  <1> QED  BY <1>1, FwdTxBeat0Loss, FwdTxBeat1Loss, RelayTxLoss, BwdTxLoss DEF Tx

\* Steps that leave the forward side and the triggers alone.
LEMMA ForwardStillLoss ==
    ASSUME LossInv, Unstreaming', UNCHANGED <<relayQ, fwdSlot, fLink, frx>>,
           FiresAreGos', MasterDue', SameGos,
           Asking => ~Ready' /\ \A c \in Board : Only(Back(c)', AnswerBeats)
    PROVE  Losses'
  <1>1. \A c \in Board : Shifts(Hop(c), Hop(c)')
    BY ForwardKept, EasyShifts
  <1>2. Asking => AskingStep
    BY <1>1 DEF Asking, AskingStep, AskingHop, Shifts
  <1>3. Plain => PlainStep
    BY <1>1, PlainStill
  <1> QED  BY <1>2, <1>3, LossStep

\* Timeouts send nothing.
LEMMA TimeoutLoss == ASSUME LossInv, Timeout \/ UNCHANGED vars PROVE Losses'
  <1>1. /\ UNCHANGED <<relayQ, fwdSlot, fLink, frx, bwdSlot, bLink, brx, waiting, goSent, total, ackCount>>
        /\ UNCHANGED <<fires, goLog, goTx, pendGroup, busy, budget>>
    BY DEF Timeout, EnumTimeout, ReserveTimeout, DiagTimeout, vars, layer2, links, masterVars,
           enumVars, trigVars, hist
  <1>2. \A c \in Board : Same(Back(c), Back(c)')
    BY <1>1, BackwardKept
  <1>3. Asking => ~Ready' /\ \A c \in Board : Only(Back(c)', AnswerBeats)
    <2>1. Ready' <=> Ready
      BY <1>1 DEF Ready, TotalEff
    <2> QED  BY <1>2, <2>1 DEF Same, Only, Asking
  <1> QED  BY <1>1, <1>3, LossTypes, DueKept, Unstreamed0, ForwardStillLoss DEF SameGos

\* Another payload leaves a frame in its set.
LEMMA PayloadKept ==
    ASSUME NEW f \in Beat, NEW x \in Word
    PROVE  /\ [f EXCEPT !.pl = x] \in Beat /\ [f EXCEPT !.pl = x].pl = x
           /\ [f EXCEPT !.pl = x].type = f.type
           /\ f \in AskingBeats => [f EXCEPT !.pl = x] \in AskingBeats
           /\ f \in AnswerBeats => [f EXCEPT !.pl = x] \in AnswerBeats
           /\ f \in PlainBeats => [f EXCEPT !.pl = x] \in PlainBeats
           /\ f \in Goless => [f EXCEPT !.pl = x] \in Goless
  <1> DEFINE g == [f EXCEPT !.pl = x]
  <1>1. g \in Beat /\ g.type = f.type /\ g.src = f.src /\ g.dest = f.dest
    BY BeatParts, TypeOfFrame
  <1>2. g.pl = x
    BY DEF Beat
  <1> HIDE DEF g
  <1>3. /\ f \in AskingBeats => g \in AskingBeats
        /\ f \in AnswerBeats => g \in AnswerBeats
        /\ f \in PlainBeats => g \in PlainBeats
        /\ f \in Goless => g \in Goless
    BY <1>1 DEF AskingBeats, AnswerBeats, PlainBeats, Goless
  <1> QED  BY <1>1, <1>2, <1>3 DEF g

\* Board b takes the next beat off its link.
TakesBeat(b) == /\ fLink[Pred(b)] # <<>> /\ PopFwd(b)
                /\ \/ frx' = [frx EXCEPT ![b] = NoFrame]
                   \/ frx[b] = NoFrame /\ frx' = [frx EXCEPT ![b] = FwdHead(b)]

\* What the board finds on its link and in its latch.
LEMMA Found ==
    ASSUME LossInv, NEW b \in Board, fLink[Pred(b)] # <<>>
    PROVE  /\ FwdHead(b) \in Beat /\ frx[b] \in Beat /\ frx[b] \in OwnBeat
           /\ Asking => FwdHead(b) \in AskingBeats /\ frx[b] \in AskingBeats
           /\ Plain => FwdHead(b) \in PlainBeats /\ frx[b] \in PlainBeats
  <1> DEFINE p == Pred(b)
  <1>1. p \in Board /\ Succ(p) = b
    BY Apart
  <1>2. Hop(p).link = fLink[p] /\ Hop(p).latch = frx[b] /\ fLink[p] \in Seq(Beat)
    BY <1>1, HopParts, LossTypes, HopTypes
  <1>3. Head(fLink[p]) \in Beat /\ frx[b] \in Beat /\ frx[b] \in OwnBeat
    BY <1>2, LossTypes, TailBeats DEF TypeOK, LinkTypes, OwnInv, OwnFrames
  <1>4. \A K : Only(Hop(p), K) => Head(fLink[p]) \in K /\ frx[b] \in K
    BY <1>2, AmongTail DEF Only
  <1> QED  BY <1>1, <1>3, <1>4 DEF FwdHead, Asking, Plain

\* What it takes moves no GO into its hands unless it has latched the GO's header.
LEMMA TakenShifts ==
    ASSUME LossInv, NEW b \in Board, TakesBeat(b), frx[b].type # "GO",
           UNCHANGED fwdSlot \/ \E f : QueueFwd(b, f)
    PROVE  /\ \A c \in Board : c # b => Shifts(Hop(c), Hop(c)')
           /\ UNCHANGED fwdSlot => Shifts(Hop(b), Hop(b)')
           /\ \A f : QueueFwd(b, f) => Adds(Hop(b), Hop(b)', f)
           /\ ~Clear(Hop(Pred(b)))
  <1> DEFINE p == Pred(b)
  <1>1. PICK x : /\ x = NoFrame \/ (frx[b] = NoFrame /\ x = FwdHead(b))
                 /\ frx' = [frx EXCEPT ![b] = x]
    BY DEF TakesBeat
  <1>2. fLink[p] # <<>> /\ PopFwd(b)
    BY DEF TakesBeat
  <1>3. /\ Takes(Hop(p), Hop(p)') /\ Hop(p).latch = frx[b]
        /\ \A c \in Board : c # p /\ c # b => Same(Hop(c), Hop(c)')
        /\ UNCHANGED fwdSlot => Same(Hop(b), Hop(b)')
        /\ \A f : QueueFwd(b, f) => Adds(Hop(b), Hop(b)', f)
    BY <1>1, <1>2, LossTypes, TakeMoves
  <1>4. Shifts(Hop(p), Hop(p)') /\ ~Clear(Hop(p))
    BY <1>3, EasyShifts DEF Takes, Clear
  <1> QED  BY <1>3, <1>4, EasyShifts

\* A board takes a beat that ends no GO; what it queues belongs to the phase.
LEMMA ForwardRxLoss ==
    ASSUME LossInv, NEW b \in Board, TakesBeat(b), frx[b].type # "GO",
           UNCHANGED <<bLink, brx, fires, goLog, goTx, pendGroup, waiting, goSent, ackCount,
                       busy, budget>>,
           Asking => /\ total' = total
                     /\ UNCHANGED fwdSlot \/ \E f \in AskingBeats : QueueFwd(b, f)
                     /\ UNCHANGED bwdSlot \/ \E f \in AnswerBeats : QueueBwd(b, f)
                     /\ \A c \in Board : Among(relayQ'[c], AskingBeats),
           Plain => /\ UNCHANGED relayQ
                    /\ UNCHANGED fwdSlot
                       \/ (b # Master /\ \E f \in PlainBeats \cap Goless : QueueFwd(b, f))
    PROVE  Losses'
  <1>0. UNCHANGED fwdSlot \/ \E f : QueueFwd(b, f)
    BY LossTypes DEF Losses
  <1>1. /\ \A c \in Board : c # b => Shifts(Hop(c), Hop(c)')
        /\ UNCHANGED fwdSlot => Shifts(Hop(b), Hop(b)')
        /\ \A f : QueueFwd(b, f) => Adds(Hop(b), Hop(b)', f)
        /\ ~Clear(Hop(Pred(b)))
    BY <1>0, TakenShifts
  <1>2. ASSUME Asking PROVE AskingStep
    <2>1. \A c \in Board : AskingHop(Hop(c), Hop(c)')
      BY <1>1, <1>2 DEF AskingHop, Shifts
    <2>2. Ready' <=> Ready
      BY <1>2 DEF Ready, TotalEff
    <2>3. ASSUME NEW c \in Board PROVE Only(Back(c)', AnswerBeats)
      <3>1. CASE UNCHANGED bwdSlot
        <4>1. Same(Back(c), Back(c)')
          BY <3>1, BackwardKept
        <4> QED  BY <1>2, <4>1 DEF Same, Only, Asking
      <3>2. CASE ~UNCHANGED bwdSlot
        <4>1. PICK f \in AnswerBeats : QueueBwd(b, f)
          BY <1>2, <3>2
        <4>2. Adds(Back(b), Back(b)', f) /\ (c # b => Same(Back(c), Back(c)'))
          BY <4>1, LossTypes, QueueBackMoves
        <4>3. Only(Back(c), AnswerBeats)
          BY <1>2 DEF Asking
        <4>4. CASE c = b
          BY <4>1, <4>2, <4>3, <4>4, AddOnly
        <4>5. CASE c # b
          BY <4>2, <4>3, <4>5 DEF Same, Only
        <4> QED  BY <4>4, <4>5
      <3> QED  BY <3>1, <3>2
    <2> QED  BY <1>2, <2>1, <2>2, <2>3 DEF AskingStep, Asking
  <1>3. ASSUME Plain PROVE PlainStep
    <2>1. Shifts(Hop(b), Hop(b)') \/ Relays(b)
      BY <1>1, <1>3 DEF Relays
    <2> QED  BY <1>1, <1>3, <2>1 DEF PlainStep, Plain
  <1>4. FiresAreGos' /\ MasterDue' /\ Unstreaming'
    BY LossTypes, DueKept, Unstreamed0
  <1> QED  BY <1>2, <1>3, <1>4, LossStep DEF SameGos

\* A header is latched or ignored.
LEMMA RxHeaderLoss == ASSUME LossInv, NEW b \in Board, RxHeader(b) PROVE Losses'
  <1>1. TakesBeat(b)
    <2>1. frx[b] = NoFrame /\ (frx' = frx \/ frx' = [frx EXCEPT ![b] = FwdHead(b)])
      BY DEF RxHeader
    <2>2. frx' = frx => frx' = [frx EXCEPT ![b] = NoFrame]
      BY <2>1, LossTypes DEF TypeOK, LinkTypes
    <2> QED  BY <2>1, <2>2 DEF RxHeader, TakesBeat
  <1>2. frx[b].type # "GO"
    BY DEF RxHeader, NoFrame, Frame
  <1>3. /\ UNCHANGED <<bLink, brx, fires, goLog, goTx, pendGroup, waiting, goSent, ackCount,
                       busy, budget>>
        /\ UNCHANGED <<total, relayQ, fwdSlot, bwdSlot>>
    BY DEF RxHeader, PopFwd, layer2, masterVars, enumVars, trigVars, hist
  <1>4. Asking => \A c \in Board : Among(relayQ'[c], AskingBeats)
    BY <1>3 DEF Asking
  <1> QED  BY <1>1, <1>2, <1>3, <1>4, ForwardRxLoss

\* The counter is passed on, up to the master.
LEMMA RxEnumLoss == ASSUME LossInv, NEW b \in Board, RxEnum(b) PROVE Losses'
  <1>1. TakesBeat(b) /\ frx[b].type = "ENUM_COUNT"
    BY DEF RxEnum, RxPayload, TakesBeat
  <1>2. UNCHANGED <<bLink, brx, fires, goLog, goTx, pendGroup, waiting, goSent, ackCount,
                    busy, budget, relayQ>>
    BY DEF RxEnum, RxPayload, PopFwd, layer2, trigVars, hist
  <1>3. ~Asking
    BY <1>1, Found DEF AskingBeats, TakesBeat
  <1>4. ASSUME Plain
        PROVE  UNCHANGED fwdSlot
               \/ (b # Master /\ \E f \in PlainBeats \cap Goless : QueueFwd(b, f))
    <2>1. frx[b] \in PlainBeats /\ frx[b] \in Goless /\ frx[b].dest = 0 /\ frx[b] \in Beat
          /\ FwdHead(b) \in Beat
      BY <1>1, <1>4, Found DEF PlainBeats, Goless, TakesBeat
    <2>2. CASE frx[b].dest = boardId[b]
      BY <2>2 DEF RxEnum
    <2>3. CASE frx[b].dest # boardId[b]
      <3>1. b # Master
        BY <2>1, <2>3, LossTypes
      <3>2. PICK x \in Word : QueueFwd(b, [frx[b] EXCEPT !.pl = x])
        <4>1. QueueFwd(b, [frx[b] EXCEPT !.pl = Counted(FwdHead(b)) % 16])
          BY <2>3 DEF RxEnum
        <4>2. Counted(FwdHead(b)) % 16 \in Word
          <5>1. Low4(FwdHead(b)) \in 0..15
            BY <2>1, BitsInWord
          <5>2. \A n \in 0..15 : (n + 1) % 16 \in Word
            BY DEF Word
          <5> QED  BY <5>1, <5>2 DEF Counted
        <4> QED  BY <4>1, <4>2
      <3> QED  BY <2>1, <3>1, <3>2, PayloadKept
    <2> QED  BY <2>2, <2>3
  <1> QED  BY <1>1, <1>2, <1>3, <1>4, ForwardRxLoss

\* The PAUSE_REQ is passed on, up to the master.
LEMMA RxPauseReqLoss == ASSUME LossInv, NEW b \in Board, RxPauseReq(b) PROVE Losses'
  <1>1. TakesBeat(b) /\ frx[b].type = "PAUSE_REQ"
    BY DEF RxPauseReq, RxPayload, TakesBeat
  <1>2. UNCHANGED <<bLink, brx, fires, goLog, goTx, pendGroup, waiting, goSent, ackCount,
                    busy, budget, relayQ>>
    BY DEF RxPauseReq, RxPayload, PopFwd, SetLock, masterVars, trigVars, hist
  <1>3. ~Asking
    BY <1>1, Found DEF AskingBeats, TakesBeat
  <1>4. ASSUME Plain
        PROVE  UNCHANGED fwdSlot
               \/ (b # Master /\ \E f \in PlainBeats \cap Goless : QueueFwd(b, f))
    <2>1. frx[b] \in PlainBeats /\ frx[b] \in Goless /\ frx[b].src = 0 /\ frx[b] \in Beat
      BY <1>1, <1>4, Found DEF PlainBeats, Goless, TakesBeat
    <2>2. CASE RingReturn(b)
      BY <2>2 DEF RxPauseReq
    <2>3. CASE ~RingReturn(b)
      <3>1. b # Master
        BY <2>1, <2>3, LossTypes DEF RingReturn
      <3>2. QueueFwd(b, [frx[b] EXCEPT !.pl = 0]) /\ 0 \in Word
        BY <2>3, Widths DEF RxPauseReq
      <3> QED  BY <2>1, <3>1, <3>2, PayloadKept
    <2> QED  BY <2>2, <2>3
  <1> QED  BY <1>1, <1>2, <1>3, <1>4, ForwardRxLoss

\* The reservation is answered or passed on; no stream begins behind the check.
LEMMA RxReserveReqLoss == ASSUME LossInv, NEW b \in Board, RxReserveReq(b) PROVE Losses'
  <1>1. TakesBeat(b) /\ frx[b].type = "RESERVE_REQ"
    BY DEF RxReserveReq, RxPayload, TakesBeat
  <1>2. UNCHANGED <<bLink, brx, fires, goLog, goTx, pendGroup, waiting, goSent, ackCount,
                    busy, budget, relayQ, total>>
    <2>1. ~busy[b] /\ ~Spend("stream")
      BY LossTypes DEF Unstreaming, Spend
    <2>2. UNCHANGED <<busy, budget, relayQ>>
      BY <2>1 DEF RxReserveReq, LockAfterCheck
    <2> QED  BY <2>2 DEF RxReserveReq, RxPayload, PopFwd, masterVars, enumVars, trigVars, hist
  <1>3. ~Plain
    BY <1>1, Found DEF PlainBeats, TakesBeat
  <1>4. ASSUME Asking
        PROVE  /\ UNCHANGED fwdSlot \/ \E f \in AskingBeats : QueueFwd(b, f)
               /\ UNCHANGED bwdSlot \/ \E f \in AnswerBeats : QueueBwd(b, f)
    <2>1. frx[b] \in AskingBeats /\ frx[b] \in Beat /\ 0 \in Word /\ 1 \in Word /\ ~busy[b]
      BY <1>1, <1>4, Found, Widths, LossTypes DEF TakesBeat, Unstreaming, Word
    <2>2. [frx[b] EXCEPT !.pl = 0] \in AskingBeats
      BY <2>1, PayloadKept
    <2>3. Frame("RESERVE_ACK", boardId[b], frx[b].src, 1) \in AnswerBeats
      <3>1. boardId[b] \in Id /\ frx[b].src \in 0..Bcast
        BY <2>1, BeatParts, Widths, LossTypes DEF TypeOK, IdTypes
      <3>2. Frame("RESERVE_ACK", boardId[b], frx[b].src, 1) \in Beat
        BY <2>1, <3>1, FrameInBeat DEF BwdTypes
      <3> QED  BY <3>2, TypeOfFrame DEF AnswerBeats
    <2> QED  BY <2>1, <2>2, <2>3 DEF RxReserveReq
  <1>5. Asking => \A c \in Board : Among(relayQ'[c], AskingBeats)
    BY <1>2 DEF Asking
  <1> QED  BY <1>1, <1>2, <1>3, <1>4, <1>5, ForwardRxLoss

\* The DIAG is answered or passed on.
LEMMA RxDiagReqLoss == ASSUME LossInv, NEW b \in Board, RxDiagReq(b) PROVE Losses'
  <1>1. TakesBeat(b) /\ frx[b].type = "DIAG_REQ"
    BY DEF RxDiagReq, RxPayload, TakesBeat
  <1>2. UNCHANGED <<bLink, brx, fires, goLog, goTx, pendGroup, waiting, goSent, ackCount,
                    busy, budget, relayQ, total>>
    BY DEF RxDiagReq, RxPayload, PopFwd, layer2, enumVars, trigVars, hist
  <1>3. ~Plain
    BY <1>1, Found DEF PlainBeats, TakesBeat
  <1>4. ASSUME Asking
        PROVE  /\ UNCHANGED fwdSlot \/ \E f \in AskingBeats : QueueFwd(b, f)
               /\ UNCHANGED bwdSlot \/ \E f \in AnswerBeats : QueueBwd(b, f)
    <2>1. frx[b] \in AskingBeats /\ frx[b] \in Beat /\ 0 \in Word
      BY <1>1, <1>4, Found, Widths DEF TakesBeat
    <2>2. [frx[b] EXCEPT !.pl = 0] \in AskingBeats
      BY <2>1, PayloadKept
    <2>3. \A target \in BOOLEAN : DiagAck(b, target) \in AnswerBeats
      <3>1. \A target \in BOOLEAN : DiagAck(b, target) \in Beat
        BY <2>1, LossTypes, DiagAckInBeat
      <3>2. \A target \in BOOLEAN : DiagAck(b, target).type = "DIAG_ACK"
        BY TypeOfFrame DEF DiagAck
      <3> QED  BY <3>1, <3>2 DEF AnswerBeats
    <2> QED  BY <2>2, <2>3 DEF RxDiagReq
  <1>5. Asking => \A c \in Board : Among(relayQ'[c], AskingBeats)
    BY <1>2 DEF Asking
  <1> QED  BY <1>1, <1>2, <1>3, <1>4, <1>5, ForwardRxLoss

\* Nobody streams.
LEMMA RxDataLastLoss == ASSUME LossInv, NEW b \in Board, RxDataLast(b) PROVE Losses'
  <1>1. fLink[Pred(b)] # <<>> /\ FwdHead(b).type = "DATA_LAST"
    BY DEF RxDataLast
  <1>2. ~Asking /\ ~Plain
    BY <1>1, Found DEF PlainBeats, AskingBeats
  <1> QED  BY <1>2, LossTypes DEF Losses

\* T_BOARD_ID_ASSIGN is relayed.
LEMMA RxAssignLoss == ASSUME LossInv, NEW b \in Board, RxAssign(b) PROVE Losses'
  <1>1. TakesBeat(b) /\ frx[b].type # "GO"
    <2>1. frx[b] = NoFrame /\ frx' = frx
      BY DEF RxAssign
    <2>2. frx' = [frx EXCEPT ![b] = NoFrame]
      BY <2>1, LossTypes DEF TypeOK, LinkTypes
    <2>3. TakesBeat(b)
      BY <2>2 DEF RxAssign, TakesBeat
    <2>4. frx[b].type # "GO"
      BY <2>1 DEF NoFrame, Frame
    <2> QED  BY <2>3, <2>4
  <1>2. /\ UNCHANGED <<bLink, brx, fires, goLog, goTx, pendGroup, waiting, goSent, ackCount,
                       busy, budget>>
        /\ UNCHANGED <<total, fwdSlot, bwdSlot>>
    BY DEF RxAssign, PopFwd, masterVars, enumVars, trigVars, hist
  <1>3. ~Plain
    BY <1>1, Found DEF PlainBeats, TakesBeat, RxAssign
  <1>4. ASSUME Asking, NEW c \in Board PROVE Among(relayQ'[c], AskingBeats)
    <2>1. FwdHead(b) \in AskingBeats /\ FwdHead(b) \in Beat
      BY <1>1, <1>4, Found DEF TakesBeat
    <2>2. Among(relayQ[c], AskingBeats) /\ relayQ[c] \in Seq(Beat)
      BY <1>4, LossTypes, HopTypes DEF Asking
    <2>3. relayQ'[c] = relayQ[c] \/ relayQ'[c] = Append(relayQ[c], FwdHead(b))
      BY LossTypes DEF RxAssign, Relayed, TypeOK, Layer2Types
    <2> QED  BY <2>1, <2>2, <2>3, AmongAppend
  <1> QED  BY <1>1, <1>2, <1>3, <1>4, ForwardRxLoss

\* A board fires for the GO that reaches it, and passes it on.
LEMMA RxGoLoss == ASSUME LossInv, NEW b \in Board, RxGo(b) PROVE Losses'
  <1> DEFINE p == Pred(b)
  <1>0. p \in Board /\ Succ(p) = b /\ p # b
    BY Apart
  <1>1. fLink[p] # <<>> /\ PopFwd(b) /\ frx' = [frx EXCEPT ![b] = NoFrame] /\ frx[b].type = "GO"
    BY DEF RxGo, RxPayload
  <1>2. /\ UNCHANGED <<bLink, brx, goLog, goTx, pendGroup, waiting, busy, budget, relayQ>>
        /\ UNCHANGED fwdSlot \/ \E f : QueueFwd(b, f)
    BY DEF RxGo, RxPayload, PopFwd, SetLock, masterVars, trigVars
  <1>3. /\ Takes(Hop(p), Hop(p)') /\ Hop(p).latch = frx[b] /\ Head(Hop(p).link) = FwdHead(b)
        /\ \A c \in Board : c # p /\ c # b => Same(Hop(c), Hop(c)')
        /\ UNCHANGED fwdSlot => Same(Hop(b), Hop(b)')
        /\ \A f : QueueFwd(b, f) => Adds(Hop(b), Hop(b)', f)
    BY <1>1, <1>2, LossTypes, TakeMoves
  <1>4. frx[b] \in Beat /\ Plain /\ frx[b] \in PlainBeats /\ frx[b].src = 0
    BY <1>1, Found, LossTypes DEF AskingBeats, PlainBeats, Losses
  <1>5. GoAt(p)
    <2>1. ~Only(Hop(p), Goless)
      BY <1>1, <1>3 DEF Only, Goless
    <2>2. PICK s \in Board : GoAt(s)
      BY <1>0, <1>4, <2>1, Found, <1>1, LossTypes DEF Losses, Asking, NoGo, AskingBeats
    <2>3. s = p
      BY <1>0, <2>1, <2>2 DEF GoAt
    <2> QED  BY <2>2, <2>3
  <1>6. Clear(Hop(p)') /\ IsPayload(FwdHead(b), {LastGo})
    BY <1>0, <1>1, <1>3, <1>5, HopsWired, LossTypes, TakeGo DEF GoAt
  <1>7. \A c \in Board : c # b => Moves(Hop(c), Hop(c)')
    BY <1>3 DEF Moves
  <1>8. \A K : Closed(K) => \A c \in Board : c # b /\ Only(Hop(c), K) => Only(Hop(c)', K)
    <2>1. ASSUME NEW K, Closed(K), NEW c \in Board, c # b, Only(Hop(c), K) PROVE Only(Hop(c)', K)
      BY <1>7, <2>1, LossTypes, HopsWired, MoveOnly
    <2> QED  BY <2>1
  <1>9. \A c \in Board : c # b => Only(Hop(c)', PlainBeats) /\ Only(Hop(c)', Goless)
    <2>1. ASSUME NEW c \in Board, c # b PROVE Only(Hop(c)', PlainBeats)
      BY <1>4, <1>8, <2>1, ClosedSets DEF Plain
    <2>2. Only(Hop(p)', Goless)
      BY <1>6, ClosedSets, AmongNothing DEF Clear, Only, Closed
    <2>3. ASSUME NEW c \in Board, c # b, c # p PROVE Only(Hop(c)', Goless)
      BY <1>5, <1>8, <2>3, ClosedSets DEF GoAt
    <2> QED  BY <2>1, <2>2, <2>3
  <1>10. Only(Hop(b), PlainBeats) /\ Only(Hop(b), Goless)
    BY <1>0, <1>4, <1>5 DEF Plain, GoAt
  <1>11. \A c \in Board : relayQ'[c] = <<>>
    BY <1>2, <1>4 DEF Plain
  <1>12. Unstreaming'
    BY <1>2, LossTypes, Unstreamed0
  <1>13. CASE RingReturn(b)
    <2>1. UNCHANGED <<fires, fwdSlot>>
      BY <1>13 DEF RxGo
    <2>2. Only(Hop(b)', PlainBeats) /\ Only(Hop(b)', Goless)
      BY <1>3, <1>10, <2>1 DEF Same, Only
    <2>3. Plain' /\ NoGo'
      BY <1>9, <1>11, <2>2 DEF Plain, NoGo
    <2> QED  BY <1>2, <1>12, <2>1, <2>3, LossTypes, DueKept DEF Losses
  <1>14. CASE ~RingReturn(b)
    <2> DEFINE g == Low4(FwdHead(b))
               f == [frx[b] EXCEPT !.pl = g]
    <2>1. b # Master
      BY <1>4, <1>14, LossTypes DEF RingReturn
    <2>2. goLog # <<>> /\ LastGo \in 0..15 /\ LastGo = goLog[Len(goLog)]
      BY <1>5, LossTypes, EmptySeq, LenProperties, ElementOfSeq DEF GoAt, LastGo
    <2>3. g = LastGo
      <3>1. FwdHead(b).type = "PAYLOAD" /\ FwdHead(b).pl = LastGo
        BY <1>6 DEF IsPayload
      <3>2. \A n \in 0..15 : n % 16 = n
        OBVIOUS
      <3> QED  BY <2>2, <3>1, <3>2 DEF Low4, Bits
    <2>4. fires' = [fires EXCEPT ![b] = Append(@, g)] /\ QueueFwd(b, f)
      BY <1>14 DEF RxGo
    <2>5. f \in PlainBeats /\ f.pl = LastGo
      <3>1. LastGo \in Word
        BY <2>2 DEF Word
      <3> QED  BY <1>4, <2>3, <3>1, PayloadKept
    <2> HIDE DEF g, f
    <2>6. Adds(Hop(b), Hop(b)', f)
      BY <1>3, <2>4
    <2>7. Only(Hop(b)', PlainBeats) /\ Travels(Hop(b)', LastGo)
      BY <1>10, <2>5, <2>6, AddOnly, AddGo
    <2>8. Plain'
      BY <1>9, <1>11, <2>7 DEF Plain
    <2>9. \A c \in Board : c # b => fires'[c] = fires[c]
      BY <2>4, LossTypes
    <2>10. fires'[b] = Append(fires[b], goLog[Len(goLog)])
      BY <2>2, <2>3, <2>4, LossTypes
    <2>11. Dist(b) \in Nat /\ Dist(p) \in Nat /\ Dist(b) = Dist(p) + 1
      BY <1>0, <2>1, Ring, BoardAssumption
    <2>12. Within(fires[b], goLog, Len(goLog) - 1)
      BY <1>5, <2>11 DEF GoAt, LacksLast
    <2>13. Within(fires'[b], goLog, Len(goLog))
      BY <2>2, <2>10, <2>12, LossTypes, WithinNext
    <2>14. \A c \in Board : IsSubsequenceOf(fires'[c], goLog)
      BY <2>9, <2>13, LossTypes, Subsequence DEF FiresAreGos
    <2>15. FiresAreGos'
      BY <1>2, <2>14 DEF FiresAreGos
    <2>16. MasterDue'
      BY <1>2, <2>1, <2>9, LossTypes DEF MasterDue, LacksLast, LastGo
    <2>17. ~waiting' /\ goLog' # <<>> /\ LastGo' = LastGo
      BY <1>2, <1>5 DEF GoAt, LastGo
    <2>18. ASSUME NEW c \in Board, Dist(c) < Dist(b) PROVE Clear(Hop(c)')
      <3>1. Dist(c) \in Nat /\ c # b
        BY <2>11, <2>18, Ring, BoardAssumption
      <3>2. c = p \/ Dist(c) < Dist(p)
        <4>1. Dist(c) = Dist(p) \/ Dist(c) < Dist(p)
          BY <2>11, <2>18, <3>1
        <4> QED  BY <1>0, <4>1, Ring
      <3>3. CASE c = p
        BY <1>6, <3>3
      <3>4. CASE Dist(c) < Dist(p)
        BY <1>5, <1>7, <3>1, <3>4, LossTypes, HopsWired, MoveClear DEF GoAt
      <3> QED  BY <3>2, <3>3, <3>4
    <2>19. ASSUME NEW c \in Board, Dist(c) > Dist(b) PROVE LacksLast(c)'
      <3>1. Dist(c) \in Nat /\ c # b /\ Dist(c) > Dist(p)
        BY <2>11, <2>19, Ring, BoardAssumption
      <3>2. LacksLast(c)
        BY <1>5, <3>1 DEF GoAt
      <3> QED  BY <1>2, <2>9, <3>1, <3>2 DEF LacksLast
    <2>20. GoAt(b)'
      BY <1>9, <2>7, <2>17, <2>18, <2>19 DEF GoAt
    <2> QED  BY <1>12, <2>8, <2>15, <2>16, <2>20 DEF Losses
  <1> QED  BY <1>13, <1>14

\* All receivers.
LEMMA RxLoss == ASSUME LossInv, NEW b \in Board, Rx(b) PROVE Losses'
  BY RxHeaderLoss, RxEnumLoss, RxPauseReqLoss, RxGoLoss, RxReserveReqLoss, RxDiagReqLoss,
     RxDataLastLoss, RxAssignLoss DEF Rx

-----------------------------------------------------------------------------
\* The answers: what a board takes off the link behind it, and passes on.
LEMMA RxBackLoss == ASSUME LossInv, NEW b \in Board, RxBack(b) PROVE Losses'
  <1> DEFINE p == Succ(b)
  <1>0. p \in Board /\ Pred(p) = b
    BY Apart
  <1>1. /\ UNCHANGED <<relayQ, fwdSlot, fLink, frx, waiting, goSent, total>>
        /\ UNCHANGED <<fires, goLog, goTx, pendGroup, busy, budget>>
    BY DEF RxBack, RxBackHeader, RxBackRelay, RxPauseAck, RxReserveAck, RxDiagAck, RxBackPayload,
           PopBwd, layer2, masterVars, enumVars, trigVars, hist
  <1>2. bLink[p] # <<>> /\ PopBwd(b)
    BY DEF RxBack, RxBackHeader, RxBackRelay, RxPauseAck, RxReserveAck, RxDiagAck, RxBackPayload
  <1>3. PICK x : /\ x = NoFrame \/ (brx[b] = NoFrame /\ x = BwdHead(b))
                 /\ brx' = [brx EXCEPT ![b] = x]
    <2>1. CASE RxBackHeader(b)
      <3>1. brx[b] = NoFrame /\ (brx' = brx \/ brx' = [brx EXCEPT ![b] = BwdHead(b)])
        BY <2>1 DEF RxBackHeader
      <3>2. brx' = brx => brx' = [brx EXCEPT ![b] = NoFrame]
        BY <3>1, LossTypes DEF TypeOK, LinkTypes
      <3> QED  BY <3>1, <3>2
    <2>2. CASE ~RxBackHeader(b)
      <3>1. brx' = [brx EXCEPT ![b] = NoFrame]
        BY <2>2 DEF RxBack, RxBackRelay, RxPauseAck, RxReserveAck, RxDiagAck, RxBackPayload
      <3> QED  BY <3>1
    <2> QED  BY <2>1, <2>2
  <1>4. Bits(BwdHead(b)) \in Word /\ brx[b] \in Beat
    <2>1. bLink[p] \in Seq(Beat)
      BY <1>0, LossTypes, HopTypes
    <2>2. BwdHead(b) \in Beat
      BY <1>2, <2>1, TailBeats DEF BwdHead
    <2> QED  BY <2>2, BitsInWord, LossTypes DEF TypeOK, LinkTypes
  <1>5. UNCHANGED bwdSlot \/ QueueBwd(b, [brx[b] EXCEPT !.pl = Bits(BwdHead(b))])
    BY DEF RxBack, RxBackHeader, RxBackRelay, RxPauseAck, RxReserveAck, RxDiagAck
  <1>6. /\ Takes(Back(p), Back(p)') /\ Back(p).latch = brx[b]
        /\ \A c \in Board : c # p /\ c # b => Same(Back(c), Back(c)')
        /\ UNCHANGED bwdSlot => Same(Back(b), Back(b)')
        /\ \A f : QueueBwd(b, f) => Adds(Back(b), Back(b)', f)
    BY <1>2, <1>3, <1>5, LossTypes, TakeBackMoves
  <1>7. ASSUME Asking PROVE ~Ready' /\ \A c \in Board : Only(Back(c)', AnswerBeats)
    <2>1. Only(Back(p), AnswerBeats) /\ brx[b] \in AnswerBeats
      BY <1>0, <1>6, <1>7 DEF Asking, Only
    <2>2. UNCHANGED ackCount
      <3>1. brx[b].type # "PAUSE_ACK"
        BY <2>1 DEF AnswerBeats
      <3> QED  BY <3>1 DEF RxBack, RxBackHeader, RxBackRelay, RxPauseAck, RxReserveAck, RxDiagAck,
                           masterVars, trigVars
    <2>3. Ready' <=> Ready
      BY <1>1, <2>2 DEF Ready, TotalEff
    <2>4. [brx[b] EXCEPT !.pl = Bits(BwdHead(b))] \in AnswerBeats
      BY <1>4, <2>1, PayloadKept
    <2>5. ASSUME NEW c \in Board, c # b PROVE Only(Back(c)', AnswerBeats)
      <3>1. Moves(Back(c), Back(c)')
        BY <1>6, <2>5 DEF Moves
      <3> QED  BY <1>7, <3>1, LossTypes, HopsWired, MoveOnly, ClosedSets DEF Asking
    <2>6. Only(Back(b)', AnswerBeats)
      <3>1. Only(Back(b), AnswerBeats)
        BY <1>7 DEF Asking
      <3>2. CASE UNCHANGED bwdSlot
        BY <1>6, <3>1, <3>2 DEF Same, Only
      <3>3. CASE ~UNCHANGED bwdSlot
        <4>1. Adds(Back(b), Back(b)', [brx[b] EXCEPT !.pl = Bits(BwdHead(b))])
          BY <1>5, <1>6, <3>3
        <4> QED  BY <2>4, <3>1, <4>1, AddOnly
      <3> QED  BY <3>2, <3>3
    <2> QED  BY <1>7, <2>3, <2>5, <2>6 DEF Asking
  <1> QED  BY <1>1, <1>7, LossTypes, DueKept, Unstreamed0, ForwardStillLoss DEF SameGos

-----------------------------------------------------------------------------
\* A board that starts over forgets, at most, what the master owes.
LEMMA ResetDue ==
    ASSUME LossInv, NEW d \in Board, ResetBoard(d), budget'["stream"] = budget["stream"]
    PROVE  /\ Unstreaming' /\ FiresAreGos' /\ MasterDue' /\ SameGos /\ (Ready' => Ready)
           /\ \A c \in Board : relayQ'[c] = relayQ[c] \/ relayQ'[c] = <<>>
  <1>1. /\ busy' = [busy EXCEPT ![d] = FALSE] /\ relayQ' = [relayQ EXCEPT ![d] = <<>>]
        /\ UNCHANGED <<fires, goLog>>
        /\ IF d = Master THEN ~waiting' /\ ~goTx' ELSE UNCHANGED masterVars
    BY DEF ResetBoard, hist
  <1>2. UNCHANGED masterVars => UNCHANGED <<waiting, goSent, ackCount, total, goTx, pendGroup>>
    BY DEF masterVars, enumVars, trigVars
  <1>3. Unstreaming'
    BY <1>1, LossTypes DEF Unstreaming, TypeOK, Layer2Types
  <1>4. FiresAreGos'
    BY <1>1, LossTypes DEF FiresAreGos
  <1>5. MasterDue'
    BY <1>1, <1>2, LossTypes DEF MasterDue, LacksLast, LastGo
  <1>6. SameGos /\ (Ready' => Ready)
    BY <1>1, <1>2 DEF SameGos, Ready, TotalEff
  <1>7. \A c \in Board : relayQ'[c] = relayQ[c] \/ relayQ'[c] = <<>>
    BY <1>1, LossTypes DEF TypeOK, Layer2Types
  <1> QED  BY <1>3, <1>4, <1>5, <1>6, <1>7

\* A fault moves a GO no further, and adds nothing.
LEMMA ResetLoss ==
    ASSUME LossInv, NEW d \in Board, ResetBoard(d), budget'["stream"] = budget["stream"],
           \A c \in Board : Shifts(Hop(c), Hop(c)'),
           Asking => \A c \in Board : Only(Back(c)', AnswerBeats)
    PROVE  Losses'
  <1>1. /\ Unstreaming' /\ FiresAreGos' /\ MasterDue' /\ SameGos /\ (Ready' => Ready)
        /\ \A c \in Board : relayQ'[c] = relayQ[c] \/ relayQ'[c] = <<>>
    BY ResetDue
  <1>2. Asking => AskingStep
    BY <1>1, AmongNothing DEF Asking, AskingStep, AskingHop, Shifts
  <1>3. Plain => PlainStep
    BY <1>1 DEF Plain, PlainStep
  <1> QED  BY <1>1, <1>2, <1>3, LossStep

\* Nothing is on its way in a quiet ring.
LEMMA QuietClear ==
    ASSUME LossInv, RingQuiet
    PROVE  /\ \A c \in Board : Clear(Hop(c)) /\ Clear(Back(c)) /\ relayQ[c] = <<>> /\ frx[c] = NoFrame
           /\ ~Ready /\ ~goTx
  <1>1. \A c \in Board : /\ ~fwdPending[c] /\ ~bwdPending[c] /\ fLink[c] = <<>> /\ bLink[c] = <<>>
                         /\ relayQ[c] = <<>> /\ frx[c] = NoFrame /\ brx[c] = NoFrame
    BY DEF RingQuiet
  <1>2. \A c \in Board : Clear(Hop(c)) /\ Clear(Back(c))
    BY <1>1, HopParts, BackParts, Neighbours DEF Clear
  <1>3. ~Ready
    BY <1>1, LossTypes DEF RingQuiet, GoReady, Ready
  <1>4. ~goTx
    BY <1>1, LossTypes DEF MasterFiresOncePerGo
  <1> QED  BY <1>1, <1>2, <1>3, <1>4

\* A clear hop carries only beats of any set.
LEMMA ClearOnly == ASSUME NEW h, Clear(h), NEW K, Closed(K) PROVE Only(h, K)
  BY AmongNothing DEF Clear, Only, Closed

\* A cable drops or returns; a board is reset, by a paced host in a quiet ring only.
LEMMA FaultLoss == ASSUME PacedHost, LossInv, Fault PROVE Losses'
  <1>1. PICK b \in Board : LinkDown(b) \/ LinkUp(b) \/ CtrlReset(b)
    BY DEF Fault
  <1>2. CASE LinkDown(b)
    <2>1. Succ(b) \in Board /\ ResetBoard(Succ(b))
      BY <1>2, Neighbours DEF LinkDown
    <2>2. budget'["stream"] = budget["stream"]
      BY <1>2, LossTypes DEF LinkDown, Spend, TypeOK
    <2>3. /\ \A c \in Board : Shifts(Hop(c), Hop(c)')
          /\ \A K, c : c \in Board /\ Closed(K) /\ Only(Back(c), K) => Only(Back(c)', K)
      BY <1>2, LossTypes, LinkDownMoves
    <2>4. Asking => \A c \in Board : Only(Back(c)', AnswerBeats)
      BY <2>3, ClosedSets DEF Asking
    <2> QED  BY <2>1, <2>2, <2>3, <2>4, ResetLoss
  <1>3. CASE LinkUp(b)
    <2>1. /\ UNCHANGED <<relayQ, fwdSlot, fLink, frx, bwdSlot, bLink, brx>>
          /\ UNCHANGED <<waiting, goSent, total, ackCount, fires, goLog, goTx, pendGroup, busy, budget>>
      BY <1>3 DEF LinkUp, layer2, masterVars, enumVars, trigVars, hist
    <2>2. \A c \in Board : Same(Back(c), Back(c)')
      BY <2>1, BackwardKept
    <2>3. Asking => ~Ready' /\ \A c \in Board : Only(Back(c)', AnswerBeats)
      <3>1. Ready' <=> Ready
        BY <2>1 DEF Ready, TotalEff
      <3> QED  BY <2>2, <3>1 DEF Same, Only, Asking
    <2> QED  BY <2>1, <2>3, LossTypes, DueKept, Unstreamed0, ForwardStillLoss DEF SameGos
  <1>4. CASE CtrlReset(b)
    <2>1. RingQuiet /\ ResetBoard(b) /\ UNCHANGED links
      BY <1>4 DEF CtrlReset, Command, PacedHost
    <2>2. budget'["stream"] = budget["stream"]
      BY <1>4, LossTypes DEF CtrlReset, Command, Spend, TypeOK
    <2>3. \A c \in Board : Clear(Back(c)) /\ frx[c] = NoFrame
      BY <2>1, QuietClear
    <2>4. \A c \in Board : Shifts(Hop(c), Hop(c)')
      BY <2>1, <2>3, LossTypes, ResetMoves
    <2>5. ASSUME NEW c \in Board PROVE Only(Back(c)', AnswerBeats)
      <3>1. Pred(c) \in Board /\ ~bwdPending[c] /\ bLink[c] = <<>> /\ brx[Pred(c)] = NoFrame
        BY <2>3, BackParts, Neighbours DEF Clear
      <3>2. ~bwdPending'[c] /\ bLink'[c] = <<>> /\ brx'[Pred(c)] = NoFrame
        BY <2>1, <3>1, LossTypes DEF ResetBoard, links, TypeOK, SlotTypes, LinkTypes
      <3>3. Clear(Back(c)')
        BY <3>2, BackParts DEF Clear
      <3> QED  BY <3>3, ClearOnly, ClosedSets
    <2> QED  BY <2>1, <2>2, <2>4, <2>5, ResetLoss
  <1> QED  BY <1>1, <1>2, <1>3, <1>4

-----------------------------------------------------------------------------
\* The only frame on the forward hops is the one the master queues.
LEMMA CommandHops ==
    ASSUME LossInv, RingQuiet, NEW K, Closed(K), UNCHANGED <<fLink, frx>>,
           UNCHANGED fwdSlot \/ \E f \in K : QueueFwd(Master, f)
    PROVE  \A c \in Board : Only(Hop(c)', K)
  <1>1. \A c \in Board : Only(Hop(c), K)
    BY QuietClear, ClearOnly
  <1>2. CASE UNCHANGED fwdSlot
    <2>1. \A c \in Board : Same(Hop(c), Hop(c)')
      BY <1>2, ForwardKept
    <2> QED  BY <1>1, <2>1 DEF Same, Only
  <1>3. CASE ~UNCHANGED fwdSlot
    <2>1. PICK f \in K : QueueFwd(Master, f)
      BY <1>3
    <2>2. /\ Adds(Hop(Master), Hop(Master)', f)
          /\ \A c \in Board : c # Master => Same(Hop(c), Hop(c)')
      BY <2>1, LossTypes, QueueMoves
    <2>3. Only(Hop(Master)', K)
      BY <1>1, <2>1, <2>2, LossTypes, AddOnly
    <2>4. \A c \in Board : c # Master => Only(Hop(c)', K)
      BY <1>1, <2>2 DEF Same, Only
    <2> QED  BY <2>3, <2>4
  <1> QED  BY <1>2, <1>3

\* A command that starts an enumeration or a trigger.
LEMMA PlainCommand ==
    ASSUME LossInv, RingQuiet, UNCHANGED <<fLink, frx, relayQ, busy, fires, goLog, goTx>>,
           budget'["stream"] = budget["stream"],
           UNCHANGED fwdSlot \/ \E f \in PlainBeats \cap Goless : QueueFwd(Master, f)
    PROVE  Losses'
  <1>1. \A c \in Board : Only(Hop(c)', PlainBeats) /\ Only(Hop(c)', Goless)
    BY CommandHops, ClosedSets
  <1>2. Plain' /\ NoGo'
    BY <1>1, QuietClear DEF Plain, NoGo
  <1>3. FiresAreGos' /\ MasterDue' /\ Unstreaming'
    BY QuietClear, LossTypes DEF FiresAreGos, MasterDue, Unstreaming
  <1> QED  BY <1>2, <1>3 DEF Losses

\* A command that asks for something else.
LEMMA AskingCommand ==
    ASSUME LossInv, RingQuiet,
           UNCHANGED <<relayQ, bwdSlot, bLink, brx, busy, fires, goLog, goTx, pendGroup, waiting,
                       goSent, total, ackCount>>,
           budget'["stream"] = budget["stream"],
           \A c \in Board : Only(Hop(c)', AskingBeats)
    PROVE  Losses'
  <1>1. \A c \in Board : Among(relayQ'[c], AskingBeats)
    BY QuietClear, AmongNothing
  <1>2. ASSUME NEW c \in Board PROVE Only(Back(c)', AnswerBeats)
    <2>1. Only(Back(c), AnswerBeats) /\ Same(Back(c), Back(c)')
      BY QuietClear, ClearOnly, ClosedSets, BackwardKept
    <2> QED  BY <2>1 DEF Same, Only
  <1>3. ~Ready'
    BY QuietClear DEF Ready, TotalEff
  <1>4. FiresAreGos' /\ MasterDue'
    BY LossTypes, DueKept
  <1>5. Unstreaming'
    BY LossTypes DEF Unstreaming
  <1> QED  BY <1>1, <1>2, <1>3, <1>4, <1>5 DEF Asking, Losses

\* A paced host commands a quiet ring.
LEMMA QuietCommand ==
    ASSUME PacedHost, LossInv, NEW op \in {"init", "trig", "reserve", "diag", "assign"}, Command(op)
    PROVE  RingQuiet /\ budget'["stream"] = budget["stream"]
  <1>1. op # "stream" /\ "stream" \in HostOps
    BY DEF HostOps
  <1> QED  BY <1>1, LossTypes DEF Command, Spend, PacedHost, TypeOK

\* Each command starts the phase it belongs to.
LEMMA InitStartLoss == ASSUME PacedHost, LossInv, InitStart PROVE Losses'
  <1>1. RingQuiet /\ budget'["stream"] = budget["stream"]
    BY QuietCommand DEF InitStart
  <1>2. UNCHANGED <<fLink, frx, relayQ, busy, fires, goLog, goTx>>
    BY DEF InitStart, links, layer2, trigVars, hist
  <1> DEFINE f == Frame("ENUM_COUNT", 0, 0, 0)
  <1>3. f \in PlainBeats \cap Goless
    <2>1. f \in Beat
      BY FrameInBeat, Widths DEF FwdTypes
    <2> QED  BY <2>1, TypeOfFrame DEF PlainBeats, Goless
  <1>4. UNCHANGED fwdSlot \/ QueueFwd(Master, f)
    BY LossTypes DEF InitStart
  <1> QED  BY <1>1, <1>2, <1>3, <1>4, PlainCommand

LEMMA TrigStartLoss == ASSUME PacedHost, LossInv, TrigStart PROVE Losses'
  <1>1. RingQuiet /\ budget'["stream"] = budget["stream"]
    BY QuietCommand DEF TrigStart
  <1> DEFINE f == Frame("PAUSE_REQ", 0, Bcast, 0)
  <1>2. /\ UNCHANGED <<fLink, frx, relayQ, busy, fires, goLog, goTx>>
        /\ UNCHANGED fwdSlot \/ QueueFwd(Master, f)
    BY LossTypes DEF TrigStart, TrigBypass, TrigHandshake, SetLock, links, layer2, hist
  <1>3. f \in PlainBeats \cap Goless
    <2>1. f \in Beat
      BY FrameInBeat, Widths DEF FwdTypes
    <2> QED  BY <2>1, TypeOfFrame DEF PlainBeats, Goless
  <1> QED  BY <1>1, <1>2, <1>3, PlainCommand

LEMMA ReserveStartLoss == ASSUME PacedHost, LossInv, ReserveStart PROVE Losses'
  <1>1. RingQuiet /\ budget'["stream"] = budget["stream"]
    BY QuietCommand DEF ReserveStart
  <1>2. /\ UNCHANGED <<relayQ, bwdSlot, bLink, brx, busy, fires, goLog, goTx, pendGroup, waiting,
                       goSent, total, ackCount>>
        /\ UNCHANGED <<fLink, frx>>
    BY DEF ReserveStart, links, layer2, enumVars, trigVars, hist
  <1>3. UNCHANGED fwdSlot \/ \E d \in HostDests : QueueFwd(Master, Frame("RESERVE_REQ", 0, d, 0))
    BY LossTypes DEF ReserveStart
  <1>4. \A d \in HostDests : Frame("RESERVE_REQ", 0, d, 0) \in AskingBeats
    <2>1. \A d \in HostDests : Frame("RESERVE_REQ", 0, d, 0) \in Beat
      BY FrameInBeat, Widths, HostAssumption DEF FwdTypes
    <2> QED  BY <2>1, TypeOfFrame DEF AskingBeats
  <1>5. \A c \in Board : Only(Hop(c)', AskingBeats)
    BY <1>1, <1>2, <1>3, <1>4, CommandHops, ClosedSets
  <1> QED  BY <1>1, <1>2, <1>5, AskingCommand

LEMMA DiagStartLoss == ASSUME PacedHost, LossInv, DiagStart PROVE Losses'
  <1>1. RingQuiet /\ budget'["stream"] = budget["stream"]
    BY QuietCommand DEF DiagStart
  <1>2. /\ UNCHANGED <<relayQ, bwdSlot, bLink, brx, busy, fires, goLog, goTx, pendGroup, waiting,
                       goSent, total, ackCount>>
        /\ UNCHANGED <<fLink, frx>>
    BY DEF DiagStart, links, layer2, enumVars, trigVars, hist
  <1>3. UNCHANGED fwdSlot \/ \E d \in HostDests : QueueFwd(Master, Frame("DIAG_REQ", 0, d, 0))
    BY LossTypes DEF DiagStart
  <1>4. \A d \in HostDests : Frame("DIAG_REQ", 0, d, 0) \in AskingBeats
    <2>1. \A d \in HostDests : Frame("DIAG_REQ", 0, d, 0) \in Beat
      BY FrameInBeat, Widths, HostAssumption DEF FwdTypes
    <2> QED  BY <2>1, TypeOfFrame DEF AskingBeats
  <1>5. \A c \in Board : Only(Hop(c)', AskingBeats)
    BY <1>1, <1>2, <1>3, <1>4, CommandHops, ClosedSets
  <1> QED  BY <1>1, <1>2, <1>5, AskingCommand

LEMMA AssignLoss == ASSUME PacedHost, LossInv, Assign PROVE Losses'
  <1>1. RingQuiet /\ budget'["stream"] = budget["stream"]
    BY QuietCommand DEF Assign
  <1>2. /\ UNCHANGED <<relayQ, bwdSlot, bLink, brx, busy, fires, goLog, goTx, pendGroup, waiting,
                       goSent, total, ackCount>>
        /\ UNCHANGED <<fwdSlot, frx>>
    BY DEF Assign, layer2, masterVars, enumVars, trigVars, hist
  <1> DEFINE f == Frame("BOARD_ID_ASSIGN", 0, Bcast, total)
  <1>3. f \in AskingBeats
    <2>1. total \in Word
      BY LossTypes DEF TypeOK, EnumTypes, Word
    <2>2. f \in Beat
      BY <2>1, FrameInBeat, Widths DEF DataTypes
    <2> QED  BY <2>2, TypeOfFrame DEF AskingBeats
  <1>4. fLink' = [fLink EXCEPT ![Master] = Append(@, f)]
    BY LossTypes DEF Assign
  <1> HIDE DEF f
  <1>5. ASSUME NEW c \in Board PROVE Only(Hop(c)', AskingBeats)
    <2>1. Only(Hop(c), AskingBeats) /\ Wired(Hop(c))
      BY <1>1, QuietClear, ClearOnly, ClosedSets, LossTypes, HopsWired
    <2>2. fLink'[c] = fLink[c] \/ fLink'[c] = Append(fLink[c], f)
      BY <1>4, LossTypes DEF TypeOK, LinkTypes
    <2>3. Same(Hop(c), Hop(c)') \/ Appends(Hop(c), Hop(c)', f)
      BY <1>2, <2>2, HopParts DEF Same, Appends, fwdSlot
    <2>4. CASE Same(Hop(c), Hop(c)')
      BY <2>1, <2>4 DEF Same, Only
    <2>5. CASE Appends(Hop(c), Hop(c)', f)
      BY <1>3, <2>1, <2>5, AppendOnly, ClosedSets
    <2> QED  BY <2>3, <2>4, <2>5
  <1> QED  BY <1>1, <1>2, <1>5, AskingCommand

\* All commands.
LEMMA HostLoss == ASSUME PacedHost, LossInv, Host PROVE Losses'
  <1>1. \A b \in Board : ~StreamStart(b)
    BY LossTypes DEF Unstreaming, StreamStart, Spend
  <1> QED  BY <1>1, InitStartLoss, TrigStartLoss, ReserveStartLoss, DiagStartLoss, AssignLoss DEF Host

-----------------------------------------------------------------------------
\* The GO is decided: nobody has fired for it yet.
LEMMA SendGoLoss == ASSUME LossInv, SendGo PROVE Losses'
  <1>1. Plain /\ NoGo
    BY LossTypes DEF SendGo, GoReady, Ready, Losses, Asking, GoAt
  <1> DEFINE f == Frame("GO", 0, Bcast, pendGroup)
  <1>2. /\ QueueFwd(Master, f) /\ goLog' = Append(goLog, pendGroup) /\ ~waiting'
        /\ UNCHANGED <<fLink, frx, relayQ, busy, fires, pendGroup, budget>>
    BY LossTypes DEF SendGo, SetLock, links
  <1>3. f \in PlainBeats /\ f.pl = pendGroup
    <2>1. pendGroup \in Word
      BY LossTypes DEF Word
    <2>2. f \in Beat
      BY <2>1, FrameInBeat, Widths DEF FwdTypes
    <2> QED  BY <2>2, TypeOfFrame DEF PlainBeats, Frame
  <1> HIDE DEF f
  <1>4. Adds(Hop(Master), Hop(Master)', f) /\ \A c \in Board : c # Master => Same(Hop(c), Hop(c)')
    BY <1>2, LossTypes, QueueMoves
  <1>5. \A c \in Board : c # Master => Only(Hop(c)', PlainBeats) /\ Only(Hop(c)', Goless)
    BY <1>1, <1>4 DEF Plain, NoGo, Same, Only
  <1>6. Only(Hop(Master)', PlainBeats) /\ Travels(Hop(Master)', pendGroup)
    BY <1>1, <1>3, <1>4, LossTypes, AddOnly, AddGo DEF Plain, NoGo
  <1>7. Plain'
    BY <1>1, <1>2, <1>5, <1>6 DEF Plain
  <1>8. /\ Len(goLog') = Len(goLog) + 1 /\ goLog'[Len(goLog')] = pendGroup /\ Len(goLog) \in Nat
        /\ goLog' \in Seq(0..15) /\ goLog' # <<>> /\ Len(goLog') - 1 = Len(goLog)
    <2>1. /\ goLog' \in Seq(0..15) /\ Len(goLog') = Len(goLog) + 1
          /\ goLog'[Len(goLog) + 1] = pendGroup /\ Len(goLog) \in Nat
      BY <1>2, LossTypes, AppendProperties, LenProperties
    <2>2. Len(goLog') - 1 = Len(goLog) /\ Len(goLog') # 0
      BY <2>1
    <2> QED  BY <2>1, <2>2, EmptySeq
  <1>9. \A c \in Board : Within(fires[c], goLog, Len(goLog))
    BY LossTypes, Subsequence DEF FiresAreGos
  <1>10. \A c \in Board : Within(fires[c], goLog', Len(goLog') - 1)
    BY <1>2, <1>8, <1>9, LossTypes, WithinLonger
  <1>11. \A c \in Board : LacksLast(c)'
    BY <1>2, <1>10 DEF LacksLast
  <1>12. \A c \in Board : Within(fires[c], goLog', Len(goLog'))
    <2>1. Len(goLog') - 1 \in Nat /\ Len(goLog') \in Nat /\ Len(goLog') - 1 <= Len(goLog')
      BY <1>8
    <2> QED  BY <1>10, <2>1, WithinMore
  <1>13. FiresAreGos'
    BY <1>2, <1>12, Subsequence DEF FiresAreGos
  <1>14. LastGo' = pendGroup
    BY <1>8 DEF LastGo
  <1>15. MasterDue'
    BY <1>2, <1>8, <1>11, <1>14, LossTypes DEF MasterDue
  <1>16. GoAt(Master)'
    <2>1. \A c \in Board : ~(Dist(c) < Dist(Master))
      BY Ring, BoardAssumption
    <2> QED  BY <1>2, <1>5, <1>6, <1>8, <1>11, <1>14, <2>1 DEF GoAt
  <1>17. Unstreaming'
    BY <1>2, LossTypes, Unstreamed0
  <1> QED  BY <1>7, <1>13, <1>15, <1>16, <1>17, LossTypes DEF Losses

\* The invariant holds of every step, and at the start.
LEMMA NextLoss == ASSUME PacedHost, LossInv, [Next]_vars PROVE LossInv'
  <1>1. FireInv'
    BY NextFires DEF LossInv
  <1>2. Losses'
    BY HostLoss, TimeoutLoss, SendGoLoss, FaultLoss, TxLoss, RxLoss, RxBackLoss DEF Next
  <1> QED  BY <1>1, <1>2 DEF LossInv

LEMMA InitLoss == ASSUME PacedHost, Init PROVE LossInv
  <1>1. FireInv
    BY InitFires
  <1>2. \A c \in Board : /\ ~fwdPending[c] /\ fLink[c] = <<>> /\ frx[c] = NoFrame
                         /\ relayQ[c] = <<>> /\ ~busy[c] /\ fires[c] = <<>>
    BY DEF Init
  <1>3. budget["stream"] = 0 /\ goLog = <<>> /\ ~goTx
    BY DEF Init, PacedHost
  <1>4. \A c \in Board : Clear(Hop(c))
    BY <1>2, HopParts, Neighbours DEF Clear
  <1>5. Plain /\ NoGo
    BY <1>2, <1>4, ClearOnly, ClosedSets DEF Plain, NoGo
  <1>6. FiresAreGos
    <2>1. IsSubsequenceOf(<<>>, <<>>)
      <3>1. [i \in 1..0 |-> i] \in [1..0 -> 1..0]
        OBVIOUS
      <3> QED  BY <3>1, EmptySeq DEF IsSubsequenceOf
    <2> QED  BY <1>2, <1>3, <2>1 DEF FiresAreGos
  <1>7. Unstreaming /\ MasterDue
    BY <1>2, <1>3 DEF Unstreaming, MasterDue
  <1> QED  BY <1>1, <1>5, <1>6, <1>7 DEF LossInv, Losses

\* Frames may be lost, but no board fires what the master has not decided, or out of order.
THEOREM FiresNeverMadeUp == PacedHost /\ Spec => []FiresAreGos
  <1>1. PacedHost /\ Init => LossInv
    BY InitLoss
  <1>2. PacedHost /\ LossInv /\ [Next]_vars => LossInv'
    BY NextLoss
  <1>3. LossInv => FiresAreGos
    BY DEF LossInv, Losses
  <1>4. CASE PacedHost
    <2>1. Init => LossInv
      BY <1>1, <1>4
    <2>2. LossInv /\ [Next]_vars => LossInv'
      BY <1>2, <1>4
    <2> QED  BY <1>3, <2>1, <2>2, PTL DEF Spec
  <1> QED  BY <1>4
=============================================================================
