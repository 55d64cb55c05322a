------------------------- MODULE DataChannel_proofs -------------------------
(***************************************************************************)
(* Theorems about the data channel of a board and the two ends of its      *)
(* cables.  DataChannel, for every ring size, every set of headers and     *)
(* every budget: types, the turns of the two sides of data_tx1, and frames *)
(* that leave whole.  The arbiter: its types, and that no beat is          *)
(* swallowed and no two frames mix on tx1, for every watchdog limit and    *)
(* frame length.  The pause requests: that the FIFO behind rx0 never       *)
(* overflows, for all margins that satisfy FlowAssumption, whatever the    *)
(* sender sends and however the FIFO is drained, not at all included.      *)
(***************************************************************************)
EXTENDS DataChannel, Tx1Arbiter, FlowControl, FiniteSets, FiniteSetTheorems, SequenceTheorems, TLAPS

\* What the proofs keep of a state, in five parts.  Types: what each variable holds.
Types == TypeOK /\ (rx = "data" => remaining # 0)

\* Ranges: where a beat stands in its frame, and whose beats are where.
Sides == {"local", "drain_local"}
Whole == local # NoFrame /\ local.end = local.beat.h.len
Ranges ==
    /\ budgets.wire <= WireBudget /\ budgets.fault <= FaultBudget
    /\ local # NoFrame => /\ local.beat.i \in 1..local.end /\ local.end >= local.beat.h.len
                          /\ Own(local.beat)
    /\ arriving # NoFrame => /\ arriving.beat.h \in WireFrames /\ ~Own(arriving.beat)
                             /\ arriving.end = Beats(arriving.beat.h)
                             /\ arriving.beat.i \in 2..arriving.end
    /\ \A k \in 1..Len(relay) : ~Own(relay[k].beat)

\* Port: while a frame of this board is on data_tx1 the port keeps to it, and the budget
\* is what its header announced less what has gone.
Port ==
    /\ abort => tx = "idle"
    /\ tx \in {"idle", "drain_relay", "drain_local"} => sent.tlast \/ abort
    /\ tx \in Sides => local # NoFrame
    /\ Whole => IF tx \in Sides THEN budget = local.beat.h.len - local.beat.i + 1 ELSE local.beat.i = 1
    /\ Whole /\ tx = "local" => IF local.beat.i = 1 THEN sent.tlast ELSE ~sent.tlast /\ Follows(local.beat, sent.beat)

\* Received, in a clean run: the receiver's count is the wire's, or it takes beat after
\* beat of a frame the gate has refused for headers to be refused; and what has been copied
\* to the local output is as far as the frame has come.
Counted == GateOk(arriving.beat.h)
Copying == arriving # NoFrame /\ cur.toLocal
Mid == arriving # NoFrame /\ cur.toRelay
Received ==
    /\ arriving = NoFrame => rx = "idle" /\ ~expect
    /\ arriving # NoFrame =>
         IF IsCtrl(arriving.beat.h)
           THEN rx = "idle" /\ expect /\ ~cur.toLocal /\ ~cur.toRelay
         ELSE IF Counted
           THEN /\ rx = "data" /\ ~expect /\ cur.mine
                /\ remaining = arriving.beat.h.len - arriving.beat.i + 1
           ELSE rx = "idle" /\ ~expect /\ ~cur.toLocal /\ ~cur.toRelay
    /\ IF Copying THEN Follows(arriving.beat, delivered) ELSE delivered.i = delivered.h.len

\* Relaying, in a clean run: the relay FIFO holds frames end to end, its first beat goes on
\* from what was sent, and its last beat from the frame on rx0.
CellOk(c) == c.beat.i \in 1..c.beat.h.len /\ (c.tlast <=> c.beat.i = c.beat.h.len)
Link(c, d) == IF c.tlast THEN d.beat.i = 1 ELSE Follows(d.beat, c.beat)
Chain(s) == /\ \A k \in 1..Len(s) : CellOk(s[k])
            /\ \A k \in 1..(Len(s) - 1) : Link(s[k], s[k + 1])
Pulls == {"relay", "drain_relay"}
Goes(b, c) == ~c.tlast /\ Follows(b, c.beat)
Relaying ==
    /\ Chain(relay)
    /\ relay # <<>> => /\ tx \notin Pulls => relay[1].beat.i = 1
                       /\ tx = "relay" => Link(sent, relay[1])
    /\ Mid => IF relay # <<>> THEN Goes(arriving.beat, relay[Len(relay)])
              ELSE tx \in Pulls /\ (tx = "relay" => Goes(arriving.beat, sent))
    /\ ~Mid => IF relay # <<>> THEN relay[Len(relay)].tlast ELSE tx \notin Pulls

\* Turns: who has been passed over has the next turn.
Turns == /\ passed.relay <= 1 /\ (passed.relay = 1 => ~rrLocal)
         /\ passed.local <= 1 /\ (passed.local = 1 => rrLocal)
IInv == Types /\ Ranges /\ Port /\ (Clean => Received /\ Relaying) /\ Turns
-----------------------------------------------------------------------------
\* The operators of the model, and sequences of beats.

LEMMA Constants ==
    /\ Me \in Nat /\ Totals \in Seq(Nat) /\ Len(Totals) \in Nat /\ Len(Totals) > 0
    /\ WireFrames \subseteq Header /\ LocalFrames \subseteq Header /\ NoiseWords \subseteq Header
    /\ WireBudget \in Nat /\ LocalBudget \in Nat /\ FaultBudget \in Nat /\ Excess \in Nat
    /\ \A h \in WireFrames \cup LocalFrames : h.len # 0
  BY ChannelAssumption

LEMMA Beatless == /\ NoBeat \in Beat /\ Poison \in Beat /\ NoBeat.i = 0 /\ NoBeat.no = 0 /\ NoBeat.h.len = 0
                  /\ Poison.i = 1 /\ Poison.no = 0 /\ Poison.h \in Header /\ NoFrame \in [beat : Beat, end : Nat]
                  /\ NoFrame.beat = NoBeat /\ NoFrame.end = 0
  BY DEF NoBeat, Poison, Beat, Header, Kinds, All, NoFrame

LEMMA Foreign == ASSUME NEW b, b.no = 0 PROVE ~Own(b)
  BY Constants DEF Own

LEMMA DecodedTyped == ASSUME NEW h PROVE
    /\ Decoded(h) \in [mine : BOOLEAN, toLocal : BOOLEAN, toRelay : BOOLEAN, last : BOOLEAN]
    /\ Decoded(h).mine = (GateOk(h) /\ ~IsCtrl(h)) /\ Decoded(h).toLocal = ToLocal(h)
    /\ Decoded(h).toRelay = ToRelay(h) /\ Decoded(h).last = (h.kind = "last")
  BY DEF Decoded, GateOk, SrcValid, IsCtrl, ToLocal, ToRelay, RingReturn

Cell == [beat : Beat, tlast : BOOLEAN]

LEMMA Appended ==
    ASSUME NEW s \in Seq(Cell), NEW c \in Cell
    PROVE  /\ Append(s, c) \in Seq(Cell) /\ Append(s, c) # <<>> /\ Len(s) \in Nat
           /\ Len(Append(s, c)) = Len(s) + 1 /\ Append(s, c)[Len(s) + 1] = c
           /\ \A k \in 1..Len(s) : Append(s, c)[k] = s[k]
  BY AppendProperties

LEMMA Tailed ==
    ASSUME NEW s \in Seq(Cell), s # <<>>
    PROVE  /\ Tail(s) \in Seq(Cell) /\ Len(s) \in Nat /\ Len(s) >= 1 /\ Len(Tail(s)) = Len(s) - 1 /\ s[1] \in Cell
           /\ \A k \in 1..(Len(s) - 1) : Tail(s)[k] = s[k + 1]
           /\ Tail(s) = <<>> <=> Len(s) = 1
  <1>1. /\ Len(s) \in Nat /\ Len(s) >= 1 /\ s[1] \in Cell
    BY EmptySeq
  <1>2. /\ Tail(s) \in Seq(Cell) /\ Len(Tail(s)) = Len(s) - 1
        /\ \A k \in 1..(Len(s) - 1) : Tail(s)[k] = s[k + 1]
    BY <1>1, HeadTailProperties
  <1>3. Tail(s) = <<>> <=> Len(Tail(s)) = 0
    BY <1>2, EmptySeq
  <1> QED  BY <1>1, <1>2, <1>3

LEMMA ReadingsTyped == ASSUME NEW b \in Beat PROVE Readings(b) \subseteq Header /\ (b.i = 1 => Readings(b) = {b.h})
  BY Constants DEF Readings, Beat

LEMMA NextBeat ==
    ASSUME NEW f \in [beat : Beat, end : Nat]
    PROVE  /\ Next1(f) \in [beat : Beat, end : Nat]
           /\ f.beat.i = f.end => Next1(f) = NoFrame
           /\ f.beat.i # f.end => /\ Next1(f).beat.h = f.beat.h /\ Next1(f).beat.no = f.beat.no
                                  /\ Next1(f).beat.i = f.beat.i + 1 /\ Next1(f).end = f.end
  BY Beatless DEF Next1, Beat

LEMMA InitTurns == Init => IInv
  <1> SUFFICES ASSUME Init PROVE IInv  OBVIOUS
  <1>1. relay = <<>> /\ Len(relay) = 0 /\ relay \in Seq(Cell)
    BY DEF Init
  <1>2. Types
    <2>1. assigned \in 1..Len(Totals) /\ relay \in Seq([beat : Beat, tlast : BOOLEAN])
      BY <1>1, Constants DEF Init, Cell
    <2>2. cur \in [mine : BOOLEAN, toLocal : BOOLEAN, toRelay : BOOLEAN, last : BOOLEAN]
      BY DEF Init, NotMine
    <2>3. local \in [beat : Beat, end : Nat] /\ arriving \in [beat : Beat, end : Nat]
      BY Beatless DEF Init
    <2>4. sent \in [beat : Beat, tlast : BOOLEAN] /\ delivered \in Beat
      BY Beatless DEF Init
    <2>5. passed \in [relay : Nat, local : Nat] /\ budgets \in [wire : Nat, local : Nat, fault : Nat]
      BY Constants DEF Init
    <2> QED  BY <2>1, <2>2, <2>3, <2>4, <2>5 DEF Init, Types, TypeOK
  <1>3. Ranges
    BY <1>1, Constants DEF Init, Ranges
  <1>4. Port
    BY Beatless DEF Init, Port, Whole, Sides
  <1>5. Received /\ Relaying
    BY <1>1, Beatless DEF Init, Received, Relaying, Mid, Pulls, Copying, Chain
  <1> QED  BY <1>2, <1>3, <1>4, <1>5 DEF IInv, Turns, Init

\* Who waits (aurora_data_channel_relayfifo.v, rr_favor_local).
LEMMA TurnsStep == ASSUME TypeOK, Turns, [Next]_vars PROVE Turns'
  <1>1. passed.relay \in Nat /\ passed.local \in Nat /\ rrLocal \in BOOLEAN
    BY DEF TypeOK
  <1>2. CASE GrantRelay
    <2>1. passed'.relay = 0 /\ passed'.local = passed.local + (IF LocalCanStart THEN 1 ELSE 0)
      BY <1>2 DEF GrantRelay
    <2>2. CASE LocalCanStart
      <3>1. ~rrLocal /\ rrLocal' /\ passed'.local = passed.local + 1
        BY <1>2, <2>1, <2>2 DEF GrantRelay
      <3> QED  BY <1>1, <2>1, <3>1 DEF Turns
    <2>3. CASE ~LocalCanStart
      <3>1. (rrLocal' <=> rrLocal) /\ passed'.local = passed.local
        BY <1>1, <1>2, <2>1, <2>3 DEF GrantRelay
      <3> QED  BY <1>1, <2>1, <3>1 DEF Turns
    <2> QED  BY <2>2, <2>3
  <1>3. CASE \E h : GrantLocal(h)
    <2>1. passed'.local = 0 /\ passed'.relay = passed.relay + (IF HasRelay THEN 1 ELSE 0)
      BY <1>3 DEF GrantLocal
    <2>2. CASE HasRelay
      <3>1. rrLocal /\ ~rrLocal' /\ passed'.relay = passed.relay + 1
        BY <1>3, <2>1, <2>2 DEF GrantLocal
      <3> QED  BY <1>1, <2>1, <3>1 DEF Turns
    <2>3. CASE ~HasRelay
      <3>1. (rrLocal' <=> rrLocal) /\ passed'.relay = passed.relay
        BY <1>1, <1>3, <2>1, <2>3 DEF GrantLocal
      <3> QED  BY <1>1, <2>1, <3>1 DEF Turns
    <2> QED  BY <2>2, <2>3
  <1>4. ASSUME UNCHANGED <<passed, rrLocal>> PROVE Turns'
    BY <1>4 DEF Turns
  <1>5. Next => UNCHANGED <<passed, rrLocal>> \/ GrantRelay \/ \E h : GrantLocal(h)
    BY DEF Next, RxFrame, RxBeat, RxPoison, RxNoise, LockReq, UnlockReq, Assign, LocalFrame, Transmit, Choose, SendRelay,
           DrainRelay, SendLocal, DrainLocal, SendPoison, Receive, transmitter, history
  <1> QED  BY <1>2, <1>3, <1>4, <1>5 DEF vars, transmitter, history

-----------------------------------------------------------------------------
\* Types.

ReceiverTypes ==
    /\ rx \in {"idle", "data"} /\ remaining \in Nat /\ expect \in BOOLEAN /\ (rx = "data" => remaining # 0)
    /\ cur \in [mine : BOOLEAN, toLocal : BOOLEAN, toRelay : BOOLEAN, last : BOOLEAN]
    /\ locked \in BOOLEAN /\ relay \in Seq(Cell) /\ delivered \in Beat /\ misread \in BOOLEAN

LEMMA RelayedTyped ==
    ASSUME relay \in Seq(Cell), NEW b \in Beat, NEW end \in BOOLEAN
    PROVE  Relayed(b, end) \in Seq(Cell)
  <1>1. [beat |-> b, tlast |-> end] \in Cell
    BY DEF Cell
  <1> QED  BY <1>1, Appended DEF Relayed

LEMMA ReceiveTyped ==
    ASSUME ReceiverTypes, NEW b \in Beat, Receive(b)
    PROVE  ReceiverTypes'
  <1>1. ASSUME RxHeader(b) PROVE ReceiverTypes'
    <2>1. PICK h \in Readings(b) :
            /\ cur' = Decoded(h) /\ expect' = IsCtrl(h)
            /\ IF Decoded(h).mine /\ h.len > 1 THEN rx' = "data" /\ remaining' = h.len - 1
               ELSE UNCHANGED <<rx, remaining>>
            /\ relay' = IF ToRelay(h) THEN Relayed(b, h.len = 1) ELSE relay
            /\ delivered' = IF ToLocal(h) THEN b ELSE delivered
            /\ Unlocked(h.kind = "last" /\ h.len = 1)
            /\ misread' = (misread \/ Misread(b, h))
      BY <1>1 DEF RxHeader
    <2>2. h \in Header /\ h.len \in Nat
      BY ReadingsTyped DEF Header
    <2>3. relay' \in Seq(Cell) /\ delivered' \in Beat
      BY <2>1, RelayedTyped DEF ReceiverTypes
    <2>4. expect' \in BOOLEAN /\ locked' \in BOOLEAN /\ misread' \in BOOLEAN
      BY <2>1 DEF IsCtrl, Unlocked, ReceiverTypes
    <2>5. rx' \in {"idle", "data"} /\ remaining' \in Nat /\ (rx' = "data" => remaining' # 0)
      BY <2>1, <2>2 DEF ReceiverTypes
    <2> QED  BY <2>1, <2>3, <2>4, <2>5, DecodedTyped DEF ReceiverTypes
  <1>2. ASSUME RxCtrlBeat PROVE ReceiverTypes'
    BY <1>2 DEF RxCtrlBeat, ReceiverTypes
  <1>3. ASSUME RxData(b) PROVE ReceiverTypes'
    <2>1. relay' \in Seq(Cell) /\ delivered' \in Beat
      BY <1>3, RelayedTyped DEF RxData, ReceiverTypes
    <2>2. locked' \in BOOLEAN
      BY <1>3 DEF RxData, Unlocked
    <2>3. rx' \in {"idle", "data"} /\ remaining' \in Nat /\ (rx' = "data" => remaining' # 0)
      BY <1>3 DEF RxData, ReceiverTypes
    <2> QED  BY <1>3, <2>1, <2>2, <2>3 DEF RxData, ReceiverTypes
  <1> QED  BY <1>1, <1>2, <1>3 DEF Receive

TransmitterTypes ==
    /\ assigned \in 1..Len(Totals)
    /\ tx \in {"idle", "relay", "local", "drain_relay", "drain_local"}
    /\ rrLocal \in BOOLEAN /\ budget \in Nat /\ abort \in BOOLEAN
    /\ local \in [beat : Beat, end : Nat] /\ arriving \in [beat : Beat, end : Nat]
    /\ sent \in Cell /\ passed \in [relay : Nat, local : Nat]
    /\ budgets \in [wire : Nat, local : Nat, fault : Nat]

LEMMA TypesSplit == (Types <=> ReceiverTypes /\ TransmitterTypes) /\ (Types' <=> ReceiverTypes' /\ TransmitterTypes')
  BY DEF Types, TypeOK, ReceiverTypes, TransmitterTypes, Cell

LEMMA Spent ==
    ASSUME budgets \in [wire : Nat, local : Nat, fault : Nat], NEW name \in {"wire", "local", "fault"}, Spend(name)
    PROVE  /\ budgets' \in [wire : Nat, local : Nat, fault : Nat] /\ budgets[name] > 0
           /\ budgets'[name] = budgets[name] - 1
           /\ \A n \in {"wire", "local", "fault"} : n # name => budgets'[n] = budgets[n]
  BY DEF Spend

LEMMA BeatsCount == ASSUME NEW h \in Header PROVE Beats(h) \in Nat
  BY DEF Beats, Header

LEMMA FrameTyped ==
    ASSUME NEW h \in Header, NEW n \in Nat
    PROVE  LET f == [beat |-> [h |-> h, i |-> 1, no |-> n], end |-> Beats(h)] IN
           f \in [beat : Beat, end : Nat]
  BY BeatsCount DEF Beat

LEMMA RxFrameTypes == ASSUME Types, RxFrame PROVE Types'
  <1>1. ReceiverTypes /\ TransmitterTypes
    BY TypesSplit
  <1>2. PICK h \in WireFrames : 
           LET f == [beat |-> [h |-> h, i |-> 1, no |-> budgets.wire], end |-> Beats(h)] IN
           Spend("wire") /\ Receive(f.beat) /\ arriving' = Next1(f)
    BY DEF RxFrame
  <1> DEFINE f == [beat |-> [h |-> h, i |-> 1, no |-> budgets.wire], end |-> Beats(h)]
  <1>3. f \in [beat : Beat, end : Nat]
    <2>1. h \in Header /\ budgets.wire \in Nat
      BY <1>1, Constants DEF TransmitterTypes
    <2> QED  BY <2>1, FrameTyped
  <1>4. f.beat \in Beat
    BY <1>3
  <1>5. Spend("wire") /\ Receive(f.beat) /\ arriving' = Next1(f)
    BY <1>2
  <1> HIDE DEF f
  <1>6. ReceiverTypes'
    BY <1>1, <1>4, <1>5, ReceiveTyped
  <1>7. budgets' \in [wire : Nat, local : Nat, fault : Nat]
    BY <1>1, <1>5, Spent DEF TransmitterTypes
  <1>8. TransmitterTypes'
    BY <1>1, <1>3, <1>5, <1>7, NextBeat DEF TransmitterTypes, Receive, transmitter
  <1> QED  BY <1>6, <1>8, TypesSplit

LEMMA RxBeatTypes == ASSUME Types, RxBeat \/ RxPoison PROVE Types'
  <1>1. ReceiverTypes /\ TransmitterTypes
    BY TypesSplit
  <1>2. arriving \in [beat : Beat, end : Nat] /\ arriving.beat \in Beat
    BY <1>1 DEF TransmitterTypes
  <1>3. ReceiverTypes'
    BY <1>1, <1>2, ReceiveTyped, Beatless DEF RxBeat, RxPoison
  <1>4. budgets' \in [wire : Nat, local : Nat, fault : Nat]
    BY <1>1, Spent DEF TransmitterTypes, RxBeat, RxPoison
  <1>5. arriving' \in [beat : Beat, end : Nat]
    BY <1>2, NextBeat, Beatless DEF RxBeat, RxPoison
  <1>6. TransmitterTypes'
    BY <1>1, <1>4, <1>5 DEF TransmitterTypes, Receive, transmitter, RxBeat, RxPoison
  <1> QED  BY <1>3, <1>6, TypesSplit

LEMMA RxNoiseTypes == ASSUME Types, RxNoise PROVE Types'
  <1>1. ReceiverTypes /\ TransmitterTypes
    BY TypesSplit
  <1>2. PICK b \in Beat : Receive(b) /\ Spend("fault") /\ UNCHANGED arriving
    <2>1. \A h \in NoiseWords : [h |-> h, i |-> 1, no |-> 0] \in Beat
      BY Constants DEF Beat
    <2> QED  BY <2>1 DEF RxNoise
  <1>3. ReceiverTypes'
    BY <1>1, <1>2, ReceiveTyped
  <1>4. budgets' \in [wire : Nat, local : Nat, fault : Nat]
    BY <1>1, <1>2, Spent DEF TransmitterTypes
  <1>5. TransmitterTypes'
    BY <1>1, <1>2, <1>4 DEF TransmitterTypes, Receive, transmitter
  <1> QED  BY <1>3, <1>5, TypesSplit

LEMMA LayerTypes == ASSUME Types, LockReq \/ UnlockReq \/ Assign PROVE Types'
  <1>1. assigned' \in 1..Len(Totals) /\ locked' \in BOOLEAN
    <2>1. assigned' = assigned \/ (assigned < Len(Totals) /\ assigned' = assigned + 1)
      BY DEF LockReq, UnlockReq, Assign
    <2>2. locked' = locked \/ locked' \in {TRUE, FALSE}
      BY DEF LockReq, UnlockReq, Assign
    <2>3. assigned \in 1..Len(Totals) /\ locked \in BOOLEAN
      BY DEF Types, TypeOK
    <2>4. assigned' \in 1..Len(Totals)
      BY <2>1, <2>3, Constants
    <2> QED  BY <2>2, <2>3, <2>4
  <1> QED  BY <1>1 DEF Types, TypeOK, LockReq, UnlockReq, Assign, receiver, transmitter, history

LEMMA LocalFrameTypes == ASSUME Types, LocalFrame PROVE Types'
  <1>1. PICK h \in LocalFrames, x \in {0, Excess} :
           local' = [beat |-> [h |-> h, i |-> 1, no |-> WireBudget + budgets.local], end |-> h.len + x]
    BY DEF LocalFrame
  <1>2. h \in Header /\ h.len \in Nat /\ budgets.local \in Nat
    BY Constants DEF Types, TypeOK, Header
  <1>3. local' \in [beat : Beat, end : Nat]
    BY <1>1, <1>2, Constants DEF Beat
  <1>4. budgets' \in [wire : Nat, local : Nat, fault : Nat]
    BY Spent DEF LocalFrame, Types, TypeOK
  <1> QED  BY <1>3, <1>4 DEF Types, TypeOK, LocalFrame, transmitter, Rest, receiver

LEMMA Granted == ASSUME Types, NEW l \in Header, GrantRelay \/ GrantLocal(l) PROVE
    /\ tx' \in {"relay", "local"} /\ budget' \in Nat /\ rrLocal' \in BOOLEAN /\ passed' \in [relay : Nat, local : Nat]
  <1>1. passed.relay \in Nat /\ passed.local \in Nat /\ rrLocal \in BOOLEAN /\ budget \in Nat
    BY DEF Types, TypeOK
  <1>2. HasRelay \in BOOLEAN /\ LocalCanStart \in BOOLEAN
    BY DEF HasRelay, LocalCanStart
  <1>3. CASE GrantRelay
    BY <1>1, <1>2, <1>3 DEF GrantRelay
  <1>4. CASE GrantLocal(l)
    BY <1>1, <1>2, <1>4 DEF GrantLocal, Header
  <1> QED  BY <1>3, <1>4

\* What can be read for a header.
LEMMA Read ==
    ASSUME Types, NEW l \in Reading(LocalCanStart, local.beat)
    PROVE  l \in Header /\ (local.beat.i = 1 => l = local.beat.h)
  <1>1. local.beat \in Beat /\ local.beat.h \in Header
    BY DEF Types, TypeOK, Beat
  <1> QED  BY <1>1, ReadingsTyped DEF Reading

LEMMA ChooseTypes == ASSUME Types, Choose PROVE Types'
  <1>1. PICK l \in Reading(LocalCanStart, local.beat) :
           \/ tx' \in {"drain_relay", "drain_local"} /\ UNCHANGED <<rrLocal, passed>> /\ budget' \in {budget, l.len}
           \/ GrantRelay \/ GrantLocal(l)
    BY DEF Choose
  <1>2. l \in Header /\ l.len \in Nat
    BY Read DEF Header
  <1>3. /\ tx' \in {"idle", "relay", "local", "drain_relay", "drain_local"} /\ budget' \in Nat /\ rrLocal' \in BOOLEAN
        /\ passed' \in [relay : Nat, local : Nat]
    BY <1>1, <1>2, Granted DEF Types, TypeOK
  <1>4. UNCHANGED <<Rest, relay, abort, local, sent, budgets>>
    BY DEF Choose
  <1> QED  BY <1>3, <1>4 DEF Types, TypeOK, Rest, receiver

LEMMA PullTypes == ASSUME Types, SendRelay \/ DrainRelay PROVE Types'
  <1>1. relay \in Seq(Cell) /\ relay # <<>>
    BY DEF SendRelay, DrainRelay, HasRelay, Types, TypeOK, Cell
  <1>2. relay' \in Seq(Cell) /\ relay[1] \in Cell
    BY <1>1, Tailed DEF SendRelay, DrainRelay
  <1>3. sent' \in Cell /\ tx' \in {"idle", "relay", "drain_relay"}
    BY <1>2 DEF SendRelay, DrainRelay, Types, TypeOK, Cell
  <1> QED  BY <1>2, <1>3 DEF Types, TypeOK, SendRelay, DrainRelay, Rest, receiver, Cell

LEMMA PushTypes == ASSUME Types, SendLocal \/ DrainLocal PROVE Types'
  <1>1. local \in [beat : Beat, end : Nat] /\ local.beat \in Beat /\ budget \in Nat
    BY DEF Types, TypeOK
  <1>2. local' \in [beat : Beat, end : Nat]
    BY <1>1, NextBeat DEF SendLocal, DrainLocal, TakeLocal
  <1>3. LocalLast \in BOOLEAN /\ OverBudget \in BOOLEAN
    BY DEF LocalLast, OverBudget
  <1>4. budget' \in Nat
    BY <1>1 DEF SendLocal, DrainLocal, OverBudget
  <1>5. abort' \in BOOLEAN /\ tx' \in {"idle", "local", "drain_local"}
    BY <1>3 DEF SendLocal, DrainLocal, Types, TypeOK
  <1>6. sent' \in [beat : Beat, tlast : BOOLEAN]
    BY <1>1, <1>3 DEF SendLocal, DrainLocal, Types, TypeOK
  <1> QED  BY <1>2, <1>4, <1>5, <1>6 DEF Types, TypeOK, SendLocal, DrainLocal, Rest, receiver

LEMMA PoisonTypes == ASSUME Types, SendPoison PROVE Types'
  <1>1. sent' \in [beat : Beat, tlast : BOOLEAN] /\ abort' \in BOOLEAN
    BY Beatless DEF SendPoison
  <1>2. UNCHANGED <<assigned, rx, remaining, expect, cur, locked, arriving, delivered,
                    relay, tx, rrLocal, budget, local, passed, budgets, misread>>
    BY DEF SendPoison, Rest, receiver
  <1> QED  BY <1>1, <1>2 DEF Types, TypeOK

LEMMA TypesStep == ASSUME Types, [Next]_vars PROVE Types'
  <1>1. CASE UNCHANGED vars
    BY <1>1 DEF Types, TypeOK, vars, receiver, transmitter, history
  <1> QED  BY <1>1, RxFrameTypes, RxBeatTypes, RxNoiseTypes, LayerTypes, LocalFrameTypes, ChooseTypes, PullTypes, PushTypes,
              PoisonTypes DEF Next, Transmit

-----------------------------------------------------------------------------
\* Ranges and the port.

\* Only what has come from rx0 is relayed, noise and poison included.
LEMMA ReceiveForeign ==
    ASSUME Types, \A k \in 1..Len(relay) : ~Own(relay[k].beat), NEW b \in Beat, ~Own(b), Receive(b)
    PROVE  \A k \in 1..Len(relay') : ~Own(relay'[k].beat)
  <1>1. relay \in Seq(Cell)
    BY TypesSplit DEF ReceiverTypes
  <1>2. relay' = relay \/ \E end \in BOOLEAN : relay' = Append(relay, [beat |-> b, tlast |-> end])
    <2>1. CASE RxHeader(b)
      BY <2>1 DEF RxHeader, Relayed
    <2>2. CASE RxCtrlBeat
      BY <2>2 DEF RxCtrlBeat
    <2>3. CASE RxData(b)
      BY <2>3 DEF RxData, Relayed
    <2> QED  BY <2>1, <2>2, <2>3 DEF Receive
  <1>3. ASSUME NEW end \in BOOLEAN, NEW c, c = [beat |-> b, tlast |-> end], relay' = Append(relay, c)
        PROVE  \A k \in 1..Len(relay') : ~Own(relay'[k].beat)
    <2>1. c \in Cell /\ c.beat = b
      BY <1>3 DEF Cell
    <2>2. ASSUME NEW k \in 1..Len(relay') PROVE relay'[k] = c \/ (k \in 1..Len(relay) /\ relay'[k] = relay[k])
      BY <1>1, <1>3, <2>1, Appended
    <2> QED  BY <2>1, <2>2
  <1> QED  BY <1>2, <1>3

LEMMA RxRanges == ASSUME Types, Ranges, RxFrame \/ RxBeat \/ RxPoison \/ RxNoise PROVE Ranges'
  <1>1. /\ arriving \in [beat : Beat, end : Nat] /\ budgets \in [wire : Nat, local : Nat, fault : Nat]
        /\ budgets.wire <= WireBudget /\ budgets.fault <= FaultBudget
        /\ budgets.wire \in Nat /\ budgets.fault \in Nat
    BY DEF Types, TypeOK, Ranges
  <1>2. \A k \in 1..Len(relay) : ~Own(relay[k].beat)
    BY DEF Ranges
  <1>3. ASSUME NEW b \in Beat, ~Own(b), Receive(b), budgets'.wire <= WireBudget, budgets'.fault <= FaultBudget,
               arriving' # NoFrame => /\ arriving'.beat.h \in WireFrames /\ ~Own(arriving'.beat)
                                      /\ arriving'.end = Beats(arriving'.beat.h)
                                      /\ arriving'.beat.i \in 2..arriving'.end
        PROVE  Ranges'
    <2>1. \A k \in 1..Len(relay') : ~Own(relay'[k].beat)
      BY <1>2, <1>3, ReceiveForeign
    <2> QED  BY <1>3, <2>1 DEF Ranges, Receive, Own
  <1>4. ASSUME RxFrame PROVE Ranges'
    <2>1. PICK h \in WireFrames : 
             LET f == [beat |-> [h |-> h, i |-> 1, no |-> budgets.wire], end |-> Beats(h)] IN
             Spend("wire") /\ Receive(f.beat) /\ arriving' = Next1(f)
      BY <1>4 DEF RxFrame
    <2> DEFINE f == [beat |-> [h |-> h, i |-> 1, no |-> budgets.wire], end |-> Beats(h)]
    <2>2. h \in Header /\ Beats(h) \in Nat /\ Beats(h) # 0
      BY Constants DEF Beats, Header
    <2>3. f \in [beat : Beat, end : Nat] /\ f.beat \in Beat
      BY <1>1, <2>2, FrameTyped
    <2>4. f.beat.h = h /\ f.beat.i = 1 /\ f.beat.no = budgets.wire /\ f.end = Beats(h)
      OBVIOUS
    <2>5. Spend("wire") /\ Receive(f.beat) /\ arriving' = Next1(f)
      BY <2>1
    <2> HIDE DEF f
    <2>6. budgets'.wire <= WireBudget /\ budgets'.fault <= FaultBudget
      BY <1>1, <2>5, Spent, Constants
    <2>7. ~Own(f.beat)
      BY <1>1, <2>4, Constants DEF Own
    <2>8. arriving' # NoFrame => /\ arriving'.beat.h \in WireFrames /\ ~Own(arriving'.beat)
                                 /\ arriving'.end = Beats(arriving'.beat.h)
                                 /\ arriving'.beat.i \in 2..arriving'.end
      BY <2>2, <2>3, <2>4, <2>5, <2>7, NextBeat DEF Own
    <2> QED  BY <1>3, <2>3, <2>5, <2>6, <2>7, <2>8
  <1>5. ASSUME RxBeat PROVE Ranges'
    <2>1. arriving.beat \in Beat /\ arriving.beat.h \in WireFrames /\ ~Own(arriving.beat) /\ arriving.beat.h \in Header
          /\ arriving.end = Beats(arriving.beat.h) /\ arriving.beat.i \in 2..arriving.end /\ arriving.end \in Nat
      BY <1>1, <1>5, Constants DEF RxBeat, Ranges
    <2>2. arriving' # NoFrame => /\ arriving'.beat.h \in WireFrames /\ ~Own(arriving'.beat)
                                 /\ arriving'.end = Beats(arriving'.beat.h)
                                 /\ arriving'.beat.i \in 2..arriving'.end
      BY <1>1, <1>5, <2>1, NextBeat DEF Own, RxBeat
    <2> QED  BY <1>1, <1>3, <1>5, <2>1, <2>2 DEF RxBeat
  <1>6. ASSUME RxPoison PROVE Ranges'
    BY <1>1, <1>3, <1>6, Spent, Beatless, Foreign, Constants DEF RxPoison
  <1>7. ASSUME RxNoise PROVE Ranges'
    <2>1. PICK b \in Beat : b.no = 0 /\ Receive(b) /\ Spend("fault") /\ arriving' = arriving /\ arriving = NoFrame
      <3>1. \A h \in NoiseWords : [h |-> h, i |-> 1, no |-> 0] \in Beat
        BY Constants DEF Beat
      <3> QED  BY <1>7, <3>1 DEF RxNoise
    <2> QED  BY <1>1, <1>3, <2>1, Spent, Foreign, Constants
  <1> QED  BY <1>4, <1>5, <1>6, <1>7

LEMMA RestRanges ==
    ASSUME Types, Ranges, LockReq \/ UnlockReq \/ Assign \/ Choose \/ SendPoison \/ UNCHANGED vars
    PROVE  Ranges'
  BY DEF Ranges, LockReq, UnlockReq, Assign, Choose, SendPoison, vars, receiver, transmitter, history, Rest

LEMMA LocalFrameIs == ASSUME Types, LocalFrame PROVE
    /\ local = NoFrame /\ local'.beat.i = 1 /\ local'.end >= local'.beat.h.len /\ local'.end >= 1 /\ local'.end \in Nat
    /\ Own(local'.beat)
  <1>1. PICK h \in LocalFrames, x \in {0, Excess} :
           local' = [beat |-> [h |-> h, i |-> 1, no |-> WireBudget + budgets.local], end |-> h.len + x]
    BY DEF LocalFrame
  <1>2. h.len \in Nat /\ h.len # 0 /\ budgets.local \in Nat /\ budgets.local > 0 /\ local = NoFrame
    BY Constants, Spent DEF Types, TypeOK, Header, LocalFrame
  <1>3. /\ local'.beat.h = h /\ local'.beat.i = 1 /\ local'.beat.no = WireBudget + budgets.local
        /\ local'.end = h.len + x /\ x \in Nat
    BY <1>1, Constants
  <1> QED  BY <1>2, <1>3, Constants DEF Own

LEMMA LocalFrameRanges == ASSUME Types, Ranges, LocalFrame PROVE Ranges'
  <1>1. budgets'.wire = budgets.wire /\ budgets'.fault = budgets.fault
    BY Spent DEF Types, TypeOK, LocalFrame
  <1>2. local'.beat.i \in 1..local'.end
    BY LocalFrameIs
  <1> QED  BY <1>1, <1>2, LocalFrameIs DEF Ranges, LocalFrame, Rest, Own

LEMMA PullRanges == ASSUME Types, Ranges, SendRelay \/ DrainRelay PROVE Ranges'
  <1>1. relay \in Seq(Cell) /\ relay # <<>> /\ relay' = Tail(relay)
    BY DEF SendRelay, DrainRelay, HasRelay, Types, TypeOK, Cell
  <1>2. \A k \in 1..Len(relay) : ~Own(relay[k].beat)
    BY DEF Ranges
  <1>3. ASSUME NEW k \in 1..Len(relay') PROVE ~Own(relay'[k].beat)
    <2>1. relay'[k] = relay[k + 1] /\ k + 1 \in 1..Len(relay)
      BY <1>1, Tailed
    <2> QED  BY <1>2, <2>1
  <1>4. UNCHANGED <<budgets, local, arriving>>
    BY DEF SendRelay, DrainRelay, Rest
  <1> QED  BY <1>3, <1>4 DEF Ranges, Own

\* The next beat of a frame of this board.
LEMMA LocalNext ==
    ASSUME Types, Ranges, local # NoFrame, local' = Next1(local)
    PROVE  /\ LocalLast <=> local' = NoFrame
           /\ ~LocalLast => /\ local'.beat.i = local.beat.i + 1 /\ local'.beat.i \in 1..local'.end
                            /\ local'.end = local.end
                            /\ local'.beat.h = local.beat.h /\ local'.beat.no = local.beat.no
           /\ local.beat.i \in Nat /\ local.beat.h.len \in Nat /\ local.end \in Nat /\ local.beat.i <= local.end
           /\ local.beat.i >= 1
  <1>1. /\ local \in [beat : Beat, end : Nat] /\ local.beat \in Beat /\ local.beat.i \in 1..local.end
        /\ local.end \in Nat /\ local.beat.h.len \in Nat
    BY DEF Types, TypeOK, Ranges, Beat, Header
  <1>2. CASE local.beat.i = local.end
    BY <1>1, <1>2, NextBeat DEF LocalLast
  <1>3. CASE local.beat.i # local.end
    <2>1. local'.beat.i = local.beat.i + 1 /\ local'.end = local.end
          /\ local'.beat.h = local.beat.h /\ local'.beat.no = local.beat.no
      BY <1>1, <1>3, NextBeat
    <2>2. local' # NoFrame
      BY <1>1, <1>3, <2>1, Beatless
    <2> QED  BY <1>1, <1>3, <2>1, <2>2 DEF LocalLast
  <1> QED  BY <1>2, <1>3

LEMMA PushRanges == ASSUME Types, Ranges, SendLocal \/ DrainLocal PROVE Ranges'
  <1>1. local # NoFrame /\ local' = Next1(local) /\ UNCHANGED <<budgets, arriving, relay>>
    BY DEF SendLocal, DrainLocal, TakeLocal, Rest
  <1>2. local' # NoFrame => /\ local'.beat.i \in 1..local'.end /\ local'.end >= local'.beat.h.len
                            /\ Own(local'.beat)
    BY <1>1, LocalNext DEF Ranges, Own
  <1> QED  BY <1>1, <1>2 DEF Ranges, Own

LEMMA RangesStep == ASSUME Types, Ranges, [Next]_vars PROVE Ranges'
  BY RxRanges, RestRanges, LocalFrameRanges, PullRanges, PushRanges DEF Next, Transmit
-----------------------------------------------------------------------------
\* The port.
SamePort == UNCHANGED <<tx, local, sent, abort, budget>>
LEMMA PortSame == ASSUME Port, SamePort PROVE Port'
  BY DEF Port, SamePort, Whole, Follows

LEMMA ReceiveSamePort ==
    ASSUME RxFrame \/ RxBeat \/ RxPoison \/ RxNoise \/ LockReq \/ UnlockReq \/ Assign \/ UNCHANGED vars PROVE SamePort
  BY DEF RxFrame, RxBeat, RxPoison, RxNoise, LockReq, UnlockReq, Assign, Receive, SamePort, transmitter, history, vars

LEMMA LocalFramePort == ASSUME Types, Port, LocalFrame PROVE Port'
  <1>1. UNCHANGED <<tx, sent, abort, budget>>
    BY DEF LocalFrame, transmitter
  <1>2. local = NoFrame /\ tx \notin Sides /\ local'.beat.i = 1
    BY LocalFrameIs DEF Port
  <1>3. tx' \notin Sides
    BY <1>1, <1>2
  <1> QED  BY <1>1, <1>2, <1>3 DEF Port, Whole, Sides

LEMMA ChoosePort == ASSUME Types, Ranges, Port, Choose PROVE Port'
  <1>1. tx = "idle" /\ ~abort /\ UNCHANGED <<abort, local, sent>> /\ sent.tlast
    BY DEF Choose, Port
  <1>2. PICK l \in Reading(LocalCanStart, local.beat) :
           \/ tx' \in {"drain_relay", "relay"}
           \/ tx' \in Sides /\ budget' = l.len /\ LocalCanStart
    BY DEF Choose, GrantRelay, GrantLocal, Sides
  <1>3. CASE tx' \in {"drain_relay", "relay"}
    BY <1>1, <1>3 DEF Port, Whole, Sides
  <1>4. CASE tx' \in Sides /\ budget' = l.len /\ LocalCanStart
    <2>1. local # NoFrame /\ (Whole => local.beat.i = 1)
      BY <1>1, <1>4 DEF LocalCanStart, Port, Sides
    <2>2. Whole => l = local.beat.h
      BY <2>1, Read
    <2>3. local.beat.h.len \in Nat
      BY DEF Types, TypeOK, Beat, Header
    <2>4. Whole => budget' = local.beat.h.len /\ local.beat.i = 1
      BY <1>4, <2>1, <2>2
    <2>5. Whole => budget' = local.beat.h.len - local.beat.i + 1
      BY <2>3, <2>4
    <2> QED  BY <1>1, <1>4, <2>1, <2>4, <2>5 DEF Port, Whole, Sides
  <1> QED  BY <1>2, <1>3, <1>4

LEMMA PullPort == ASSUME Types, Port, SendRelay \/ DrainRelay PROVE Port'
  <1>1. tx \in {"relay", "drain_relay"} /\ ~abort /\ UNCHANGED <<local, abort, budget>>
    BY DEF SendRelay, DrainRelay, Port
  <1>2. tx' = tx \/ tx' = "idle"
    BY DEF SendRelay, DrainRelay
  <1>3. tx' \in {"idle", "drain_relay", "drain_local"} => sent'.tlast
    BY <1>1 DEF SendRelay, DrainRelay, Port
  <1>4. Whole => local.beat.i = 1
    BY <1>1 DEF Port, Sides
  <1> QED  BY <1>1, <1>2, <1>3, <1>4 DEF Port, Whole, Sides

LEMMA PoisonPort == ASSUME Port, SendPoison PROVE Port'
  <1>1. tx = "idle" /\ UNCHANGED <<tx, local, budget>> /\ abort' = FALSE /\ sent'.tlast
    BY DEF SendPoison, Port
  <1> QED  BY <1>1 DEF Port, Whole, Sides

LEMMA PushPort == ASSUME Types, Ranges, Port, SendLocal \/ DrainLocal PROVE Port'
  <1>1. /\ local # NoFrame /\ local' = Next1(local) /\ tx \in Sides /\ ~abort
        /\ tx' = (IF LocalLast \/ OverBudget THEN "idle" ELSE tx)
        /\ budget' = (IF LocalLast \/ OverBudget THEN budget ELSE budget - 1)
    BY DEF SendLocal, DrainLocal, TakeLocal, Sides, Port
  <1>2. Whole => /\ budget = local.beat.h.len - local.beat.i + 1 /\ local.end = local.beat.h.len
    BY <1>1 DEF Port, Whole
  <1>3. Whole => ~OverBudget
    BY <1>1, <1>2, LocalNext DEF OverBudget, LocalLast
  <1>4. Whole' => ~LocalLast /\ Whole
    BY <1>1, LocalNext DEF Whole
  <1>5. Whole' => tx' \in Sides /\ tx' = tx /\ budget' = local'.beat.h.len - local'.beat.i + 1 /\ local'.beat.i # 1
    BY <1>1, <1>2, <1>3, <1>4, LocalNext
  <1>6. tx' \in Sides => local' # NoFrame
    BY <1>1, LocalNext DEF Sides
  <1>7. /\ tx' \in {"idle", "drain_relay", "drain_local"} => sent'.tlast \/ abort'
        /\ abort' => tx' = "idle"
    BY <1>1 DEF SendLocal, DrainLocal, Port
  <1>8. Whole' /\ tx' = "local" => ~sent'.tlast /\ Follows(local'.beat, sent'.beat)
    <2>1. SUFFICES ASSUME Whole', tx' = "local" PROVE ~sent'.tlast /\ Follows(local'.beat, sent'.beat)
      OBVIOUS
    <2>2. sent' = [beat |-> local.beat, tlast |-> LocalLast] /\ ~LocalLast
      BY <1>4, <1>5, <2>1 DEF SendLocal, DrainLocal
    <2> QED  BY <1>1, <2>2, LocalNext DEF Follows
  <1> QED  BY <1>5, <1>6, <1>7, <1>8 DEF Port, Sides

LEMMA PortStep == ASSUME Types, Ranges, Port, [Next]_vars PROVE Port'
  BY ReceiveSamePort, PortSame, LocalFramePort, ChoosePort, PullPort, PoisonPort, PushPort DEF Next, Transmit

-----------------------------------------------------------------------------
\* The receiver.

\* What the receiver does to the relay FIFO and to the local output with a beat of a
\* frame that arrives whole.
Carried ==
    \/ ~Mid /\ ~Mid' /\ relay' = relay
    \/ \E c \in Cell : /\ relay' = Append(relay, c) /\ CellOk(c)
                       /\ IF Mid THEN c.beat = arriving.beat ELSE c.beat.i = 1
                       /\ Mid' <=> ~c.tlast
                       /\ Mid' => Goes(arriving'.beat, c)
Copied ==
    \/ delivered' = delivered
    \/ Copying /\ Follows(delivered', delivered) /\ delivered.i # delivered.h.len
    \/ ~Copying /\ delivered'.i = 1 /\ delivered.i = delivered.h.len

\* The first beat.
LEMMA HeaderTaken ==
    ASSUME Types, Received, NEW h \in WireFrames, NEW b \in Beat, b.h = h, b.i = 1, Receive(b),
           arriving = NoFrame
    PROVE  /\ cur'.mine = (GateOk(h) /\ ~IsCtrl(h)) /\ cur'.toLocal = ToLocal(h) /\ cur'.toRelay = ToRelay(h)
           /\ expect' = IsCtrl(h)
           /\ IF GateOk(h) /\ ~IsCtrl(h) /\ h.len > 1 THEN rx' = "data" /\ remaining' = h.len - 1 ELSE rx' = "idle"
           /\ relay' = IF ToRelay(h) THEN Append(relay, [beat |-> b, tlast |-> h.len = 1]) ELSE relay
           /\ delivered' = IF ToLocal(h) THEN b ELSE delivered
  <1>1. rx = "idle" /\ ~expect
    BY DEF Received
  <1>2. RxHeader(b)
    BY <1>1 DEF Receive, RxCtrlBeat, RxData
  <1>3. Readings(b) = {h}
    BY ReadingsTyped
  <1>4. Decoded(h).mine = (GateOk(h) /\ ~IsCtrl(h))
    BY DecodedTyped
  <1>5. /\ cur' = Decoded(h) /\ expect' = IsCtrl(h)
        /\ IF Decoded(h).mine /\ h.len > 1 THEN rx' = "data" /\ remaining' = h.len - 1
           ELSE UNCHANGED <<rx, remaining>>
        /\ relay' = IF ToRelay(h) THEN Append(relay, [beat |-> b, tlast |-> h.len = 1]) ELSE relay
        /\ delivered' = IF ToLocal(h) THEN b ELSE delivered
    BY <1>2, <1>3 DEF RxHeader, Relayed
  <1> QED  BY <1>1, <1>4, <1>5, DecodedTyped

\* Whether the gate accepts the frame on rx0 stays as it is: total_boards does not change.
LEMMA CountedSame ==
    ASSUME assigned' = assigned, arriving'.beat.h = arriving.beat.h
    PROVE  Counted' <=> Counted
  BY DEF Counted, GateOk, SrcValid, Total

LEMMA CountedFirst ==
    ASSUME assigned' = assigned, NEW h, arriving'.beat.h = h
    PROVE  Counted' <=> GateOk(h)
  BY DEF Counted, GateOk, SrcValid, Total

\* A later beat of a frame that is not of Layer 3.
LEMMA DataTaken ==
    ASSUME Types, Received, arriving # NoFrame, ~IsCtrl(arriving.beat.h), Counted, Receive(arriving.beat)
    PROVE  /\ remaining' = remaining - 1 /\ rx' = (IF remaining = 1 THEN "idle" ELSE "data")
           /\ relay' = IF cur.toRelay THEN Append(relay, [beat |-> arriving.beat, tlast |-> remaining = 1]) ELSE relay
           /\ delivered' = IF cur.toLocal THEN arriving.beat ELSE delivered
           /\ cur' = cur /\ expect' = expect /\ ~expect /\ cur.mine
           /\ remaining = arriving.beat.h.len - arriving.beat.i + 1
  <1>1. /\ rx = "data" /\ ~expect /\ cur.mine
        /\ remaining = arriving.beat.h.len - arriving.beat.i + 1
    BY DEF Received
  <1>2. RxData(arriving.beat)
    BY <1>1 DEF Receive, RxHeader, RxCtrlBeat
  <1> QED  BY <1>1, <1>2 DEF RxData, Relayed

LEMMA CtrlTaken ==
    ASSUME Received, arriving # NoFrame, IsCtrl(arriving.beat.h), Receive(arriving.beat)
    PROVE  /\ rx' = "idle" /\ ~expect' /\ relay' = relay /\ delivered' = delivered
           /\ ~Mid /\ ~Copying
  <1>1. rx = "idle" /\ expect /\ ~cur.toLocal /\ ~cur.toRelay
    BY DEF Received
  <1>2. RxCtrlBeat
    BY <1>1 DEF Receive, RxHeader, RxData
  <1> QED  BY <1>1, <1>2 DEF RxCtrlBeat, Mid, Copying

\* A later beat of a frame the gate has refused: a header that is refused too.
LEMMA RefusedTaken ==
    ASSUME Received, arriving # NoFrame, ~IsCtrl(arriving.beat.h), ~Counted, Receive(arriving.beat), ~misread'
    PROVE  /\ rx' = "idle" /\ ~expect' /\ relay' = relay /\ delivered' = delivered
           /\ ~cur'.toLocal /\ ~cur'.toRelay /\ ~Mid /\ ~Copying
  <1>1. rx = "idle" /\ ~expect /\ ~cur.toLocal /\ ~cur.toRelay
    BY DEF Received
  <1>2. RxHeader(arriving.beat)
    BY <1>1 DEF Receive, RxCtrlBeat, RxData
  <1>3. PICK h \in Readings(arriving.beat) :
          /\ cur' = Decoded(h) /\ expect' = IsCtrl(h)
          /\ IF Decoded(h).mine /\ h.len > 1 THEN rx' = "data" /\ remaining' = h.len - 1
             ELSE UNCHANGED <<rx, remaining>>
          /\ relay' = IF ToRelay(h) THEN Relayed(arriving.beat, h.len = 1) ELSE relay
          /\ delivered' = IF ToLocal(h) THEN arriving.beat ELSE delivered
          /\ misread' = (misread \/ Misread(arriving.beat, h))
    BY <1>2 DEF RxHeader
  <1>4. ~GateOk(h) /\ ~IsCtrl(h)
    BY <1>3 DEF Misread, Counted
  <1>5. ~ToLocal(h) /\ ~ToRelay(h)
    BY <1>4 DEF ToLocal, ToRelay
  <1>6. ~Decoded(h).mine /\ ~Decoded(h).toLocal /\ ~Decoded(h).toRelay
    BY <1>4, <1>5, DecodedTyped
  <1> QED  BY <1>1, <1>3, <1>4, <1>5, <1>6 DEF Mid, Copying

CellOf(b, end) == [beat |-> b, tlast |-> end]
LEMMA CellIs == ASSUME NEW b \in Beat, NEW end \in BOOLEAN
                PROVE  CellOf(b, end) \in Cell /\ CellOf(b, end).beat = b /\ CellOf(b, end).tlast = end
  BY DEF CellOf, Cell

\* A beat that stands in its frame, put in the relay FIFO.
LEMMA CellGood ==
    ASSUME NEW b \in Beat, NEW end \in BOOLEAN, b.i \in 1..b.h.len, end <=> b.i = b.h.len
    PROVE  CellOk(CellOf(b, end))
  <1>1. PICK c \in Cell : c = CellOf(b, end) /\ c.beat = b /\ c.tlast = end
    BY CellIs
  <1> QED  BY <1>1 DEF CellOk

LEMMA FrameReceived == ASSUME Types, Ranges, Received, RxFrame PROVE Received' /\ Carried /\ Copied
  <1>1. PICK h \in WireFrames :
           LET f == [beat |-> [h |-> h, i |-> 1, no |-> budgets.wire], end |-> Beats(h)] IN
           arriving = NoFrame /\ Receive(f.beat) /\ arriving' = Next1(f)
    BY DEF RxFrame
  <1> DEFINE f == [beat |-> [h |-> h, i |-> 1, no |-> budgets.wire], end |-> Beats(h)]
  <1>2. h \in Header /\ h.len \in Nat /\ h.len # 0 /\ budgets.wire \in Nat
    BY Constants DEF Header, Types, TypeOK
  <1>3. f \in [beat : Beat, end : Nat] /\ f.beat \in Beat
    BY <1>2, FrameTyped
  <1>4. f.beat.h = h /\ f.beat.i = 1 /\ f.end = Beats(h)
    OBVIOUS
  <1>5. arriving = NoFrame /\ Receive(f.beat) /\ arriving' = Next1(f)
    BY <1>1
  <1> HIDE DEF f
  <1>6. PICK b \in Beat : b = f.beat
    BY <1>3
  <1>7. /\ cur'.mine = (GateOk(h) /\ ~IsCtrl(h)) /\ cur'.toLocal = ToLocal(h) /\ cur'.toRelay = ToRelay(h)
        /\ expect' = IsCtrl(h)
        /\ IF GateOk(h) /\ ~IsCtrl(h) /\ h.len > 1 THEN rx' = "data" /\ remaining' = h.len - 1 ELSE rx' = "idle"
        /\ relay' = IF ToRelay(h) THEN Append(relay, [beat |-> b, tlast |-> h.len = 1]) ELSE relay
        /\ delivered' = IF ToLocal(h) THEN b ELSE delivered
    BY <1>4, <1>5, <1>6, HeaderTaken
  <1>8. IsCtrl(h) \/ ~GateOk(h) => ~ToLocal(h) /\ ~ToRelay(h)
    BY DEF ToLocal, ToRelay, IsCtrl
  <1>9. ~Mid /\ ~Copying /\ delivered.i = delivered.h.len
    BY <1>5 DEF Mid, Copying, Received
  <1>10. CASE IsCtrl(h)
    <2>1. arriving' # NoFrame /\ arriving'.beat.h = h
      BY <1>3, <1>4, <1>5, <1>10, NextBeat, Beatless DEF Beats
    <2>2. ~Mid' /\ ~Copying' /\ relay' = relay /\ delivered' = delivered
      BY <1>7, <1>8, <1>10 DEF Mid, Copying
    <2>3. Received'
      BY <1>7, <1>8, <1>9, <1>10, <2>1, <2>2 DEF Received
    <2> QED  BY <1>9, <2>2, <2>3 DEF Carried, Copied
  <1>11. CASE ~IsCtrl(h) /\ h.len = 1
    <2>1. arriving' = NoFrame
      BY <1>3, <1>4, <1>5, <1>11, NextBeat DEF Beats
    <2>2. ~Mid' /\ ~Copying'
      BY <2>1 DEF Mid, Copying
    <2>3. delivered'.i = delivered'.h.len
      BY <1>4, <1>6, <1>7, <1>9, <1>11
    <2>4. Received'
      BY <1>7, <1>11, <2>1, <2>2, <2>3 DEF Received
    <2>5. Copied
      BY <1>4, <1>6, <1>7, <1>9 DEF Copied
    <2>6. CASE ToRelay(h)
      <3>1. relay' = Append(relay, CellOf(b, TRUE))
        BY <1>7, <1>11, <2>6 DEF CellOf
      <3>2. CellOf(b, TRUE).beat = b /\ CellOf(b, TRUE) \in Cell /\ CellOf(b, TRUE).tlast
        BY CellIs
      <3>3. b.i = 1 /\ b.i \in 1..b.h.len /\ (TRUE <=> b.i = b.h.len)
        BY <1>4, <1>6, <1>11
      <3>4. CellOk(CellOf(b, TRUE))
        BY <3>3, CellGood
      <3> QED  BY <1>9, <2>2, <2>4, <2>5, <3>1, <3>2, <3>3, <3>4 DEF Carried
    <2>7. CASE ~ToRelay(h)
      BY <1>7, <1>9, <2>2, <2>4, <2>5, <2>7 DEF Carried
    <2> QED  BY <2>6, <2>7
  <1>13. CASE ~GateOk(h) /\ ~IsCtrl(h) /\ h.len > 1
    <2>1. arriving' # NoFrame /\ arriving'.beat.h = h
      BY <1>2, <1>3, <1>4, <1>5, <1>13, NextBeat, Beatless DEF Beats
    <2>2. ~Mid' /\ ~Copying' /\ relay' = relay /\ delivered' = delivered
      BY <1>7, <1>8, <1>13 DEF Mid, Copying
    <2>3. ~Counted'
      BY <1>5, <1>13, <2>1, CountedFirst DEF Receive
    <2>4. Received'
      BY <1>7, <1>8, <1>9, <1>13, <2>1, <2>2, <2>3 DEF Received
    <2> QED  BY <1>9, <2>2, <2>4 DEF Carried, Copied
  <1>12. CASE GateOk(h) /\ ~IsCtrl(h) /\ h.len > 1
    <2>1. /\ arriving' # NoFrame /\ arriving'.beat.h = h /\ arriving'.beat.i = 2 /\ arriving'.beat.no = b.no
      BY <1>2, <1>3, <1>4, <1>5, <1>6, <1>12, NextBeat, Beatless DEF Beats
    <2>9. Counted'
      BY <1>5, <1>12, <2>1, CountedFirst DEF Receive
    <2>2. (Mid' <=> ToRelay(h)) /\ (Copying' <=> ToLocal(h))
      BY <1>7, <2>1 DEF Mid, Copying
    <2>3. IF ToLocal(h) THEN Follows(arriving'.beat, delivered') ELSE delivered' = delivered
      BY <1>4, <1>6, <1>7, <2>1 DEF Follows
    <2>4. remaining' = h.len - arriving'.beat.i + 1
      BY <1>2, <1>7, <1>12, <2>1
    <2>5. Received'
      BY <1>7, <1>9, <1>12, <2>1, <2>2, <2>3, <2>4, <2>9 DEF Received
    <2>6. Copied
      BY <1>4, <1>6, <1>7, <1>9 DEF Copied
    <2>7. CASE ToRelay(h)
      <3>1. relay' = Append(relay, CellOf(b, FALSE))
        <4>1. (h.len = 1) = FALSE
          BY <1>2, <1>12
        <4> QED  BY <1>7, <2>7, <4>1 DEF CellOf
      <3>2. CellOf(b, FALSE).beat = b /\ CellOf(b, FALSE) \in Cell /\ ~CellOf(b, FALSE).tlast
        BY CellIs
      <3>3. b.i = 1 /\ b.i \in 1..b.h.len /\ (FALSE <=> b.i = b.h.len)
        BY <1>2, <1>4, <1>6, <1>12
      <3>4. CellOk(CellOf(b, FALSE))
        BY <3>3, CellGood
      <3>5. Follows(arriving'.beat, b)
        BY <1>4, <1>6, <2>1 DEF Follows
      <3>6. Goes(arriving'.beat, CellOf(b, FALSE))
        BY <3>2, <3>5 DEF Goes
      <3> QED  BY <1>9, <2>2, <2>5, <2>6, <2>7, <3>1, <3>2, <3>3, <3>4, <3>6 DEF Carried
    <2>8. CASE ~ToRelay(h)
      BY <1>7, <1>9, <2>2, <2>5, <2>6, <2>8 DEF Carried
    <2> QED  BY <2>7, <2>8
  <1> QED  BY <1>2, <1>10, <1>11, <1>12, <1>13

LEMMA CountDown ==
    ASSUME NEW n \in Nat, NEW i \in Nat, i <= n, i # n
    PROVE  n - i + 1 # 1 /\ (n - i + 1) - 1 = n - (i + 1) + 1
  OBVIOUS

LEMMA BeatReceived == ASSUME Types, Ranges, Received, RxBeat, ~misread' PROVE Received' /\ Carried /\ Copied
  <1>1. /\ arriving # NoFrame /\ Receive(arriving.beat) /\ arriving' = Next1(arriving)
        /\ arriving \in [beat : Beat, end : Nat]
    BY DEF RxBeat, Types, TypeOK
  <1>2. PICK b \in Beat : b = arriving.beat
    BY <1>1
  <1>3. PICK n \in Nat : n = b.h.len
    BY DEF Beat, Header
  <1>4. arriving.end = Beats(b.h) /\ b.i \in 2..arriving.end /\ b.i \in Nat
    BY <1>1, <1>2 DEF Ranges
  <1>5. CASE IsCtrl(b.h)
    <2>1. /\ rx' = "idle" /\ ~expect' /\ relay' = relay /\ delivered' = delivered
          /\ ~Mid /\ ~Copying
      BY <1>1, <1>2, <1>5, CtrlTaken
    <2>2. arriving' = NoFrame
      BY <1>1, <1>2, <1>4, <1>5, NextBeat DEF Beats
    <2>3. ~Mid' /\ ~Copying'
      BY <2>2 DEF Mid, Copying
    <2>4. delivered.i = delivered.h.len
      BY <2>1 DEF Received
    <2> QED  BY <2>1, <2>2, <2>3, <2>4 DEF Received, Carried, Copied
  <1>7. CASE ~IsCtrl(b.h) /\ ~Counted
    <2>1. /\ rx' = "idle" /\ ~expect' /\ relay' = relay /\ delivered' = delivered
          /\ ~cur'.toLocal /\ ~cur'.toRelay /\ ~Mid /\ ~Copying
      BY <1>1, <1>2, <1>7, RefusedTaken
    <2>2. ~Mid' /\ ~Copying'
      BY <2>1 DEF Mid, Copying
    <2>3. delivered.i = delivered.h.len
      BY <2>1 DEF Received
    <2>4. arriving' = NoFrame \/ arriving'.beat.h = arriving.beat.h
      BY <1>1, NextBeat
    <2>5. arriving' = NoFrame \/ (arriving'.beat.h = b.h /\ ~Counted')
      BY <1>1, <1>2, <1>7, <2>4, CountedSame DEF Receive
    <2>6. Received'
      BY <1>7, <2>1, <2>2, <2>3, <2>5 DEF Received
    <2> QED  BY <2>1, <2>2, <2>6 DEF Carried, Copied
  <1>6. CASE ~IsCtrl(b.h) /\ Counted
    <2>1. /\ remaining' = remaining - 1 /\ rx' = (IF remaining = 1 THEN "idle" ELSE "data")
          /\ relay' = IF cur.toRelay THEN Append(relay, [beat |-> b, tlast |-> remaining = 1]) ELSE relay
          /\ delivered' = IF cur.toLocal THEN b ELSE delivered
          /\ cur' = cur /\ expect' = expect /\ ~expect /\ cur.mine
          /\ remaining = n - b.i + 1
      BY <1>1, <1>2, <1>3, <1>6, DataTaken
    <2>2. b.i <= n /\ b.i >= 2 /\ arriving.end = n
      BY <1>3, <1>4, <1>6 DEF Beats
    <2>3. (Mid <=> cur.toRelay) /\ (Copying <=> cur.toLocal)
      BY <1>1 DEF Mid, Copying
    <2>4. IF cur.toLocal THEN Follows(b, delivered) ELSE delivered.i = n \/ delivered.i = delivered.h.len
      BY <1>2, <2>3 DEF Received
    <2>5. Copied
      <3>1. CASE cur.toLocal
        <4>1. Follows(b, delivered) /\ delivered' = b
          BY <2>1, <2>4, <3>1
        <4>2. delivered.i + 1 = b.i /\ delivered.h = b.h
          BY <4>1 DEF Follows
        <4>3. delivered.i \in Nat
          BY DEF Types, TypeOK, Beat
        <4>4. delivered.i # delivered.h.len
          BY <1>3, <1>4, <2>2, <4>2, <4>3
        <4> QED  BY <2>3, <3>1, <4>1, <4>4 DEF Copied
      <3>2. CASE ~cur.toLocal
        BY <2>1, <3>2 DEF Copied
      <3> QED  BY <3>1, <3>2
    <2>6. CASE b.i = n
      <3>1. arriving' = NoFrame /\ remaining = 1
        BY <1>1, <1>2, <1>3, <1>4, <2>1, <2>2, <2>6, NextBeat
      <3>2. ~Mid' /\ ~Copying'
        BY <3>1 DEF Mid, Copying
      <3>3. delivered'.i = delivered'.h.len
        <4>1. CASE cur.toLocal
          BY <1>3, <2>1, <2>6, <4>1
        <4>2. CASE ~cur.toLocal
          BY <2>1, <2>3, <4>2 DEF Received
        <4> QED  BY <4>1, <4>2
      <3>4. Received'
        BY <2>1, <3>1, <3>2, <3>3 DEF Received
      <3>5. CASE cur.toRelay
        <4>1. relay' = Append(relay, CellOf(b, TRUE))
          BY <2>1, <3>1, <3>5 DEF CellOf
        <4>2. CellOf(b, TRUE).beat = b /\ CellOf(b, TRUE) \in Cell /\ CellOf(b, TRUE).tlast
          BY CellIs
        <4>4. b.i \in 1..b.h.len /\ (TRUE <=> b.i = b.h.len)
          BY <1>3, <1>4, <2>2, <2>6
        <4>5. CellOk(CellOf(b, TRUE))
          BY <4>4, CellGood
        <4> QED  BY <1>2, <2>3, <2>5, <3>2, <3>4, <3>5, <4>1, <4>2, <4>5 DEF Carried
      <3>6. CASE ~cur.toRelay
        BY <2>1, <2>3, <2>5, <3>2, <3>4, <3>6 DEF Carried
      <3> QED  BY <3>5, <3>6
    <2>7. CASE b.i # n
      <3>1. /\ arriving' # NoFrame /\ arriving'.beat.h = b.h /\ arriving'.beat.i = b.i + 1
            /\ arriving'.beat.no = b.no
        BY <1>1, <1>2, <1>4, <2>2, <2>7, NextBeat, Beatless
      <3>9. Counted'
        BY <1>1, <1>2, <1>6, <3>1, CountedSame DEF Receive
      <3>2. remaining # 1 /\ remaining' = n - arriving'.beat.i + 1
        <4>1. n \in Nat /\ b.i \in Nat /\ b.i <= n /\ b.i # n
          BY <1>3, <1>4, <2>2, <2>7
        <4>2. n - b.i + 1 # 1 /\ (n - b.i + 1) - 1 = n - (b.i + 1) + 1
          BY <4>1, CountDown
        <4>3. remaining = n - b.i + 1 /\ remaining' = remaining - 1 /\ arriving'.beat.i = b.i + 1
          BY <2>1, <3>1
        <4> QED  BY <4>2, <4>3
      <3>3. (Mid' <=> cur.toRelay) /\ (Copying' <=> cur.toLocal)
        BY <2>1, <3>1 DEF Mid, Copying
      <3>4. Follows(arriving'.beat, b)
        BY <3>1 DEF Follows
      <3>5. IF Copying' THEN Follows(arriving'.beat, delivered') ELSE delivered'.i = delivered'.h.len
        <4>1. CASE cur.toLocal
          BY <2>1, <3>3, <3>4, <4>1
        <4>2. CASE ~cur.toLocal
          BY <2>1, <2>3, <3>3, <4>2 DEF Received
        <4> QED  BY <4>1, <4>2
      <3>6. Received'
        BY <1>3, <1>6, <2>1, <3>1, <3>2, <3>5, <3>9 DEF Received
      <3>7. CASE cur.toRelay
        <4>1. relay' = Append(relay, CellOf(b, FALSE))
          BY <2>1, <3>2, <3>7 DEF CellOf
        <4>2. CellOf(b, FALSE).beat = b /\ CellOf(b, FALSE) \in Cell /\ ~CellOf(b, FALSE).tlast
          BY CellIs
        <4>4. b.i \in 1..b.h.len /\ (FALSE <=> b.i = b.h.len)
          BY <1>3, <1>4, <2>2, <2>7
        <4>5. CellOk(CellOf(b, FALSE))
          BY <4>4, CellGood
        <4>3. Goes(arriving'.beat, CellOf(b, FALSE))
          BY <3>4, <4>2 DEF Goes
        <4> QED  BY <1>2, <2>3, <2>5, <3>3, <3>6, <3>7, <4>1, <4>2, <4>3, <4>5 DEF Carried
      <3>8. CASE ~cur.toRelay
        BY <2>1, <2>3, <2>5, <3>3, <3>6, <3>8 DEF Carried
      <3> QED  BY <3>7, <3>8
    <2> QED  BY <2>6, <2>7
  <1> QED  BY <1>5, <1>6, <1>7

-----------------------------------------------------------------------------
\* The relay FIFO, and the invariant.

\* The relay FIFO, as beats enter and leave it.
LEMMA ChainAppended ==
    ASSUME NEW s \in Seq(Cell), Chain(s), NEW c \in Cell, CellOk(c), s # <<>> => Link(s[Len(s)], c)
    PROVE  /\ Chain(Append(s, c)) /\ Append(s, c) # <<>> /\ Append(s, c)[Len(Append(s, c))] = c
           /\ Append(s, c)[1] = IF s = <<>> THEN c ELSE s[1]
  <1> DEFINE t == Append(s, c)
  <1>1. /\ t # <<>> /\ Len(s) \in Nat /\ Len(t) = Len(s) + 1 /\ t[Len(s) + 1] = c
        /\ \A k \in 1..Len(s) : t[k] = s[k]
    BY Appended
  <1>2. s = <<>> <=> Len(s) = 0
    BY EmptySeq
  <1> HIDE DEF t
  <1>3. ASSUME NEW k \in 1..Len(t) PROVE CellOk(t[k])
    <2>1. CASE k = Len(s) + 1
      BY <1>1, <2>1
    <2>2. CASE k # Len(s) + 1
      <3>1. k \in 1..Len(s) /\ t[k] = s[k]
        BY <1>1, <2>2
      <3> QED  BY <3>1 DEF Chain
    <2> QED  BY <2>1, <2>2
  <1>4. ASSUME NEW k \in 1..(Len(t) - 1) PROVE Link(t[k], t[k + 1])
    <2>1. CASE k = Len(s)
      <3>1. t[k] = s[Len(s)] /\ t[k + 1] = c /\ s # <<>>
        BY <1>1, <1>2, <2>1
      <3> QED  BY <3>1
    <2>2. CASE k # Len(s)
      <3>1. k \in 1..(Len(s) - 1) /\ t[k] = s[k] /\ t[k + 1] = s[k + 1]
        BY <1>1, <2>2
      <3>2. Link(s[k], s[k + 1])
        BY <3>1 DEF Chain
      <3> QED  BY <3>1, <3>2
    <2> QED  BY <2>1, <2>2
  <1>5. Chain(t)
    BY <1>3, <1>4 DEF Chain
  <1>6. t[1] = IF s = <<>> THEN c ELSE s[1]
    BY <1>1, <1>2
  <1> QED  BY <1>1, <1>5, <1>6 DEF t

LEMMA ChainTailed ==
    ASSUME NEW s \in Seq(Cell), Chain(s), s # <<>>
    PROVE  /\ s[1] \in Cell /\ CellOk(s[1]) /\ Tail(s) \in Seq(Cell) /\ Chain(Tail(s))
           /\ Tail(s) = <<>> => s[Len(s)] = s[1]
           /\ Tail(s) # <<>> => Link(s[1], Tail(s)[1]) /\ Tail(s)[Len(Tail(s))] = s[Len(s)]
  <1> DEFINE t == Tail(s)
  <1>1. /\ t \in Seq(Cell) /\ Len(s) \in Nat /\ Len(s) >= 1 /\ Len(t) = Len(s) - 1 /\ s[1] \in Cell
        /\ \A k \in 1..(Len(s) - 1) : t[k] = s[k + 1]
        /\ t = <<>> <=> Len(s) = 1
    BY Tailed
  <1> HIDE DEF t
  <1>2. CellOk(s[1])
    BY <1>1 DEF Chain
  <1>3. ASSUME NEW k \in 1..Len(t) PROVE CellOk(t[k])
    <2>1. t[k] = s[k + 1] /\ k + 1 \in 1..Len(s)
      BY <1>1
    <2> QED  BY <2>1 DEF Chain
  <1>4. ASSUME NEW k \in 1..(Len(t) - 1) PROVE Link(t[k], t[k + 1])
    <2>1. t[k] = s[k + 1] /\ t[k + 1] = s[(k + 1) + 1] /\ k + 1 \in 1..(Len(s) - 1)
      BY <1>1
    <2>2. Link(s[k + 1], s[(k + 1) + 1])
      BY <2>1 DEF Chain
    <2> QED  BY <2>1, <2>2
  <1>5. Chain(t)
    BY <1>3, <1>4 DEF Chain
  <1>6. ASSUME t # <<>> PROVE Link(s[1], t[1]) /\ t[Len(t)] = s[Len(s)]
    <2>1. 1 \in 1..(Len(s) - 1) /\ t[1] = s[1 + 1] /\ Len(t) \in 1..(Len(s) - 1) /\ Len(t) + 1 = Len(s)
      BY <1>1, <1>6
    <2>2. Link(s[1], s[1 + 1])
      BY <2>1 DEF Chain
    <2>3. t[Len(t)] = s[Len(t) + 1]
      BY <1>1, <2>1
    <2> QED  BY <2>1, <2>2, <2>3
  <1> QED  BY <1>1, <1>2, <1>5, <1>6 DEF t

LEMMA CarriedRelaying ==
    ASSUME relay \in Seq(Cell), Relaying, Carried, UNCHANGED <<tx, sent>>
    PROVE  Relaying'
  <1>1. CASE ~Mid /\ ~Mid' /\ relay' = relay
    BY <1>1 DEF Relaying
  <1>2. ASSUME NEW c \in Cell, relay' = Append(relay, c), CellOk(c),
               IF Mid THEN c.beat = arriving.beat ELSE c.beat.i = 1,
               Mid' <=> ~c.tlast, Mid' => Goes(arriving'.beat, c)
        PROVE  Relaying'
    <2>1. relay # <<>> => Link(relay[Len(relay)], c)
      BY <1>2 DEF Relaying, Link, Goes
    <2>2. /\ Chain(relay') /\ relay' # <<>> /\ relay'[Len(relay')] = c
          /\ relay'[1] = IF relay = <<>> THEN c ELSE relay[1]
      <3>1. Chain(relay)
        BY DEF Relaying
      <3> QED  BY <1>2, <2>1, <3>1, ChainAppended
    <2>3. tx' \notin Pulls => relay'[1].beat.i = 1
      BY <1>2, <2>2 DEF Relaying
    <2>4. tx' = "relay" => Link(sent', relay'[1])
      <3>1. CASE relay # <<>>
        BY <2>2, <3>1 DEF Relaying
      <3>2. CASE relay = <<>>
        BY <1>2, <2>2, <3>2 DEF Relaying, Link, Goes, Pulls
      <3> QED  BY <3>1, <3>2
    <2> QED  BY <1>2, <2>2, <2>3, <2>4 DEF Relaying
  <1> QED  BY <1>1, <1>2 DEF Carried

LEMMA PullRelaying ==
    ASSUME Types, Relaying, SendRelay \/ DrainRelay
    PROVE  Relaying'
  <1>1. relay \in Seq(Cell) /\ relay # <<>> /\ relay' = Tail(relay) /\ Chain(relay)
    BY DEF SendRelay, DrainRelay, HasRelay, Types, TypeOK, Cell, Relaying
  <1>2. PICK c \in Cell : c = relay[1]
    BY <1>1, ChainTailed
  <1>3. /\ Chain(relay')
        /\ relay' = <<>> => relay[Len(relay)] = c
        /\ relay' # <<>> => Link(c, relay'[1]) /\ relay'[Len(relay')] = relay[Len(relay)]
    BY <1>1, <1>2, ChainTailed
  <1>4. (Mid' <=> Mid) /\ arriving' = arriving
    BY DEF SendRelay, DrainRelay, Rest, receiver, Mid
  <1>5. /\ tx \in Pulls /\ tx' = (IF c.tlast THEN "idle" ELSE tx)
        /\ tx = "relay" => sent' = c
    BY <1>2 DEF SendRelay, DrainRelay, Pulls
  <1>6. relay' # <<>> => /\ tx' \notin Pulls => relay'[1].beat.i = 1
                         /\ tx' = "relay" => Link(sent', relay'[1])
    BY <1>3, <1>5 DEF Link, Pulls
  <1>7. Mid' => IF relay' # <<>> THEN Goes(arriving'.beat, relay'[Len(relay')])
                ELSE tx' \in Pulls /\ (tx' = "relay" => Goes(arriving'.beat, sent'))
    <2>1. Mid => Goes(arriving.beat, relay[Len(relay)])
      BY <1>1 DEF Relaying
    <2>2. Mid /\ relay' = <<>> => Goes(arriving.beat, c) /\ ~c.tlast
      BY <1>3, <2>1 DEF Goes
    <2> QED  BY <1>3, <1>4, <1>5, <2>1, <2>2
  <1>8. ~Mid' => IF relay' # <<>> THEN relay'[Len(relay')].tlast ELSE tx' \notin Pulls
    <2>1. ~Mid => relay[Len(relay)].tlast
      BY <1>1 DEF Relaying
    <2> QED  BY <1>3, <1>4, <1>5, <2>1 DEF Pulls
  <1> QED  BY <1>3, <1>6, <1>7, <1>8 DEF Relaying

\* The transmitter leaves the relay FIFO alone and is not busy with it.
LEMMA OffRelaying ==
    ASSUME Relaying, UNCHANGED <<relay, arriving, cur>>, tx \notin Pulls,
           tx' \in Pulls => relay # <<>> /\ (tx' = "relay" => Link(sent', relay[1]))
    PROVE  Relaying'
  <1>1. Mid' <=> Mid
    BY DEF Mid
  <1>2. /\ Chain(relay) /\ (relay # <<>> => relay[1].beat.i = 1) /\ (Mid => relay # <<>>)
        /\ Mid => Goes(arriving.beat, relay[Len(relay)])
        /\ ~Mid /\ relay # <<>> => relay[Len(relay)].tlast
    BY DEF Relaying
  <1>3. tx' = "relay" => tx' \in Pulls
    BY DEF Pulls
  <1> QED  BY <1>1, <1>2, <1>3 DEF Relaying

LEMMA PushRelaying ==
    ASSUME Port, Relaying, SendLocal \/ DrainLocal \/ SendPoison
    PROVE  Relaying'
  <1>1. UNCHANGED <<relay, arriving, cur>> /\ tx \notin Pulls /\ tx' \notin Pulls
    BY DEF SendLocal, DrainLocal, SendPoison, Rest, receiver, Port, Pulls
  <1> QED  BY <1>1, OffRelaying

LEMMA ChooseRelaying ==
    ASSUME Port, Relaying, Choose
    PROVE  Relaying'
  <1>1. UNCHANGED <<relay, arriving, cur, sent>> /\ tx \notin Pulls /\ sent.tlast
    BY DEF Choose, Rest, receiver, Port, Pulls
  <1>2. tx' \in Pulls => relay # <<>>
    BY DEF Choose, GrantRelay, GrantLocal, HasRelay, Pulls
  <1>3. relay # <<>> => Link(sent', relay[1])
    BY <1>1 DEF Relaying, Link
  <1> QED  BY <1>1, <1>2, <1>3, OffRelaying

StillRelaying == UNCHANGED <<relay, arriving, cur, tx, sent>>
LEMMA StillStep ==
    ASSUME Relaying, LockReq \/ UnlockReq \/ Assign \/ LocalFrame \/ UNCHANGED vars PROVE Relaying'
  <1>1. StillRelaying /\ (Mid' <=> Mid)
    BY DEF LockReq, UnlockReq, Assign, LocalFrame, Rest, receiver, transmitter, history, vars, StillRelaying, Mid
  <1> QED  BY <1>1 DEF StillRelaying, Relaying

LEMMA ReceivedSame ==
    ASSUME Received, LockReq \/ UnlockReq \/ Assign \/ LocalFrame \/ Transmit \/ UNCHANGED vars PROVE Received'
  <1>1. UNCHANGED <<receiver, arriving, delivered>> /\ (assigned' = assigned \/ arriving = NoFrame)
    BY DEF LockReq, UnlockReq, Assign, LocalFrame, Transmit, Choose, SendRelay, DrainRelay, SendLocal, DrainLocal,
           SendPoison, Rest, history, vars
  <1>2. (Copying' <=> Copying) /\ UNCHANGED <<rx, expect, cur, remaining>>
    BY <1>1 DEF Copying, receiver
  <1>3. arriving = NoFrame \/ (Counted' <=> Counted)
    BY <1>1, CountedSame
  <1> QED  BY <1>1, <1>2, <1>3 DEF Received

\* Noise, poison and misread payload are what ends a clean run.
LEMMA Cleaner ==
    ASSUME Types, Ranges, [Next]_vars, Clean'
    PROVE  Clean /\ ~RxPoison /\ ~RxNoise /\ ~misread'
  <1>1. budgets \in [wire : Nat, local : Nat, fault : Nat] /\ budgets.fault <= FaultBudget /\ budgets.fault \in Nat
    BY DEF Types, TypeOK, Ranges
  <1>2. ASSUME Spend("fault") PROVE FALSE
    <2>1. budgets'.fault = budgets.fault - 1
      BY <1>1, <1>2, Spent
    <2> QED  BY <1>1, <2>1, Constants DEF Clean
  <1>3. ~RxPoison /\ ~RxNoise
    BY <1>2 DEF RxPoison, RxNoise
  <1>4. budgets'.fault = budgets.fault
    BY <1>1, <1>3, Spent DEF Next, RxFrame, RxBeat, LockReq, UnlockReq, Assign, LocalFrame, Transmit, Choose, SendRelay,
       DrainRelay, SendLocal, DrainLocal, SendPoison, vars
  <1>5. ASSUME misread PROVE misread'
    <2>1. CASE RxFrame \/ RxBeat \/ RxPoison \/ RxNoise
      <3>1. PICK b : Receive(b)
        BY <2>1 DEF RxFrame, RxBeat, RxPoison, RxNoise
      <3> QED  BY <1>5, <3>1 DEF Receive, RxHeader, RxCtrlBeat, RxData
    <2>2. CASE ~(RxFrame \/ RxBeat \/ RxPoison \/ RxNoise)
      BY <1>5, <2>2 DEF Next, LockReq, UnlockReq, Assign, LocalFrame, Transmit, Choose, SendRelay, DrainRelay, SendLocal,
         DrainLocal, SendPoison, vars, history, Rest
    <2> QED  BY <2>1, <2>2
  <1> QED  BY <1>3, <1>4, <1>5 DEF Clean

LEMMA FlowStep ==
    ASSUME Types, Ranges, Port, Received, Relaying, [Next]_vars, ~RxPoison, ~RxNoise, ~misread'
    PROVE  Received' /\ Relaying'
  <1>1. CASE RxFrame \/ RxBeat
    <2>1. Received' /\ Carried
      BY <1>1, FrameReceived, BeatReceived
    <2>2. relay \in Seq(Cell) /\ UNCHANGED <<tx, sent>>
      BY <1>1 DEF Types, TypeOK, Cell, RxFrame, RxBeat, Receive, transmitter
    <2> QED  BY <2>1, <2>2, CarriedRelaying
  <1>2. CASE LockReq \/ UnlockReq \/ Assign \/ LocalFrame \/ UNCHANGED vars
    BY <1>2, ReceivedSame, StillStep
  <1>3. CASE Transmit
    BY <1>3, ReceivedSame, PullRelaying, PushRelaying, ChooseRelaying DEF Transmit
  <1> QED  BY <1>1, <1>2, <1>3 DEF Next

LEMMA IStep == IInv /\ [Next]_vars => IInv'
  <1> SUFFICES ASSUME IInv, [Next]_vars PROVE IInv'  OBVIOUS
  <1>1. Types /\ Ranges /\ Port /\ Turns /\ TypeOK /\ (Clean => Received /\ Relaying)
    BY DEF IInv, Types
  <1>2. Types' /\ Ranges' /\ Port' /\ Turns'
    BY <1>1, TypesStep, RangesStep, PortStep, TurnsStep
  <1>3. Clean' => Received' /\ Relaying'
    BY <1>1, Cleaner, FlowStep
  <1> QED  BY <1>2, <1>3 DEF IInv

-----------------------------------------------------------------------------
\* What a step sends and delivers.

\* What leaves the relay FIFO goes on from what was sent before it.
LEMMA RelaySent ==
    ASSUME Types, Ranges, SendRelay, Clean => Relaying
    PROVE  SentWhole
  <1>1. relay \in Seq(Cell) /\ relay # <<>> /\ tx = "relay"
    BY DEF SendRelay, HasRelay, Types, TypeOK, Cell
  <1>2. PICK c \in Cell : c = relay[1] /\ sent' = c
    BY <1>1, Tailed DEF SendRelay
  <1>3. ~Own(c.beat)
    <2>1. 1 \in 1..Len(relay)
      BY <1>1, Tailed
    <2> QED  BY <1>2, <2>1 DEF Ranges
  <1>4. Clean => Link(sent, c) /\ CellOk(c)
    BY <1>1, <1>2, ChainTailed DEF Relaying
  <1> QED  BY <1>2, <1>3, <1>4 DEF SentWhole, Link, CellOk

\* A frame of this board goes from its header to its last beat.
LEMMA LocalSent ==
    ASSUME Types, Ranges, Port, SendLocal
    PROVE  SentWhole /\ OnlyGarbledGivenUp
  <1>1. /\ tx = "local" /\ local # NoFrame /\ local' = Next1(local)
        /\ sent' = [beat |-> local.beat, tlast |-> LocalLast] /\ (abort' <=> OverBudget)
    BY DEF SendLocal, TakeLocal
  <1>2. /\ local.beat.i \in Nat /\ local.beat.h.len \in Nat /\ local.end \in Nat /\ local.beat.i <= local.end
        /\ local.end >= local.beat.h.len /\ Own(local.beat)
    BY <1>1, LocalNext DEF Ranges
  <1>3. Whole => /\ budget = local.beat.h.len - local.beat.i + 1 /\ local.end = local.beat.h.len
                 /\ IF local.beat.i = 1 THEN sent.tlast ELSE ~sent.tlast /\ Follows(local.beat, sent.beat)
    BY <1>1 DEF Port, Sides, Whole
  <1>4. OverBudget => ~Whole
    BY <1>2, <1>3 DEF OverBudget, LocalLast
  <1>5. OnlyGarbledGivenUp
    BY <1>1, <1>2, <1>4 DEF OnlyGarbledGivenUp, Whole
  <1>6. sent'.beat = local.beat /\ (sent'.tlast <=> local.beat.i = local.end)
    BY <1>1 DEF LocalLast
  <1>7. SentWhole
    BY <1>1, <1>2, <1>3, <1>6 DEF SentWhole, Whole
  <1> QED  BY <1>5, <1>7

\* The poison beat is nobody's.
LEMMA PoisonSent == ASSUME SendPoison PROVE SentWhole
  <1>1. sent'.beat = Poison /\ ~Own(Poison)
    BY Beatless, Foreign DEF SendPoison
  <1> QED  BY <1>1 DEF SentWhole

LEMMA OtherSteps ==
    ASSUME Next, ~SendLocal
    PROVE  /\ SendPoison \/ abort' = abort
           /\ SendPoison \/ SendRelay \/ sent' = sent
  <1>1. CASE RxFrame \/ RxBeat \/ RxPoison \/ RxNoise
    BY <1>1 DEF RxFrame, RxBeat, RxPoison, RxNoise, Receive, transmitter
  <1>2. CASE LockReq \/ UnlockReq \/ Assign \/ LocalFrame
    BY <1>2 DEF LockReq, UnlockReq, Assign, LocalFrame, transmitter, history
  <1>3. CASE Transmit
    BY <1>3 DEF Transmit, Choose, SendRelay, DrainRelay, DrainLocal
  <1> QED  BY <1>1, <1>2, <1>3 DEF Next

LEMMA AbortOnly == ASSUME Next, ~SendLocal PROVE OnlyGarbledGivenUp
  <1>1. SendPoison => ~abort'
    BY DEF SendPoison
  <1> QED  BY <1>1, OtherSteps DEF OnlyGarbledGivenUp

LEMMA SentOnly == ASSUME Next, ~SendLocal, ~SendRelay, ~SendPoison PROVE SentWhole
  BY OtherSteps DEF SentWhole

LEMMA DeliveredOnly ==
    ASSUME Types, Ranges, Next, Clean => Received
    PROVE  DeliveredWhole
  <1>1. CASE RxFrame \/ RxBeat
    <2>1. SUFFICES ASSUME Clean', delivered' # delivered
          PROVE IF delivered.i = delivered.h.len THEN delivered'.i = 1 ELSE Follows(delivered', delivered)
      BY DEF DeliveredWhole
    <2>2. Clean /\ ~misread'
      BY <2>1, Cleaner
    <2>3. Copied
      BY <1>1, <2>2, FrameReceived, BeatReceived
    <2> QED  BY <2>1, <2>3 DEF Copied
  <1>2. CASE RxPoison \/ RxNoise
    <2>1. ~Clean'
      BY <1>2, Cleaner
    <2> QED  BY <2>1 DEF DeliveredWhole
  <1>3. CASE LockReq \/ UnlockReq \/ Assign \/ LocalFrame \/ Transmit
    <2>1. delivered' = delivered
      BY <1>3 DEF LockReq, UnlockReq, Assign, LocalFrame, Transmit, Choose, SendRelay, DrainRelay, SendLocal,
                  DrainLocal, SendPoison, Rest, history
    <2> QED  BY <2>1 DEF DeliveredWhole
  <1> QED  BY <1>1, <1>2, <1>3 DEF Next

\* A header of no board (fp_gate_ok) opens nothing.
LEMMA Refused ==
    ASSUME NEW h \in NoiseWords, ~GateOk(h), rx = "idle", Receive([h |-> h, i |-> 1, no |-> 0])
    PROVE  UNCHANGED <<rx, relay, delivered>>
  <1>1. PICK b \in Beat : b = [h |-> h, i |-> 1, no |-> 0] /\ b.h = h /\ b.i = 1
    BY Constants DEF Beat
  <1>2. Readings(b) = {h}
    BY <1>1, ReadingsTyped
  <1>3. ~Decoded(h).mine /\ ~ToLocal(h) /\ ~ToRelay(h)
    BY DecodedTyped DEF ToLocal, ToRelay
  <1>4. RxHeader(b) \/ RxCtrlBeat
    BY <1>1 DEF Receive, RxData
  <1> QED  BY <1>2, <1>3, <1>4 DEF RxHeader, RxCtrlBeat

LEMMA RefusedOnly == ASSUME Types, Next PROVE RefusedIgnored
  <1>1. CASE RxNoise
    BY <1>1, Refused DEF RxNoise, RefusedIgnored
  <1>2. CASE RxPoison
    BY <1>2 DEF RxPoison, RefusedIgnored
  <1>3. CASE ~RxNoise /\ ~RxPoison
    <2>1. budgets'.fault = budgets.fault
      BY <1>3, Spent DEF Types, TypeOK, Next, RxFrame, RxBeat, LockReq, UnlockReq, Assign, LocalFrame, Transmit,
         Choose, SendRelay, DrainRelay, SendLocal, DrainLocal, SendPoison
    <2> QED  BY <2>1 DEF RefusedIgnored
  <1> QED  BY <1>1, <1>2, <1>3

LEMMA WholeStep ==
    ASSUME IInv, Next
    PROVE  SentWhole /\ DeliveredWhole /\ OnlyGarbledGivenUp /\ RefusedIgnored
  <1>1. Types /\ Ranges /\ Port /\ abort \in BOOLEAN /\ (Clean => Received /\ Relaying)
    BY DEF IInv, Types, TypeOK
  <1>2. SentWhole
    BY <1>1, RelaySent, LocalSent, PoisonSent, SentOnly
  <1>3. OnlyGarbledGivenUp
    BY <1>1, LocalSent, AbortOnly
  <1> QED  BY <1>1, <1>2, <1>3, DeliveredOnly, RefusedOnly

LEMMA Always == Spec => []IInv
  BY InitTurns, IStep, PTL DEF Spec

\* The registers of aurora_data_channel_relayfifo.v keep to their ranges, whatever rx0
\* brings: remaining never goes below zero and the relay FIFO holds beats.
THEOREM ChannelTypes == Spec => []TypeOK
  <1>1. IInv => TypeOK
    BY DEF IInv, Types
  <1> QED  BY <1>1, Always, PTL

\* rr_favor_local alternates: neither this board's frames nor the relayed ones wait for
\* more than one frame of the other side once they could start.
THEOREM ChannelFairTurns == Spec => []FairTurns
  <1>1. IInv => FairTurns
    BY DEF IInv, Turns, FairTurns
  <1> QED  BY <1>1, Always, PTL

\* Every frame leaves data_tx1 and reaches the local output whole and alone: this board's
\* frames whatever rx0 brings, the ring's as long as it brings no noise, breaks no frame off
\* and brings no refused frame whose payload passes for a header; only a frame longer than its pkt_len is given up (abort_local_pending), and a header
\* fp_gate_ok refuses opens nothing.
THEOREM ChannelFramesWhole == Spec => FramesWhole
  <1>1. IInv /\ [Next]_vars => [SentWhole /\ DeliveredWhole /\ OnlyGarbledGivenUp /\ RefusedIgnored]_vars
    BY WholeStep
  <1> QED  BY <1>1, Always, PTL DEF Spec, FramesWhole

-----------------------------------------------------------------------------
(* The arbiter of tx1.                                                     *)

\* A source that has a beat to offer is inside a frame.
HasFrame == \A s \in Source : valid[s] => left[s] # 0

\* The port belongs to at most one open frame: that of the served source, or,
\* between the abort and the poison beat, that of the source taken off.
PortDiscipline ==
    /\ AbortPending => state = None
    /\ state = None /\ ~AbortPending => open = None
    /\ state # None => open \in {None, state}

\* The history variables tell one story between two cycles, too.
WireStory == /\ took # None => tx1 = took
             /\ tx1 \in Source => open \in {None, tx1}

ArbiterInv == ArbiterTypeOK /\ HasFrame /\ PortDiscipline /\ WireStory

LEMMA SourceFacts == /\ Source = {"ctrl", "reply", "data"} /\ Watched \subseteq Source
                     /\ None \notin Source /\ "poison" \notin Source /\ None # "poison"
  BY DEF Source, Watched, None

LEMMA InitArbiterInv == ArbiterInit => ArbiterInv
  BY ArbiterAssumption, SourceFacts
     DEF ArbiterInit, ArbiterInv, ArbiterTypeOK, HasFrame, PortDiscipline, WireStory, AbortPending,
         Endless, ArbiterAssumption

\* What the sources do between two cycles leaves the port alone.
LEMMA SourceSteps ==
  ASSUME ArbiterInv, NEW s \in Source, Offer(s) \/ Resume(s) PROVE ArbiterInv'
<1> USE ArbiterAssumption DEF ArbiterAssumption
<1>1. CASE Offer(s)
  <2>1. Lengths(s) \subseteq 1..Endless
    BY SMT DEF Lengths, Endless
  <2>2. PICK n \in Lengths(s) : /\ left' = [left EXCEPT ![s] = n]
                               /\ size' = [size EXCEPT ![s] = n]
    BY <1>1 DEF Offer
  <2>3. n \in 1..Endless BY <2>1, <2>2
  <2>4. /\ left' \in [Source -> 0..Endless] /\ size' \in [Source -> 0..Endless]
        /\ left'[s] # 0
    BY <2>2, <2>3, SMT DEF ArbiterInv, ArbiterTypeOK
  <2>5. offers' \in [Source -> Nat]
    BY <1>1, SMT DEF ArbiterInv, ArbiterTypeOK, Offer
  <2>6. valid' \in [Source -> BOOLEAN]
    BY <1>1 DEF ArbiterInv, ArbiterTypeOK, Offer
  <2>7. HasFrame'
    BY <1>1, <2>2, <2>4 DEF ArbiterInv, ArbiterTypeOK, HasFrame, Offer
  <2> QED BY <1>1, <2>4, <2>5, <2>6, <2>7
          DEF ArbiterInv, ArbiterTypeOK, PortDiscipline, WireStory, AbortPending, Offer, arbiter, wire
<1>2. CASE Resume(s)
  BY <1>2 DEF ArbiterInv, ArbiterTypeOK, HasFrame, PortDiscipline, WireStory, AbortPending, Resume,
              arbiter, wire
<1> QED BY <1>1, <1>2

\* A cycle keeps the sources' frames well formed.
LEMMA SourcesInCycle ==
  ASSUME ArbiterInv, NEW ready \in BOOLEAN, Clock(ready)
  PROVE /\ left' \in [Source -> 0..Endless] /\ size' \in [Source -> 0..Endless]
        /\ valid' \in [Source -> BOOLEAN] /\ offers' \in [Source -> Nat]
        /\ HasFrame'
<1> USE ArbiterAssumption DEF ArbiterAssumption
<1>1. CASE state # None /\ Taken(state, ready)
  <2>0. state \in Source /\ valid[state] /\ left[state] \in 1..Endless
    BY <1>1, SMT DEF ArbiterInv, ArbiterTypeOK, HasFrame, Taken, Endless
  <2>1. HandOver(state)
    BY <1>1 DEF Clock
  <2>2. left' \in [Source -> 0..Endless]
    BY <2>0, <2>1, SMT DEF ArbiterInv, ArbiterTypeOK, HandOver, Endless
  <2>3. PICK more \in IF left'[state] = 0 THEN {FALSE}
                      ELSE IF state = "ctrl" THEN {TRUE} ELSE BOOLEAN :
           valid' = [valid EXCEPT ![state] = more]
    BY <2>1 DEF HandOver
  <2>4. more \in BOOLEAN /\ (left'[state] = 0 => more = FALSE)
    BY <2>3
  <2>5. valid' \in [Source -> BOOLEAN]
    BY <2>3, <2>4 DEF ArbiterInv, ArbiterTypeOK
  <2>6. ASSUME NEW t \in Source, valid'[t] PROVE left'[t] # 0
    <3>1. CASE t = state
      <4>1. more = valid'[t]
        BY <3>1, <2>0, <2>3 DEF ArbiterInv, ArbiterTypeOK
      <4> QED BY <4>1, <2>4, <2>6, <3>1
    <3>2. CASE t # state
      BY <3>2, <2>0, <2>1, <2>3, <2>6 DEF ArbiterInv, ArbiterTypeOK, HasFrame, HandOver
    <3> QED BY <3>1, <3>2
  <2> QED BY <2>1, <2>2, <2>5, <2>6 DEF HasFrame, HandOver, ArbiterInv, ArbiterTypeOK
<1>2. CASE ~(state # None /\ Taken(state, ready))
  BY <1>2 DEF Clock, ArbiterInv, ArbiterTypeOK, HasFrame, sources
<1> QED BY <1>1, <1>2

\* The history variables keep their types.
LEMMA WireTypes ==
  ASSUME ArbiterInv, NEW ready \in BOOLEAN, Wire(ready)
  PROVE /\ took' \in Source \cup {None} /\ open' \in Source \cup {None}
        /\ tx1' \in Source \cup {None, "poison"}
<1> USE ArbiterAssumption DEF ArbiterAssumption
<1>1. took' \in Source \cup {None} /\ tx1' \in Source \cup {None, "poison"}
  BY DEF Wire, Sent, ArbiterInv, ArbiterTypeOK
<1>3. state \in Source \/ state = None
  BY DEF ArbiterInv, ArbiterTypeOK
<1>4. open' \in Source \cup {None}
  <2>1. CASE Sent(ready) = None BY <2>1 DEF Wire, ArbiterInv, ArbiterTypeOK
  <2>2. CASE Sent(ready) = "poison" BY <2>2, SourceFacts DEF Wire, ArbiterInv, ArbiterTypeOK
  <2>3. CASE Sent(ready) # None /\ Sent(ready) # "poison"
    <3>1. state # None BY <2>3 DEF Sent
    <3> QED BY <2>3, <3>1, <1>3 DEF Wire
  <2> QED BY <2>1, <2>2, <2>3
<1> QED BY <1>1, <1>4

\* What a cycle puts on tx1 in each phase of the port.
LEMMA WireFacts ==
  ASSUME ArbiterInv, NEW ready \in BOOLEAN, Wire(ready)
  PROVE /\ AbortPending => took' = None /\ state = None
                           /\ open' = IF ready THEN None ELSE open
        /\ ~AbortPending /\ state = None => open' = None /\ took' = None /\ tx1' = None
        /\ state # None /\ ~Taken(state, ready) => open' = open /\ took' = None
        /\ state # None /\ Taken(state, ready) =>
              /\ took' = state /\ tx1' = state
              /\ open' = IF Last(state) THEN None ELSE state
        /\ tx1' \in Source => state = tx1'
<1>1. state # None => ~AbortPending /\ state \in Source
  BY DEF ArbiterInv, ArbiterTypeOK, PortDiscipline
<1>2. CASE AbortPending
  BY <1>1, <1>2, SourceFacts DEF Wire, Sent, ArbiterInv, PortDiscipline
<1>3. CASE ~AbortPending /\ state = None
  BY <1>3, SourceFacts DEF Wire, Sent, ArbiterInv, PortDiscipline
<1>4. CASE state # None /\ ~Taken(state, ready)
  BY <1>1, <1>4, SourceFacts DEF Wire, Sent
<1>5. CASE state # None /\ Taken(state, ready)
  BY <1>1, <1>5, SourceFacts DEF Wire, Sent
<1> QED BY <1>1, <1>2, <1>3, <1>4, <1>5

\* The arbiter's registers and the port after each of its branches.
LEMMA PortInCycle ==
  ASSUME ArbiterInv, NEW ready \in BOOLEAN, Clock(ready)
  PROVE /\ state' \in Source \cup {None} /\ wd' \in [Watched -> 0..Limit]
        /\ lockout' \in [Watched -> BOOLEAN] /\ aborts' \in [Watched -> BOOLEAN]
        /\ PortDiscipline'
<1> USE ArbiterAssumption DEF ArbiterAssumption
<1>0. Wire(ready) BY DEF Clock
<1>t. /\ state \in Source \cup {None} /\ wd \in [Watched -> 0..Limit]
      /\ lockout \in [Watched -> BOOLEAN] /\ aborts \in [Watched -> BOOLEAN]
  BY DEF ArbiterInv, ArbiterTypeOK
<1>p. /\ Poisoned(ready) \in [Watched -> BOOLEAN]
      /\ ready => \A s \in Watched : ~Poisoned(ready)[s]
      /\ ~AbortPending => \A s \in Watched : ~Poisoned(ready)[s]
      /\ ~ready => Poisoned(ready) = aborts
  BY <1>t DEF Poisoned, AbortPending
<1>1. CASE Idle /\ aborts' = Poisoned(ready)
  <2>1. wd' \in [Watched -> 0..Limit]
    BY <1>1, SMT DEF Idle
  <2>2. CASE AbortPending
    <3>1. UNCHANGED <<state, lockout>> /\ state = None
      BY <1>1, <2>2 DEF Idle
    <3>2. ready => ~AbortPending' /\ open' = None
      BY <1>0, <1>1, <1>p, <2>2, WireFacts DEF AbortPending
    <3>3. ~ready => AbortPending'
      BY <1>1, <1>p, <2>2 DEF AbortPending
    <3> QED BY <1>1, <1>p, <1>t, <2>1, <3>1, <3>2, <3>3 DEF PortDiscipline
  <2>3. CASE ~AbortPending
    <3>1. Grant /\ state = None
      BY <1>1, <2>3 DEF Idle
    <3>2. state' \in Source \cup {None} /\ lockout' \in [Watched -> BOOLEAN]
      BY <3>1, <1>t, SourceFacts DEF Grant
    <3>3. ~AbortPending' /\ open' = None
      BY <1>0, <1>1, <1>p, <2>3, <3>1, WireFacts DEF AbortPending
    <3> QED BY <1>1, <1>p, <2>1, <3>2, <3>3 DEF PortDiscipline
  <2> QED BY <2>2, <2>3
<1>2. ASSUME NEW s \in Source, Finish(s, ready)
      PROVE /\ state' \in Source \cup {None} /\ wd' \in [Watched -> 0..Limit]
            /\ lockout' \in [Watched -> BOOLEAN] /\ aborts' \in [Watched -> BOOLEAN]
            /\ PortDiscipline'
  <2>1. state = s /\ state # None /\ Taken(state, ready) /\ Last(state) /\ state' = None
    BY <1>2, SourceFacts DEF Finish
  <2>2. open' = None
    BY <1>0, <2>1, WireFacts
  <2>3. lockout' \in [Watched -> BOOLEAN]
    BY <1>2, <1>t DEF Finish
  <2> QED BY <1>2, <1>p, <1>t, <2>1, <2>2, <2>3 DEF Finish, PortDiscipline
<1>3. ASSUME NEW s \in Source, GiveUp(s, ready)
      PROVE /\ state' \in Source \cup {None} /\ wd' \in [Watched -> 0..Limit]
            /\ lockout' \in [Watched -> BOOLEAN] /\ aborts' \in [Watched -> BOOLEAN]
            /\ PortDiscipline'
  <2>1. s \in Watched /\ state' = None
    BY <1>3 DEF GiveUp
  <2>2. aborts' \in [Watched -> BOOLEAN] /\ aborts'[s] = TRUE
    BY <1>3, <1>p, <2>1 DEF GiveUp
  <2>3. lockout' \in [Watched -> BOOLEAN]
    BY <1>3, <1>t DEF GiveUp
  <2>4. AbortPending'
    BY <2>1, <2>2 DEF AbortPending
  <2> QED BY <1>3, <1>t, <2>1, <2>2, <2>3, <2>4 DEF GiveUp, PortDiscipline
<1>4. ASSUME NEW s \in Source, Serve(s, ready)
      PROVE /\ state' \in Source \cup {None} /\ wd' \in [Watched -> 0..Limit]
            /\ lockout' \in [Watched -> BOOLEAN] /\ aborts' \in [Watched -> BOOLEAN]
            /\ PortDiscipline'
  <2>1. state = s /\ state # None /\ state' = state /\ ~(Taken(state, ready) /\ Last(state))
    BY <1>4, SourceFacts DEF Serve
  <2>2. wd' \in [Watched -> 0..Limit]
    BY <1>4, <1>t, SMT DEF Serve
  <2>3. ~AbortPending /\ open \in {None, state}
    BY <2>1 DEF ArbiterInv, PortDiscipline
  <2>4. ~AbortPending'
    BY <1>4, <1>p, <2>3 DEF Serve, AbortPending
  <2>5. open' \in {None, state}
    BY <1>0, <2>1, <2>3, WireFacts
  <2> QED BY <1>4, <1>p, <1>t, <2>1, <2>2, <2>4, <2>5 DEF Serve, PortDiscipline
<1> QED BY <1>1, <1>2, <1>3, <1>4 DEF Clock

LEMMA StepArbiterInv == ASSUME ArbiterInv, [ArbiterNext]_arbiterVars PROVE ArbiterInv'
<1>1. ASSUME NEW s \in Source, Offer(s) \/ Resume(s) PROVE ArbiterInv'
  BY <1>1, SourceSteps
<1>2. ASSUME NEW ready \in BOOLEAN, Clock(ready) PROVE ArbiterInv'
  <2>1. Wire(ready) BY <1>2 DEF Clock
  <2>2. WireStory'
    BY <2>1, WireFacts, SourceFacts DEF WireStory, ArbiterInv, ArbiterTypeOK, PortDiscipline
  <2> QED BY <1>2, <2>1, <2>2, SourcesInCycle, WireTypes, PortInCycle DEF ArbiterInv, ArbiterTypeOK
<1>3. CASE UNCHANGED arbiterVars
  BY <1>3 DEF ArbiterInv, ArbiterTypeOK, HasFrame, PortDiscipline, WireStory, AbortPending, arbiterVars,
              arbiter, sources, wire
<1> QED BY <1>1, <1>2, <1>3 DEF ArbiterNext

\* The arbiter's registers keep their widths; the watchdog never passes its limit.
THEOREM ArbiterTypeCorrect == ArbiterSpec => []ArbiterTypeOK
<1>1. ArbiterInv => ArbiterTypeOK BY DEF ArbiterInv
<1> QED BY <1>1, InitArbiterInv, StepArbiterInv, PTL DEF ArbiterSpec

\* No beat a source hands over is lost to the poison beat, and no beat lands in a
\* frame another source has open, for every limit, frame length and stuck source.
THEOREM FramesDoNotMix == ArbiterSpec => OneFrameAtATime
<1>1. ASSUME ArbiterInv, [ArbiterNext]_arbiterVars
      PROVE /\ took' # None => tx1' = took'
            /\ tx1' \in Source => open \in {None, tx1'}
  <2>1. ASSUME NEW s \in Source, Offer(s) \/ Resume(s) PROVE UNCHANGED wire
    BY <2>1 DEF Offer, Resume
  <2>2. ASSUME UNCHANGED wire
        PROVE /\ took' # None => tx1' = took'
              /\ tx1' \in Source => open \in {None, tx1'}
    BY <1>1, <2>2 DEF ArbiterInv, WireStory, wire
  <2>3. ASSUME NEW ready \in BOOLEAN, Clock(ready)
        PROVE /\ took' # None => tx1' = took'
              /\ tx1' \in Source => open \in {None, tx1'}
    <3>1. Wire(ready) BY <2>3 DEF Clock
    <3>2. tx1' \in Source => open \in {None, tx1'}
      BY <1>1, <3>1, WireFacts, SourceFacts DEF ArbiterInv, PortDiscipline
    <3>3. took' # None => tx1' = took'
      BY <1>1, <3>1, WireFacts, SourceFacts DEF ArbiterInv, ArbiterTypeOK
    <3> QED BY <3>2, <3>3
  <2>4. CASE UNCHANGED arbiterVars
    BY <2>2, <2>4 DEF arbiterVars
  <2> QED BY <1>1, <2>1, <2>2, <2>3, <2>4 DEF ArbiterNext
<1> QED BY <1>1, InitArbiterInv, StepArbiterInv, PTL DEF ArbiterSpec, OneFrameAtATime

-----------------------------------------------------------------------------
(* The pause requests.  The inductive invariant is a budget: while the     *)
(* FIFO says it is almost full, the words in it, those on the way, and     *)
(* those that can still be sent before the sender is held back fit.  From  *)
(* there on it is held back until the next request has reached it.         *)

OnTheWay(line) == {k \in 1..Latency : line[k]}
flying == Cardinality(OnTheWay(beats))

\* The cycles until a request that is still to be made has reached the sender, while the FIFO
\* is almost full.
due == IF nfcValid THEN (AckDelay - waited) + 1 + Latency
       ELSE cooldown + AckDelay + Latency + 2

FlowTypes == /\ FlowTypeOK /\ (~nfcValid => waited = 0)

\* A request under way is the one the cooldown is for, so there is one at most.
OneUnderWay == \A k \in 1..Latency : requests[k] => ~nfcValid /\ cooldown + k = Cooldown + 1

\* As long as it lasts the sender is, or will be, held back until the next one comes.
Renewed == ~nfcValid /\ cooldown > 0 => (\E k \in 1..Latency : requests[k]) \/ pause >= due

\* A word can be sent in each cycle until a request arrives, unless a pause lasts till then.
load == level + flying
Unasked == load + due <= Depth
Asked == \E k \in 1..Latency :
    /\ requests[k] /\ load <= Depth
    /\ load + (Latency + 1 - k) <= Depth \/ pause >= Latency + 1 - k
Held == load <= Depth /\ pause >= due
Budget == IF progFull THEN Unasked \/ Asked \/ Held ELSE level <= Threshold

FlowInv == FlowTypes /\ OneUnderWay /\ Renewed /\ Budget
-----------------------------------------------------------------------------
(* Lines.                                                                  *)

LEMMA LineCount ==
    ASSUME NEW line \in [1..Latency -> BOOLEAN]
    PROVE  IsFiniteSet(OnTheWay(line)) /\ Cardinality(OnTheWay(line)) \in 0..Latency
<1>1. IsFiniteSet(1..Latency) /\ Cardinality(1..Latency) = Latency
  BY FlowAssumption, FS_Interval
<1>2. OnTheWay(line) \in SUBSET (1..Latency)
  BY DEF OnTheWay
<1>3. IsFiniteSet(OnTheWay(line)) /\ Cardinality(OnTheWay(line)) <= Latency
  <2>1. IsFiniteSet(OnTheWay(line)) /\ Cardinality(OnTheWay(line)) <= Cardinality(1..Latency)
    BY <1>1, <1>2, FS_Subset
  <2> QED BY <1>1, <2>1
<1>4. Cardinality(OnTheWay(line)) \in Nat
  BY <1>3, FS_CardinalityType
<1> QED BY <1>3, <1>4, FlowAssumption

\* What is new comes in, what was at the end goes out.
LEMMA ShiftCount ==
    ASSUME NEW line \in [1..Latency -> BOOLEAN], NEW new \in BOOLEAN
    PROVE  /\ Shift(line, new) \in [1..Latency -> BOOLEAN]
           /\ Cardinality(OnTheWay(Shift(line, new))) + (IF line[Latency] THEN 1 ELSE 0)
                = Cardinality(OnTheWay(line)) + (IF new THEN 1 ELSE 0)
<1> DEFINE S == OnTheWay(line) \ {Latency}
           T == {k \in 2..Latency : line[k - 1]}
           f == [k \in S |-> k + 1]
<1>1. Latency \in Nat \ {0}
  BY FlowAssumption
<1>2. Shift(line, new) \in [1..Latency -> BOOLEAN]
  <2>1. \A k \in 1..Latency : k # 1 => k - 1 \in 1..Latency
    BY <1>1
  <2> QED BY <2>1 DEF Shift
<1>3. IsFiniteSet(OnTheWay(line)) /\ Cardinality(OnTheWay(line)) \in Nat
  BY LineCount
<1>4. /\ IsFiniteSet(S) /\ Cardinality(S) \in Nat
      /\ Cardinality(OnTheWay(line)) = Cardinality(S) + (IF line[Latency] THEN 1 ELSE 0)
  <2>1. IsFiniteSet(S)
        /\ Cardinality(S) = IF Latency \in OnTheWay(line) THEN Cardinality(OnTheWay(line)) - 1
                            ELSE Cardinality(OnTheWay(line))
    BY <1>3, FS_RemoveElement
  <2>2. Cardinality(S) \in Nat
    BY <2>1, FS_CardinalityType
  <2>3. Latency \in OnTheWay(line) <=> line[Latency]
    BY <1>1 DEF OnTheWay
  <2> QED BY <1>3, <2>1, <2>2, <2>3
<1>5. IsFiniteSet(T) /\ Cardinality(T) = Cardinality(S)
  <2>1. f \in [S -> T]
    BY <1>1 DEF OnTheWay
  <2>2. \A a, b \in S : f[a] = f[b] => a = b
    BY DEF OnTheWay
  <2>3. \A t \in T : \E s \in S : f[s] = t
    <3> TAKE t \in T
    <3>1. t - 1 \in S /\ f[t - 1] = t
      BY <1>1 DEF OnTheWay
    <3> QED BY <3>1
  <2>4. f \in Bijection(S, T)
    BY <2>1, <2>2, <2>3 DEF Bijection, Injection, Surjection, IsInjective
  <2> QED BY <1>4, <2>4, FS_Bijection DEF ExistsBijection
<1>6. OnTheWay(Shift(line, new)) = IF new THEN T \cup {1} ELSE T
  BY <1>1 DEF OnTheWay, Shift
<1>7. 1 \notin T
  OBVIOUS
<1> HIDE DEF S, T, f
<1>8. Cardinality(OnTheWay(Shift(line, new))) = Cardinality(S) + (IF new THEN 1 ELSE 0)
  <2>1. CASE new
    <3>1. Cardinality(T \cup {1}) = Cardinality(T) + 1
      BY <1>4, <1>5, <1>7, FS_AddElement
    <3> QED BY <1>5, <1>6, <2>1, <3>1
  <2>2. CASE ~new
    BY <1>4, <1>5, <1>6, <2>2
  <2> QED BY <2>1, <2>2
<1> QED BY <1>2, <1>3, <1>4, <1>8
-----------------------------------------------------------------------------
(* One cycle.                                                              *)

LEMMA Sums ==
    ASSUME NEW l \in Nat, NEW l2 \in Nat, NEW f \in Nat, NEW f2 \in Nat, NEW i \in 0..1, NEW o \in 0..1,
           f2 + o = f + i, l2 <= l + o
    PROVE  l2 <= l + 1 /\ l2 + f2 <= l + f + 1 /\ (i = 0 => l2 + f2 <= l + f)
OBVIOUS

\* What the sender and the FIFO do, in numbers: a word more in all, none while a pause lasts.
LEMMA DataStep ==
    ASSUME FlowTypeOK, NEW wants \in BOOLEAN, NEW drain \in BOOLEAN, Sender(wants), Fifo(drain)
    PROVE  /\ level' \in Nat /\ flying \in 0..Latency /\ flying' \in 0..Latency
           /\ beats' \in [1..Latency -> BOOLEAN] /\ pause' \in 0..Pause
           /\ level' <= level + 1
           /\ level' + flying' <= level + flying + 1
           /\ pause > 0 => level' + flying' <= level + flying
           /\ requests[Latency] => pause' = Pause
           /\ pause > 0 => pause' >= pause - 1
<1> DEFINE new == wants /\ pause = 0
<1>1. /\ Latency \in 1..Latency /\ Latency \in Nat /\ Pause \in Nat /\ level \in Nat
      /\ beats \in [1..Latency -> BOOLEAN] /\ pause \in 0..Pause
  BY FlowAssumption DEF FlowTypeOK
<1>2. /\ beats' = Shift(beats, new) /\ new \in BOOLEAN
      /\ pause' = (IF requests[Latency] THEN Pause ELSE IF wants /\ pause > 0 THEN pause - 1 ELSE pause)
  BY DEF Sender
<1>3. /\ beats' \in [1..Latency -> BOOLEAN] /\ flying \in 0..Latency /\ flying' \in 0..Latency
      /\ flying' + (IF beats[Latency] THEN 1 ELSE 0) = flying + (IF new THEN 1 ELSE 0)
  BY <1>1, <1>2, LineCount, ShiftCount DEF flying
<1>4. /\ level' = (level + IF beats[Latency] THEN 1 ELSE 0) - (IF drain THEN 1 ELSE 0)
      /\ drain => level > 0
  BY DEF Fifo
<1>5. level' \in Nat /\ level' <= level + (IF beats[Latency] THEN 1 ELSE 0)
  BY <1>1, <1>4
<1>6. pause > 0 => ~new
  BY <1>1
<1> DEFINE in == IF new THEN 1 ELSE 0
           out == IF beats[Latency] THEN 1 ELSE 0
<1>7. flying' + out = flying + in /\ level' <= level + out
  BY <1>3, <1>5
<1>8. in \in 0..1 /\ out \in 0..1 /\ (pause > 0 => in = 0)
  BY <1>6
<1> HIDE DEF new, in, out
<1>9. level' \in Nat /\ level \in Nat /\ flying \in Nat /\ flying' \in Nat
  BY <1>1, <1>3, <1>5
<1>10. /\ level' <= level + 1 /\ level' + flying' <= level + flying + 1
       /\ pause > 0 => level' + flying' <= level + flying
  BY <1>7, <1>8, <1>9, Sums
<1>11. pause' \in 0..Pause /\ (pause > 0 => pause' >= pause - 1) /\ (requests[Latency] => pause' = Pause)
  BY <1>1, <1>2
<1> QED BY <1>3, <1>5, <1>10, <1>11

LEMMA Handshake ==
    ASSUME FlowTypes, OneUnderWay, Acknowledged \/ NotAcknowledged \/ Quiet
    PROVE  /\ nfcValid' \in BOOLEAN /\ cooldown' \in 0..Cooldown /\ waited' \in 0..AckDelay
           /\ requests' \in [1..Latency -> BOOLEAN]
           /\ ~nfcValid' => waited' = 0
           /\ OneUnderWay'
           /\ \A k \in 1..(Latency - 1) : requests[k] => requests'[k + 1]
           /\ Acknowledged => requests'[1]
<1>1. /\ Latency \in Nat \ {0} /\ AckDelay \in Nat /\ Cooldown \in Nat /\ Latency <= Cooldown
      /\ requests \in [1..Latency -> BOOLEAN] /\ nfcValid \in BOOLEAN
      /\ cooldown \in 0..Cooldown /\ waited \in 0..AckDelay /\ (~nfcValid => waited = 0)
  BY FlowAssumption DEF FlowTypes, FlowTypeOK
<1>2. ASSUME NEW new \in BOOLEAN, requests' = Shift(requests, new)
      PROVE  /\ requests' \in [1..Latency -> BOOLEAN] /\ requests'[1] = new
             /\ \A k \in 1..Latency : k # 1 => requests'[k] = requests[k - 1] /\ k - 1 \in 1..Latency
             /\ \A k \in 1..(Latency - 1) : requests'[k + 1] = requests[k]
  <2>1. requests' \in [1..Latency -> BOOLEAN]
    BY <1>1, <1>2, ShiftCount
  <2>2. \A k \in 1..Latency : requests'[k] = (IF k = 1 THEN new ELSE requests[k - 1])
    BY <1>2 DEF Shift
  <2>3. \A k \in 1..(Latency - 1) : k + 1 \in 1..Latency /\ k + 1 # 1 /\ (k + 1) - 1 = k
    BY <1>1
  <2> QED BY <1>1, <2>1, <2>2, <2>3
<1>3. CASE Acknowledged
  <2>1. /\ nfcValid /\ nfcValid' = FALSE /\ cooldown' = Cooldown /\ waited' = 0
        /\ requests' = Shift(requests, TRUE)
    BY <1>3 DEF Acknowledged
  <2>2. \A k \in 1..Latency : ~requests[k]
    BY <2>1 DEF OneUnderWay
  <2>3. OneUnderWay'
    BY <1>1, <1>2, <2>1, <2>2 DEF OneUnderWay
  <2>4. requests' \in [1..Latency -> BOOLEAN] /\ requests'[1]
    BY <1>2, <2>1
  <2>5. \A k \in 1..(Latency - 1) : ~requests[k]
    BY <1>1, <2>2
  <2>6. cooldown' \in 0..Cooldown
    <3>1. Cooldown \in 0..Cooldown
      BY <1>1
    <3> QED BY <2>1, <3>1
  <2>7. waited' \in 0..AckDelay /\ waited' = 0
    BY <1>1, <2>1
  <2> QED BY <2>1, <2>3, <2>4, <2>5, <2>6, <2>7
<1>4. CASE NotAcknowledged
  <2>1. /\ nfcValid /\ waited < AckDelay /\ waited' = waited + 1 /\ nfcValid' = nfcValid
        /\ cooldown' = cooldown /\ requests' = Shift(requests, FALSE)
    BY <1>4 DEF NotAcknowledged
  <2>2. \A k \in 1..Latency : ~requests[k]
    BY <2>1 DEF OneUnderWay
  <2>3. OneUnderWay'
    BY <1>1, <1>2, <2>1, <2>2 DEF OneUnderWay
  <2>4. requests' \in [1..Latency -> BOOLEAN]
    BY <1>2, <2>1
  <2>5. \A k \in 1..(Latency - 1) : ~requests[k]
    BY <1>1, <2>2
  <2>6. waited' \in 0..AckDelay /\ ~Acknowledged
    BY <1>1, <2>1 DEF Acknowledged
  <2> QED BY <1>1, <2>1, <2>3, <2>4, <2>5, <2>6
<1>5. CASE Quiet
  <2>1. /\ ~nfcValid /\ cooldown' = (IF cooldown > 0 THEN cooldown - 1 ELSE 0)
        /\ nfcValid' = (cooldown = 0 /\ progFull) /\ waited' = waited /\ requests' = Shift(requests, FALSE)
    BY <1>5 DEF Quiet
  <2>2. OneUnderWay'
    <3> SUFFICES ASSUME NEW k \in 1..Latency, requests'[k]
                 PROVE  ~nfcValid' /\ cooldown' + k = Cooldown + 1
      BY DEF OneUnderWay
    <3>1. k # 1 /\ requests[k - 1] /\ k - 1 \in 1..Latency
      BY <1>1, <1>2, <2>1
    <3>2. cooldown + (k - 1) = Cooldown + 1
      BY <3>1 DEF OneUnderWay
    <3> QED BY <1>1, <2>1, <3>1, <3>2
  <2>3. cooldown' \in 0..Cooldown /\ nfcValid' \in BOOLEAN
    BY <1>1, <2>1
  <2> QED BY <1>1, <1>2, <2>1, <2>2, <2>3 DEF Acknowledged
<1> QED BY <1>3, <1>4, <1>5

LEMMA DueNumbers ==
    ASSUME FlowTypes
    PROVE  /\ due \in Nat /\ due > 0
           /\ nfcValid => due > Latency /\ due <= AckDelay + Latency + 1
           /\ ~nfcValid => due = cooldown + AckDelay + Latency + 2
BY FlowAssumption DEF FlowTypes, FlowTypeOK, due

\* With each cycle a request that is still to be made comes closer, while it is asked for.
LEMMA DueStep ==
    ASSUME FlowTypes, NotAcknowledged \/ Quiet, nfcValid \/ cooldown > 0 \/ progFull
    PROVE  due' = due - 1
<1>1. AckDelay \in Nat /\ Latency \in Nat /\ cooldown \in Nat /\ waited \in Nat /\ nfcValid \in BOOLEAN
      /\ progFull \in BOOLEAN /\ (~nfcValid => waited = 0)
  BY FlowAssumption DEF FlowTypes, FlowTypeOK
<1>2. CASE NotAcknowledged
  BY <1>1, <1>2 DEF NotAcknowledged, due
<1>3. CASE Quiet
  <2>1. ~nfcValid /\ waited' = 0
    BY <1>1, <1>3 DEF Quiet
  <2>2. CASE cooldown > 0
    <3>1. nfcValid' = FALSE /\ cooldown' = cooldown - 1
      BY <1>1, <1>3, <2>2 DEF Quiet
    <3> QED BY <1>1, <2>1, <3>1 DEF due
  <2>3. CASE ~(cooldown > 0)
    <3>1. nfcValid' = TRUE /\ cooldown = 0
      BY <1>1, <1>3, <2>1, <2>3 DEF Quiet
    <3> QED BY <1>1, <2>1, <3>1 DEF due
  <2> QED BY <2>2, <2>3
<1> QED BY <1>2, <1>3

\* A request that arrives holds the sender back until the next one can have come.
LEMMA Arrival ==
    ASSUME FlowTypes, OneUnderWay, requests[Latency], NotAcknowledged \/ Quiet, pause' = Pause
    PROVE  pause' >= due'
<1>1. /\ Latency \in 1..Latency /\ Latency \in Nat /\ Pause \in Nat /\ Cooldown \in Nat /\ AckDelay \in Nat
      /\ Latency <= Cooldown /\ Pause >= Cooldown + AckDelay + 2 /\ cooldown \in Nat
  BY FlowAssumption DEF FlowTypes, FlowTypeOK
<1>2. ~nfcValid /\ cooldown + Latency = Cooldown + 1
  BY <1>1 DEF OneUnderWay
<1>3. due' = due - 1 /\ due = cooldown + AckDelay + Latency + 2
  BY <1>1, <1>2, DueStep, DueNumbers
<1> QED BY <1>1, <1>2, <1>3

LEMMA LoadStep ==
    ASSUME FlowTypeOK, NEW wants \in BOOLEAN, NEW drain \in BOOLEAN, Sender(wants), Fifo(drain)
    PROVE  /\ load \in Nat /\ load' \in Nat /\ load' <= load + 1 /\ (pause > 0 => load' <= load)
           /\ load <= level + Latency
<1>1. level \in Nat /\ Latency \in Nat /\ flying \in 0..Latency /\ flying' \in 0..Latency /\ level' \in Nat
  BY FlowAssumption, DataStep DEF FlowTypeOK
<1>2. PICK v2 \in Nat, f \in Nat, f2 \in Nat : v2 = level' /\ f = flying /\ f2 = flying' /\ f <= Latency
  BY <1>1
<1>3. load = level + f /\ load' = v2 + f2
  BY <1>2 DEF load
<1>4. v2 + f2 <= level + f + 1 /\ (pause > 0 => v2 + f2 <= level + f)
  BY <1>2, DataStep
<1>5. level + f \in Nat /\ level + f <= level + Latency
  <2>1. level \in Nat /\ Latency \in Nat /\ f <= Latency
    BY <1>1, <1>2
  <2> QED BY <2>1
<1>6. v2 + f2 \in Nat
  OBVIOUS
<1> QED BY <1>3, <1>4, <1>5, <1>6

LEMMA CycleKeeps ==
    ASSUME FlowInv, NEW wants \in BOOLEAN, NEW drain \in BOOLEAN, FlowClock(wants, drain)
    PROVE  FlowInv'
<1>1. /\ FlowTypes /\ FlowTypeOK /\ OneUnderWay /\ Renewed /\ Budget /\ Sender(wants) /\ Fifo(drain)
      /\ Acknowledged \/ NotAcknowledged \/ Quiet
  BY DEF FlowInv, FlowTypes, FlowClock
<1>2. /\ Latency \in Nat /\ Latency > 0 /\ AckDelay \in Nat /\ Threshold \in Nat /\ Depth \in Nat
      /\ Depth >= Threshold + AckDelay + 2 * Latency + 3
  BY FlowAssumption
<1>3. /\ level \in Nat /\ level' \in Nat /\ level' <= level + 1 /\ pause \in Nat /\ pause' \in Nat
      /\ requests[Latency] => pause' = Pause
      /\ pause > 0 => pause' >= pause - 1
  BY <1>1, DataStep, FlowAssumption DEF FlowTypeOK
<1>4. progFull \in BOOLEAN /\ progFull' \in BOOLEAN /\ (progFull' <=> level >= Threshold)
  <2>1. progFull' = (level >= Threshold) /\ progFull \in BOOLEAN
    BY <1>1 DEF Fifo, FlowTypeOK
  <2>2. progFull' <=> level >= Threshold
    BY <2>1, Zenon
  <2>3. progFull' \in BOOLEAN
    BY <1>2, <1>3, <2>1
  <2> QED BY <2>1, <2>2, <2>3
<1>5. PICK l \in Nat, l2 \in Nat :
          l = load /\ l2 = load' /\ l2 <= l + 1 /\ (pause > 0 => l2 <= l) /\ l <= level + Latency
  BY <1>1, LoadStep
<1>6. FlowTypes'
  <2>1. beats' \in [1..Latency -> BOOLEAN] /\ pause' \in 0..Pause
    BY <1>1, DataStep
  <2> QED BY <1>4, <1>1, <1>3, <2>1, Handshake DEF FlowTypes, FlowTypeOK
<1>7. OneUnderWay'
  BY <1>1, Handshake
<1>8. PICK d \in Nat, d2 \in Nat :
          /\ d = due /\ d2 = due' /\ d > 0 /\ (nfcValid => d > Latency)
          /\ nfcValid' => d2 <= AckDelay + Latency + 1
          /\ ~nfcValid' => d2 = cooldown' + AckDelay + Latency + 2
  <2>1. due \in Nat /\ due > 0 /\ (nfcValid => due > Latency)
    BY <1>1, DueNumbers
  <2>2. PICK w2 \in 0..AckDelay : w2 = waited'
    BY <1>6 DEF FlowTypes, FlowTypeOK
  <2>3. PICK c2 \in Nat : c2 = cooldown'
    BY <1>6, FlowAssumption DEF FlowTypes, FlowTypeOK
  <2>4. \E d2 \in Nat : /\ d2 = due'
                        /\ nfcValid' => d2 <= AckDelay + Latency + 1
                        /\ ~nfcValid' => d2 = cooldown' + AckDelay + Latency + 2
    <3>1. CASE nfcValid'
      <4>1. due' = (AckDelay - w2) + 1 + Latency
        BY <2>2, <3>1 DEF due
      <4>2. /\ (AckDelay - w2) + 1 + Latency \in Nat
            /\ (AckDelay - w2) + 1 + Latency <= AckDelay + Latency + 1
        BY <1>2
      <4> QED BY <3>1, <4>1, <4>2
    <3>2. CASE ~nfcValid'
      <4>1. due' = c2 + AckDelay + Latency + 2
        BY <2>3, <3>2 DEF due
      <4>2. c2 + AckDelay + Latency + 2 \in Nat
        BY <1>2
      <4> QED BY <2>3, <3>2, <4>1, <4>2
    <3> QED BY <3>1, <3>2
  <2>5. \E d \in Nat : d = due /\ d > 0 /\ (nfcValid => d > Latency)
    BY <2>1
  <2>6. PICK e2 \in Nat : /\ e2 = due'
                          /\ nfcValid' => e2 <= AckDelay + Latency + 1
                          /\ ~nfcValid' => e2 = cooldown' + AckDelay + Latency + 2
    BY <2>4
  <2>7. PICK e \in Nat : e = due /\ e > 0 /\ (nfcValid => e > Latency)
    BY <2>5
  <2> WITNESS e \in Nat, e2 \in Nat
  <2> QED BY <2>6, <2>7
<1>9. /\ Budget <=> IF progFull THEN Unasked \/ Asked \/ Held ELSE level <= Threshold
      /\ Unasked <=> l + d <= Depth
      /\ Held <=> l <= Depth /\ pause >= d
      /\ Asked <=> \E k \in 1..Latency :
                       /\ requests[k] /\ l <= Depth
                       /\ l + (Latency + 1 - k) <= Depth \/ pause >= Latency + 1 - k
  BY <1>5, <1>8 DEF Budget, Unasked, Held, Asked
<1>10. /\ Budget' <=> IF progFull' THEN Unasked' \/ Asked' \/ Held' ELSE level' <= Threshold
       /\ Unasked' <=> l2 + d2 <= Depth
       /\ Held' <=> l2 <= Depth /\ pause' >= d2
       /\ Asked' <=> \E k \in 1..Latency :
                         /\ requests'[k] /\ l2 <= Depth
                         /\ l2 + (Latency + 1 - k) <= Depth \/ pause' >= Latency + 1 - k
  BY <1>5, <1>8 DEF Budget, Unasked, Held, Asked
<1>11. ASSUME NotAcknowledged \/ Quiet, nfcValid \/ cooldown > 0 \/ progFull
       PROVE  d2 = d - 1
  <2>1. due' = due - 1
    BY <1>1, <1>11, DueStep
  <2> QED BY <1>8, <2>1
<1>12. Acknowledged => d > Latency /\ requests'[1] /\ 1 \in 1..Latency
  <2>1. 1 \in 1..Latency
    BY <1>2
  <2>2. Acknowledged => nfcValid /\ requests'[1]
    BY <1>1, Handshake DEF Acknowledged
  <2> QED BY <1>8, <2>1, <2>2
<1>13. ASSUME NEW k \in 1..Latency, requests[k]
       PROVE  /\ Quiet /\ ~Acknowledged /\ cooldown > 0
              /\ \/ k + 1 \in 1..Latency /\ requests'[k + 1]
                 \/ k = Latency /\ pause' >= d2
  <2>1. ~nfcValid /\ Quiet /\ ~Acknowledged
    BY <1>1, <1>13 DEF OneUnderWay, Acknowledged, NotAcknowledged
  <2>2. cooldown > 0
    <3>1. cooldown + k = Cooldown + 1 /\ k <= Cooldown /\ cooldown \in Nat /\ k \in Nat
      BY <1>1, <1>13, FlowAssumption DEF OneUnderWay, FlowTypeOK
    <3> QED BY <3>1, FlowAssumption
  <2>3. CASE k = Latency
    <3>1. pause' >= due'
      BY <1>1, <1>3, <1>13, <2>1, <2>3, Arrival
    <3> QED BY <1>8, <2>1, <2>2, <2>3, <3>1
  <2>4. CASE k # Latency
    <3>1. k \in 1..(Latency - 1) /\ k + 1 \in 1..Latency
      BY <1>2, <2>4
    <3>2. requests'[k + 1]
      BY <1>1, <1>13, <3>1, Handshake
    <3> QED BY <2>1, <2>2, <3>1, <3>2
  <2> QED BY <2>3, <2>4
<1>14. ~nfcValid' /\ cooldown' > 0 => (\E k \in 1..Latency : requests'[k]) \/ pause' >= d2
  <2> SUFFICES ASSUME ~nfcValid', cooldown' > 0
               PROVE  (\E k \in 1..Latency : requests'[k]) \/ pause' >= d2
    OBVIOUS
  <2>1. CASE Acknowledged
    BY <1>12, <2>1
  <2>2. CASE NotAcknowledged
    BY <2>2 DEF NotAcknowledged
  <2>3. CASE Quiet
    <3>1. ~nfcValid /\ cooldown > 0
      BY <1>1, <2>3, FlowAssumption DEF Quiet, FlowTypeOK
    <3>2. CASE \E k \in 1..Latency : requests[k]
      BY <1>13, <3>2
    <3>3. CASE pause >= d
      <4>1. d2 = d - 1
        BY <1>11, <2>3, <3>1
      <4>2. pause > 0 /\ pause' >= pause - 1
        BY <1>3, <1>8, <3>3
      <4> QED BY <1>3, <3>3, <4>1, <4>2
    <3> QED BY <1>1, <1>8, <3>1, <3>2, <3>3 DEF Renewed
  <2> QED BY <1>1, <2>1, <2>2, <2>3
<1>15. Renewed'
  BY <1>8, <1>14 DEF Renewed
<1>16. Budget'
  <2>1. CASE ~progFull'
    <3>1. ~(level >= Threshold) /\ level' <= level + 1
      BY <1>4, <1>3, <2>1
    <3>2. level' <= Threshold
      BY <1>2, <1>3, <3>1
    <3> QED BY <1>10, <2>1, <3>2
  <2>2. CASE progFull' /\ ~progFull
    <3>1. l2 <= Threshold + Latency + 1
      <4>1. level <= Threshold /\ l <= level + Latency /\ l2 <= l + 1
        BY <1>1, <1>5, <1>9, <2>2
      <4>2. level \in Nat
        BY <1>3
      <4> QED BY <1>2, <4>1, <4>2
    <3>2. CASE nfcValid' \/ ~(cooldown' > 0)
      <4>1. d2 <= AckDelay + Latency + 2
        <5>1. PICK c2 \in Nat : c2 = cooldown'
          BY <1>6, FlowAssumption DEF FlowTypes, FlowTypeOK
        <5>2. CASE nfcValid'
          BY <1>2, <1>8, <5>2
        <5>3. CASE ~nfcValid'
          <6>1. d2 = c2 + AckDelay + Latency + 2 /\ ~(c2 > 0)
            BY <1>8, <3>2, <5>1, <5>3
          <6> QED BY <1>2, <6>1
        <5> QED BY <5>2, <5>3
      <4>2. l2 + d2 <= Depth
        BY <1>2, <3>1, <4>1
      <4> QED BY <1>10, <2>2, <4>2
    <3>3. ASSUME NEW k \in 1..Latency, requests'[k] PROVE Budget'
      <4>1. l2 + (Latency + 1 - k) <= Depth /\ l2 <= Depth
        BY <1>2, <3>1
      <4> QED BY <1>10, <2>2, <3>3, <4>1
    <3>4. CASE pause' >= d2
      <4>1. l2 <= Depth
        BY <1>2, <3>1
      <4> QED BY <1>10, <2>2, <3>4, <4>1
    <3> QED BY <1>14, <3>2, <3>3, <3>4
  <2>3. CASE progFull' /\ progFull
    <3>1. CASE Unasked
      <4>1. l + d <= Depth /\ l2 <= l + 1 /\ d > 0
        BY <1>5, <1>8, <1>9, <3>1
      <4>2. CASE Acknowledged
        <5>1. d > Latency /\ requests'[1] /\ 1 \in 1..Latency
          BY <1>12, <4>2
        <5>2. l2 + (Latency + 1 - 1) <= Depth /\ l2 <= Depth
          BY <1>2, <4>1, <5>1
        <5> QED BY <1>10, <2>3, <5>1, <5>2
      <4>3. CASE NotAcknowledged \/ Quiet
        <5>1. d2 = d - 1
          BY <1>11, <2>3, <4>3
        <5>2. l2 + d2 <= Depth
          BY <1>2, <4>1, <5>1
        <5> QED BY <1>10, <2>3, <5>2
      <4> QED BY <1>1, <4>2, <4>3
    <3>2. CASE Asked
      <4>1. PICK k \in 1..Latency :
                /\ requests[k] /\ l <= Depth
                /\ l + (Latency + 1 - k) <= Depth \/ pause >= Latency + 1 - k
        BY <1>9, <3>2
      <4>2. l2 <= l + 1 /\ (pause > 0 => l2 <= l /\ pause' >= pause - 1)
        BY <1>3, <1>5
      <4>3. pause \in Nat /\ pause' \in Nat
        BY <1>3
      <4>4. l2 <= Depth
        BY <1>2, <4>1, <4>2, <4>3
      <4>5. CASE k = Latency /\ pause' >= d2
        BY <1>10, <2>3, <4>4, <4>5
      <4>6. CASE k + 1 \in 1..Latency /\ requests'[k + 1]
        <5>1. l2 + (Latency + 1 - (k + 1)) <= Depth \/ pause' >= Latency + 1 - (k + 1)
          <6>1. CASE pause > 0
            BY <1>2, <4>1, <4>2, <4>3, <6>1
          <6>2. CASE ~(pause > 0)
            BY <1>2, <4>1, <4>2, <4>3, <6>2
          <6> QED BY <6>1, <6>2
        <5> QED BY <1>10, <2>3, <4>4, <4>6, <5>1
      <4> QED BY <1>13, <4>1, <4>5, <4>6
    <3>3. CASE Held
      <4>1. l2 <= Depth /\ pause' >= d - 1
        <5>1. l <= Depth /\ pause >= d /\ d > 0
          BY <1>8, <1>9, <3>3
        <5>2. pause > 0 /\ pause \in Nat /\ pause' \in Nat
          BY <1>3, <5>1
        <5>3. l2 <= l /\ pause' >= pause - 1
          BY <1>3, <1>5, <5>2
        <5> QED BY <1>2, <5>1, <5>2, <5>3
      <4>2. CASE Acknowledged
        <5>1. d > Latency /\ requests'[1] /\ 1 \in 1..Latency
          BY <1>12, <4>2
        <5>2. pause' \in Nat
          BY <1>3
        <5>3. pause' >= Latency + 1 - 1
          BY <1>2, <4>1, <5>1, <5>2
        <5> QED BY <1>10, <2>3, <4>1, <5>1, <5>3
      <4>3. CASE NotAcknowledged \/ Quiet
        <5>1. d2 = d - 1
          BY <1>11, <2>3, <4>3
        <5> QED BY <1>10, <2>3, <4>1, <5>1
      <4> QED BY <1>1, <4>2, <4>3
    <3> QED BY <1>1, <1>9, <2>3, <3>1, <3>2, <3>3
  <2> QED BY <1>4, <2>1, <2>2, <2>3
<1> QED BY <1>6, <1>7, <1>15, <1>16 DEF FlowInv
-----------------------------------------------------------------------------
(* The theorems.                                                           *)

LEMMA FlowInvariance == FlowSpec => []FlowInv
<1>1. FlowInit => FlowInv
  <2> SUFFICES ASSUME FlowInit PROVE FlowInv
    OBVIOUS
  <2>1. FlowTypes
    <3>1. /\ 0 \in 0..Pause /\ 0 \in 0..Cooldown /\ 0 \in 0..AckDelay
          /\ Empty \in [1..Latency -> BOOLEAN]
      BY FlowAssumption DEF Empty
    <3> QED BY <3>1 DEF FlowInit, FlowTypes, FlowTypeOK
  <2>2. OneUnderWay /\ Renewed /\ Budget
    BY FlowAssumption DEF FlowInit, OneUnderWay, Renewed, Budget, Empty
  <2> QED BY <2>1, <2>2 DEF FlowInv
<1>2. FlowInv /\ [FlowNext]_flowVars => FlowInv'
  <2> SUFFICES ASSUME FlowInv, [FlowNext]_flowVars PROVE FlowInv'
    OBVIOUS
  <2>1. CASE FlowNext
    BY <2>1, CycleKeeps DEF FlowNext
  <2>2. CASE UNCHANGED flowVars
    BY <2>2 DEF flowVars, FlowInv, FlowTypes, FlowTypeOK, OneUnderWay, Renewed, Budget, Unasked, Asked, Held,
       due, load, flying, OnTheWay
  <2> QED BY <2>1, <2>2
<1> QED BY <1>1, <1>2, PTL DEF FlowSpec

\* Counters and lines keep their types: the pause of the sender never passes PAUSE_COUNT, the
\* quiet time never COOLDOWN_CYCLES.
THEOREM FlowTypeCorrect == FlowSpec => []FlowTypeOK
<1>1. FlowInv => FlowTypeOK
  BY DEF FlowInv, FlowTypes
<1> QED BY <1>1, FlowInvariance, PTL

\* The FIFO behind rx0 never holds more than its depth, even if it is never drained and the
\* sender always has data: dbg_overflow stays low.
THEOREM FifoNeverOverflows == FlowSpec => []NoOverflow
<1>1. FlowInv => NoOverflow
  <2> SUFFICES ASSUME FlowInv PROVE level <= Depth
    BY DEF NoOverflow
  <2>1. level \in Nat /\ flying \in Nat /\ Depth \in Nat /\ Threshold <= Depth /\ due \in Nat /\ Threshold \in Nat
    BY LineCount, DueNumbers, FlowAssumption DEF FlowInv, FlowTypes, FlowTypeOK, flying
  <2>2. level <= load /\ load \in Nat
    BY <2>1 DEF load
  <2>3. level <= Threshold \/ load <= Depth
    BY <2>1, <2>2 DEF FlowInv, Budget, Unasked, Asked, Held
  <2> QED BY <2>1, <2>2, <2>3
<1> QED BY <1>1, FlowInvariance, PTL
=============================================================================
