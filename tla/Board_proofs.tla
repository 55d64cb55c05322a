---------------------------- MODULE Board_proofs ----------------------------
(***************************************************************************)
(* What is proved of the sys_clk side of a board, for every menu of        *)
(* packets, every size of the FIFOs, bursts and memory, every rhythm of    *)
(* the sources and of the outputs, and every change of the link: a packet  *)
(* arrives whole where it is sent, in the registers, in the flash block,   *)
(* in the waveform memory and on the ring.                                 *)
(*                                                                         *)
(* The inductive invariant is IInv.  Its parts relate each module's own    *)
(* count to the one beat its output handed over last, so the modules can   *)
(* be treated one by one:                                                  *)
(*   - the dispatcher keeps the sources and the outputs in step;           *)
(*   - local_reg_handler.v, flash_payload_cdc.v and ddr_writer.v see only  *)
(*     the next beat of the packet under way, or the header of another.    *)
(***************************************************************************)
EXTENDS Board, Integers, SequenceTheorems, FiniteSetTheorems, TLAPS

-----------------------------------------------------------------------------
(* What is always true of a board: how the sources, the beat under way in  *)
(* the dispatcher, the beat each output handed over last and the counters  *)
(* of the modules behind the outputs belong together.                      *)

\* Beats.  Good: a beat of a packet a host sends; a queue is a chain of such packets and of
\* padding, each whole from its header to its last beat.
Good(b) == b \in Beat /\ PacketOk(b.h) /\ b.i \in 1..b.h.len
Queued(b) == b = Padding \/ (Good(b) /\ ~b.own)
Ends(b) == b = Padding \/ b.i = b.h.len
Follows(b, a) == b.h = a.h /\ b.no = a.no /\ b.i = a.i + 1
Joined(a, b) == IF Ends(a) THEN b.i = 1 ELSE Follows(b, a)
Chain(q) == /\ \A k \in 1..Len(q) : Queued(q[k])
            /\ \A k \in 1..(Len(q) - 1) : Joined(q[k], q[k + 1])
            /\ q # <<>> => Ends(q[Len(q)])

\* Numbers: whether the beat after a gets this board's values.  Meets: b may come after a
\* at an output.
Numbers(a) == a.i = 1 /\ a.own /\ a.h.kind = "assign"
Meets(a, b) == IF a.i = a.h.len THEN b.i = 1 ELSE Follows(b, a) /\ (b.own <=> Numbers(a))
LastOf(p) == IF port[p] # NoBeat THEN port[p] ELSE taken[p]
Next1 == source[from][1]

\* Sourced: the sources hold whole packets, and the one under way goes on with the beat
\* that the dispatcher's count says.
Routes == {{"local"}, {"ddr"}, {"flash"}, {"tx"}, {"local", "tx"}}
Sourced ==
    /\ \A s \in Sources : Chain(source[s])
    /\ \A s \in Sources : source[s] # <<>> /\ ~(state = "data" /\ from = s) => source[s][1].i = 1
    /\ route \in Routes
    /\ state = "data" => /\ source[from] # <<>> /\ Good(Next1) /\ Next1.i >= 2
                         /\ remaining = Next1.h.len - Next1.i + 1
                         /\ "ddr" \in route => Next1.h.kind = "wave"
                         /\ "flash" \in route => Next1.h.kind = "flash"

\* PutOut: each output goes on from what it handed over last.
Honest(p) == p = "tx" => ~lossy
InStep(p) ==
    /\ port[p] # NoBeat => Meets(taken[p], port[p])
    /\ IF state = "data" /\ p \in route
         THEN LastOf(p).i # LastOf(p).h.len /\ Follows(Next1, LastOf(p)) /\ (subst <=> Numbers(LastOf(p)))
         ELSE LastOf(p).i = LastOf(p).h.len
    /\ p = "tx" /\ port[p] # NoBeat => (tlast <=> port[p].i = port[p].h.len)
For(p, b) == /\ Good(b)
             /\ p = "ddr" => b.h.kind = "wave"
             /\ p = "flash" => b.h.kind = "flash"
PutOut ==
    \A p \in Ports : /\ port[p] = NoBeat \/ For(p, port[p])
                     /\ taken[p] = NoBeat \/ For(p, taken[p])
                     /\ Honest(p) => InStep(p)

\* OneWave: one waveform at a time is on the way.
Wavy(b) == b.h.kind = "wave" /\ b.i = 1
Without(q) == \A k \in 1..Len(q) : ~Wavy(q[k])
Single(q) == \A j, k \in 1..Len(q) : Wavy(q[j]) /\ Wavy(q[k]) => j = k
Busy == inState # "idle" \/ port["ddr"] # NoBeat \/ (state = "data" /\ "ddr" \in route)
OneWave ==
    /\ \A s \in Sources : Single(source[s])
    /\ \E s \in Sources : Without(source[s])
    /\ Busy => \A s \in Sources : Without(source[s])
    /\ inState # "idle" /\ port["ddr"] # NoBeat => port["ddr"].i # 1

\* Locally: local_reg_handler.v has counted to where the packet is, and keeps its words.
Kept(l, k) == listWord[k].h = l.h /\ listWord[k].no = l.no /\ listWord[k].i = k + 1 /\ ~listWord[k].own
Keeps(l) == IF l.h.kind = "list" THEN 2 ELSE 0
Locally == LET l == taken["local"] IN
    /\ lstate = IF l.i = l.h.len THEN "idle" ELSE "data"
    /\ lstate = "data" =>
         /\ header.h = l.h /\ header.no = l.no /\ header.i = 1 /\ (l.i = 1 => header = l)
         /\ lremaining = l.h.len - l.i /\ beatIdx = l.i
         /\ \A k \in 1..(l.i - 1) : k <= Keeps(l) => Kept(l, k)
    /\ pulse # <<>> => lstate = "idle"
    /\ PulseWhole

\* Replying: the words of the report that is arriving are in the answer registers, unless a
\* debug trigger has struck it.
Replying == LET l == taken["local"] IN
    /\ Reporting /\ ~struck => \A k \in 1..(l.i - 1) : reply.word[k] = AnswerWord(header, k)
    /\ ReplyWhole

\* Flashing: flash_payload_cdc.v has counted to where the packet is, and the words that
\* have gone are the packet's.
Payload(s, no) == \A k \in 1..Len(s) :
    s[k].no = no /\ s[k].i = 1 + (k + 1) \div 2 /\ s[k].half = IF k % 2 = 1 THEN "lo" ELSE "hi"
Flashing == LET f == taken["flash"] IN
    /\ expectHeader <=> f.i = f.h.len
    /\ dataCnt = IF expectHeader THEN 0 ELSE f.i - 1
    /\ latchedHi # NoBeat => latchedHi = f /\ f.i >= 2
    /\ Payload(block, f.no)
    /\ Len(block) = IF latchedHi # NoBeat THEN 2 * (f.i - 1) - 1
                    ELSE IF expectHeader THEN 0 ELSE 2 * (f.i - 1)
    /\ BlockWhole

\* Taking: ddr_writer.v's input side.  What has come is in the memory up to Stored, on the
\* data channel, in pacc_fifo from Popped on, and in half_buf.
IsWord(x, n, a) == \A k \in {1, 2} : x[k].no = n /\ x[k].i = 2 * a + k + 2
Captured == IF axi = "w" THEN IF cnt = 0 THEN BurstMax ELSE cnt ELSE IF axi = "resp" THEN burst ELSE 0
At == IF metaValid THEN 0 ELSE addr
Popped == At + Captured - (IF rdEn THEN 1 ELSE 0)
Stored == At + Captured - (IF w.valid THEN 1 ELSE 0)
Taking == LET t == taken["ddr"] IN
    /\ t # NoBeat => t.no = wave
    /\ inState = "idle" => t.i = t.h.len
    /\ inState = "meta" => t.i = 1 /\ t # NoBeat
    /\ inState # "stream" => axi = "idle" /\ ~axiDone /\ ~metaValid /\ pacc = <<>> /\ half = NoBeat
    /\ inState = "stream" =>
         /\ t # NoBeat /\ t.h.len = 2 * total + 2
         /\ t.i = 2 * (Popped + Len(pacc)) + (IF half = NoBeat THEN 2 ELSE 3)
         /\ half # NoBeat => half = t
         /\ \A k \in 1..Len(pacc) : IsWord(pacc[k], wave, Popped + k - 1)
         /\ \A a \in 0..(Stored - 1) : IsWord(mem[a], wave, a)
         /\ axi = "idle" => IF metaValid THEN ~axiDone ELSE axiDone /\ addr = total

\* Writing: its AXI side.
Writing ==
    /\ axi \notin {"aw", "w"} => ~aw.valid
    /\ axi # "w" => ~rdEn /\ ~w.valid
    /\ rdEn => pacc # <<>>
    /\ axi # "idle" => ~metaValid /\ ~axiDone /\ left = total - addr /\ left > 0
    /\ axi \in {"aw", "w", "resp"} => burst = IF left >= BurstMax THEN BurstMax ELSE left
    /\ axi = "aw" => pacc # <<>> /\ (aw.valid => aw.addr = addr)
    /\ axi = "w" => /\ ~aw.valid /\ Captured <= burst /\ slave.addr = Stored
                    /\ IF w.valid THEN IsWord(w.data, wave, Stored) /\ (w.last <=> Captured = burst)
                                  ELSE Captured < burst
    /\ axiDone => inState = "stream"

\* Types: what each variable holds, those that TypeOK leaves out with them.
InTypes == /\ inState \in {"idle", "meta", "stream"} /\ total \in 0..MemWords
           /\ metaValid \in BOOLEAN /\ half \in Beat /\ wave \in Nat
           /\ pacc \in Seq(Beat \X Beat) /\ Len(pacc) <= PaccDepth
AxiTypes == /\ axi \in {"idle", "fill", "aw", "w", "resp"}
            /\ left \in 0..MemWords /\ burst \in 0..BurstMax /\ cnt \in 0..(BurstMax - 1)
            /\ addr \in 0..MemWords
            /\ rdEn \in BOOLEAN /\ axiDone \in BOOLEAN
            /\ aw \in [valid : BOOLEAN, addr : Nat, len : Int]
            /\ w \in [valid : BOOLEAN, data : Beat \X Beat, last : BOOLEAN]
SlaveTypes == /\ slave \in [addr : Nat, due : Int, owes : BOOLEAN]
              /\ mem \in [0..(MemWords - 1) -> Beat \X Beat]
Types ==
    /\ DispatcherTypeOK /\ LocalTypeOK /\ FlashTypeOK /\ InTypes /\ AxiTypes /\ SlaveTypes
    /\ sent \in [Sources -> SUBSET Header] /\ \A s \in Sources : IsFiniteSet(sent[s])

IInv == Types /\ Sourced /\ PutOut /\ OneWave /\ Locally /\ Replying /\ Flashing /\ Taking /\ Writing

-----------------------------------------------------------------------------
(* The beats of a queue: packets a host sends, whole, and padding.         *)

\* The constants are numbers that leave room for what they bound.
LEMMA Constants ==
    /\ All \in Nat /\ TxTimeout \in Nat /\ TxTimeout > 0
    /\ MaxWords \in Nat /\ MaxWords > 1 /\ FlashBeats \in Nat /\ FlashBeats > 0
    /\ PaccDepth \in Nat /\ PaccDepth > 0 /\ BurstMax \in Nat /\ BurstMax > 1
    /\ MemWords \in Nat /\ MemWords > 0 /\ OldId \in Nat /\ NewId \in Nat /\ FaultBudget \in Nat
    /\ Menu \in [Sources -> SUBSET Header] /\ Sends \in [Sources -> Nat]
  BY DispatcherAssumption, MaxWordsAssumption, FlashBeatsAssumption, DdrAssumption, BoardAssumption

\* NoBeat and the padding are no packet's beats.
LEMMA Beatless ==
    /\ NoBeat \in Beat /\ NoBeat.i = 0 /\ NoBeat.no = 0 /\ NoBeat.own = FALSE
    /\ NoBeat.h.len = 0 /\ NoBeat.h.kind = "padding"
    /\ Padding \in Beat /\ Padding.i = 1 /\ Padding.no = 0 /\ Padding.own = FALSE
    /\ Padding.h.len = 0 /\ Padding.h.kind = "padding"
  BY DEF NoBeat, Padding, Beat, Header, Kinds

\* Good and what it says of a beat.
LEMMA BeatFields ==
    ASSUME NEW b \in Beat
    PROVE  /\ b.h \in Header /\ b.h.len \in Nat /\ b.h.dest \in Nat /\ b.h.kind \in Kinds
           /\ b.i \in Nat /\ b.no \in Nat /\ b.own \in BOOLEAN
  BY DEF Beat, Header

\* A good beat's length is one its kind may have.
LEMMA GoodIs ==
    ASSUME NEW b, Good(b)
    PROVE  /\ b \in Beat /\ PacketOk(b.h) /\ b # NoBeat /\ b # Padding
           /\ b.h.len \in Nat /\ b.h.len # 0 /\ b.i \in Nat /\ b.i >= 1 /\ b.i <= b.h.len
           /\ b.no \in Nat /\ b.own \in BOOLEAN
  <1>1. b \in Beat /\ PacketOk(b.h) /\ b.i \in 1..b.h.len  BY DEF Good
  <1>2. b.h.len \in Nat /\ b.i \in Nat /\ b.no \in Nat /\ b.own \in BOOLEAN  BY <1>1, BeatFields
  <1>3. b.h.len # 0  BY <1>1 DEF PacketOk
  <1>4. b # NoBeat /\ b # Padding  BY <1>3, Beatless
  <1> QED  BY <1>1, <1>2, <1>3, <1>4

\* A beat in a queue: padding, or good.
LEMMA QueuedIs ==
    ASSUME NEW b, Queued(b)
    PROVE  /\ b \in Beat /\ b.h.len \in Nat /\ b.i \in Nat /\ b.i >= 1
           /\ b.h.len # 0 => Good(b) /\ ~b.own
           /\ b.h.len = 0 => b = Padding
  <1>1. CASE b = Padding  BY <1>1, Beatless
  <1>2. CASE Good(b) /\ ~b.own  BY <1>2, GoodIs
  <1> QED  BY <1>1, <1>2 DEF Queued

\* The beat that follows a good beat of a queue.
LEMMA NextIs ==
    ASSUME NEW a, NEW b, Queued(a), Queued(b), Joined(a, b), a.i # a.h.len, a.h.len # 0
    PROVE  Good(b) /\ Follows(b, a)
  <1>1. Good(a)  BY QueuedIs
  <1>2. a # Padding  BY <1>1, GoodIs
  <1>3. Follows(b, a)  BY <1>2 DEF Joined, Ends
  <1>4. b.h.len # 0  BY <1>3 DEF Follows
  <1> QED  BY <1>3, <1>4, QueuedIs

\* The first beat of a queue is one that may be queued.
LEMMA FirstIs ==
    ASSUME NEW a, NEW b, Queued(a), Joined(a, b), a.i = a.h.len \/ a.h.len = 0
    PROVE  b.i = 1
  <1>1. Ends(a)  BY QueuedIs DEF Ends
  <1> QED  BY <1>1 DEF Joined

\* A queue that loses its first beat.
LEMMA ChainTail ==
    ASSUME NEW q \in Seq(Beat), q # <<>>, Chain(q)
    PROVE  /\ Tail(q) \in Seq(Beat) /\ Chain(Tail(q)) /\ Queued(q[1])
           /\ Tail(q) # <<>> => Tail(q)[1] = q[2] /\ Queued(Tail(q)[1]) /\ Joined(q[1], Tail(q)[1])
           /\ Tail(q) = <<>> => Ends(q[1])
  <1> DEFINE t == Tail(q)
  <1>1. /\ t \in Seq(Beat) /\ Len(t) = Len(q) - 1 /\ Len(q) \in Nat /\ Len(t) \in Nat /\ Len(q) # 0
        /\ \A i \in 1..Len(t) : t[i] = q[i + 1]
    BY HeadTailProperties, LenProperties, EmptySeq
  <1> HIDE DEF t
  <1>2. /\ \A k \in 1..Len(q) : Queued(q[k])
        /\ \A k \in 1..(Len(q) - 1) : Joined(q[k], q[k + 1])
        /\ Ends(q[Len(q)])
    BY DEF Chain
  <1>3. \A k \in 1..Len(t) : Queued(t[k])
    <2> TAKE k \in 1..Len(t)
    <2>1. k + 1 \in 1..Len(q) /\ t[k] = q[k + 1]  BY <1>1
    <2> QED  BY <2>1, <1>2
  <1>4. \A k \in 1..(Len(t) - 1) : Joined(t[k], t[k + 1])
    <2> TAKE k \in 1..(Len(t) - 1)
    <2>1. /\ k + 1 \in 1..(Len(q) - 1) /\ k \in 1..Len(t) /\ k + 1 \in 1..Len(t)  BY <1>1
    <2>2. t[k] = q[k + 1] /\ t[k + 1] = q[(k + 1) + 1]  BY <2>1, <1>1
    <2> QED  BY <2>1, <2>2, <1>2
  <1>5. t # <<>> => Ends(t[Len(t)])
    <2> SUFFICES ASSUME t # <<>> PROVE Ends(t[Len(t)])  OBVIOUS
    <2>1. Len(t) \in 1..Len(t)  BY <1>1, EmptySeq
    <2>2. t[Len(t)] = q[Len(t) + 1] /\ Len(t) + 1 = Len(q)  BY <1>1, <2>1
    <2> QED  BY <2>2, <1>2
  <1>6. Chain(t)  BY <1>3, <1>4, <1>5 DEF Chain
  <1>7. Queued(q[1])  BY <1>1, <1>2
  <1>8. t # <<>> => t[1] = q[2] /\ Queued(t[1]) /\ Joined(q[1], t[1])
    <2> SUFFICES ASSUME t # <<>> PROVE t[1] = q[2] /\ Queued(t[1]) /\ Joined(q[1], t[1])  OBVIOUS
    <2>1. 1 \in 1..Len(t) /\ 1 \in 1..(Len(q) - 1)  BY <1>1, EmptySeq
    <2>2. t[1] = q[1 + 1]  BY <1>1, <2>1
    <2>3. Joined(q[1], q[1 + 1])  BY <1>2, <2>1
    <2>4. t[1] = q[2]  BY <2>2
    <2> QED  BY <2>1, <2>2, <2>3, <2>4, <1>3
  <1>9. t = <<>> => Ends(q[1])
    <2> SUFFICES ASSUME t = <<>> PROVE Ends(q[1])  OBVIOUS
    <2>1. Len(t) = 0  BY EmptySeq
    <2>2. Len(q) = 1  BY <2>1, <1>1
    <2> QED  BY <2>2, <1>2
  <1> QED  BY <1>1, <1>6, <1>7, <1>8, <1>9 DEF t

\* A queue that gets another one behind it.
LEMMA ChainConcat ==
    ASSUME NEW q \in Seq(Beat), NEW r \in Seq(Beat), Chain(q), Chain(r), r # <<>>, r[1].i = 1
    PROVE  /\ q \o r \in Seq(Beat) /\ Chain(q \o r) /\ q \o r # <<>>
           /\ (q \o r)[1] = IF q = <<>> THEN r[1] ELSE q[1]
  <1> DEFINE c == q \o r
  <1>1. /\ c \in Seq(Beat) /\ Len(c) = Len(q) + Len(r) /\ Len(q) \in Nat /\ Len(r) \in Nat /\ Len(r) # 0
        /\ \A i \in 1..(Len(q) + Len(r)) : c[i] = IF i <= Len(q) THEN q[i] ELSE r[i - Len(q)]
    BY ConcatProperties, LenProperties, EmptySeq
  <1> HIDE DEF c
  <1>2. /\ \A k \in 1..Len(q) : Queued(q[k])
        /\ \A k \in 1..(Len(q) - 1) : Joined(q[k], q[k + 1])
        /\ q # <<>> => Ends(q[Len(q)])
        /\ \A k \in 1..Len(r) : Queued(r[k])
        /\ \A k \in 1..(Len(r) - 1) : Joined(r[k], r[k + 1])
        /\ Ends(r[Len(r)])
    BY DEF Chain
  <1>3. \A k \in 1..Len(c) : Queued(c[k])
    <2> TAKE k \in 1..Len(c)
    <2>1. CASE k <= Len(q)  BY <2>1, <1>1, <1>2
    <2>2. CASE k > Len(q)
      <3>1. k - Len(q) \in 1..Len(r) /\ c[k] = r[k - Len(q)]  BY <2>2, <1>1
      <3> QED  BY <3>1, <1>2
    <2> QED  BY <2>1, <2>2, <1>1
  <1>4. \A k \in 1..(Len(c) - 1) : Joined(c[k], c[k + 1])
    <2> TAKE k \in 1..(Len(c) - 1)
    <2>1. CASE k < Len(q)
      <3>1. c[k] = q[k] /\ c[k + 1] = q[k + 1] /\ k \in 1..(Len(q) - 1)  BY <2>1, <1>1
      <3> QED  BY <3>1, <1>2
    <2>2. CASE k = Len(q)
      <3>3. k \in Nat /\ k # 0 /\ k <= Len(q) /\ ~(k + 1 <= Len(q)) /\ (k + 1) - Len(q) = 1
            /\ k \in 1..(Len(q) + Len(r)) /\ k + 1 \in 1..(Len(q) + Len(r))
        BY <2>2, <1>1
      <3>4. c[k] = q[k] /\ c[k + 1] = r[(k + 1) - Len(q)]  BY <3>3, <1>1
      <3>1. c[k] = q[Len(q)] /\ c[k + 1] = r[1] /\ Len(q) # 0  BY <3>3, <3>4, <2>2
      <3>2. Ends(q[Len(q)])  BY <3>1, <1>2, EmptySeq
      <3> QED  BY <3>1, <3>2 DEF Joined
    <2>3. CASE k > Len(q)
      <3>1. /\ c[k] = r[k - Len(q)] /\ c[k + 1] = r[(k + 1) - Len(q)] /\ (k + 1) - Len(q) = (k - Len(q)) + 1
            /\ k - Len(q) \in 1..(Len(r) - 1)
        BY <2>3, <1>1
      <3> QED  BY <3>1, <1>2
    <2> QED  BY <2>1, <2>2, <2>3, <1>1
  <1>5. Ends(c[Len(c)])
    <2>1. Len(c) \in 1..(Len(q) + Len(r)) /\ ~(Len(c) <= Len(q)) /\ Len(c) - Len(q) = Len(r)  BY <1>1
    <2>2. c[Len(c)] = r[Len(r)]  BY <2>1, <1>1
    <2> QED  BY <2>2, <1>2
  <1>6. Chain(c)  BY <1>3, <1>4, <1>5 DEF Chain
  <1>7. c # <<>>  BY <1>1, EmptySeq
  <1>8. c[1] = IF q = <<>> THEN r[1] ELSE q[1]
    <2>1. CASE q = <<>>
      <3>1. Len(q) = 0  BY <2>1, EmptySeq
      <3>2. c[1] = r[1]  BY <3>1, <1>1
      <3> QED  BY <3>2, <2>1
    <2>2. CASE q # <<>>
      <3>1. Len(q) # 0  BY <2>2, EmptySeq
      <3>2. c[1] = q[1]  BY <3>1, <1>1
      <3> QED  BY <3>2, <2>2
    <2> QED  BY <2>1, <2>2
  <1> QED  BY <1>1, <1>6, <1>7, <1>8 DEF c

\* A queue that gets padding behind it.
LEMMA ChainPadding ==
    /\ <<Padding>> \in Seq(Beat) /\ Chain(<<Padding>>) /\ <<Padding>> # <<>>
    /\ <<Padding>>[1].i = 1 /\ Without(<<Padding>>) /\ Chain(<<>>) /\ Without(<<>>)
  <1>1. Padding \in Beat /\ Padding.i = 1 /\ Padding.h.kind = "padding"  BY Beatless
  <1>2. <<Padding>> \in Seq(Beat) /\ Len(<<Padding>>) = 1 /\ <<Padding>>[1] = Padding  BY <1>1
  <1>3. Chain(<<Padding>>)  BY <1>2 DEF Chain, Queued, Ends
  <1>4. Without(<<Padding>>)  BY <1>1, <1>2 DEF Without, Wavy
  <1>5. Chain(<<>>) /\ Without(<<>>)  BY DEF Chain, Without
  <1> QED  BY <1>1, <1>2, <1>3, <1>4, <1>5

\* The beats of one packet.
Beats(h, no) == [i \in 1..h.len |-> [h |-> h, i |-> i, no |-> no, own |-> FALSE]]

\* They make a queue.
LEMMA ChainBeats ==
    ASSUME NEW h \in Header, NEW no \in Nat, PacketOk(h)
    PROVE  /\ Beats(h, no) \in Seq(Beat) /\ Chain(Beats(h, no)) /\ Beats(h, no) # <<>>
           /\ Beats(h, no)[1].i = 1 /\ Single(Beats(h, no))
           /\ h.kind # "wave" => Without(Beats(h, no))
  <1> DEFINE q == Beats(h, no)
  <1>1. h.len \in Nat /\ h.len # 0 /\ h.kind # "padding"  BY DEF Header, PacketOk
  <1>2. \A i \in 1..h.len : /\ q[i] \in Beat /\ q[i].h = h /\ q[i].i = i /\ q[i].no = no /\ ~q[i].own
    BY <1>1 DEF Beats, Beat
  <1>3. q \in [1..h.len -> Beat]  BY <1>2 DEF Beats
  <1>4. q \in Seq(Beat) /\ Len(q) = h.len /\ q # <<>>  BY <1>3, <1>1, EmptySeq, LenProperties
  <1> HIDE DEF q
  <1>5. \A i \in 1..h.len : Queued(q[i])
    <2> TAKE i \in 1..h.len
    <2>1. q[i] \in Beat /\ q[i].h = h /\ q[i].i = i /\ ~q[i].own  BY <1>2
    <2>2. q[i].i \in 1..q[i].h.len /\ PacketOk(q[i].h)  BY <2>1
    <2> QED  BY <2>1, <2>2 DEF Queued, Good
  <1>6. \A i \in 1..(h.len - 1) : Joined(q[i], q[i + 1])
    <2> TAKE i \in 1..(h.len - 1)
    <2>1. i \in 1..h.len /\ i + 1 \in 1..h.len /\ i # h.len  BY <1>1
    <2>2. /\ q[i].h = h /\ q[i].i = i /\ q[i].no = no
          /\ q[i + 1].h = h /\ q[i + 1].i = i + 1 /\ q[i + 1].no = no  BY <2>1, <1>2
    <2>3. q[i] # Padding  BY <2>2, <1>1, Beatless
    <2>4. ~Ends(q[i])  BY <2>1, <2>2, <2>3 DEF Ends
    <2> QED  BY <2>2, <2>4 DEF Joined, Follows
  <1>7. Ends(q[Len(q)])
    <2>1. h.len \in 1..h.len  BY <1>1
    <2>2. q[h.len].i = h.len /\ q[h.len].h = h  BY <2>1, <1>2
    <2> QED  BY <2>2, <1>4 DEF Ends
  <1>8. Chain(q)  BY <1>4, <1>5, <1>6, <1>7 DEF Chain
  <1>9. q[1].i = 1  BY <1>1, <1>2
  <1>10. Single(q)  BY <1>2, <1>4 DEF Single, Wavy
  <1>11. h.kind # "wave" => Without(q)  BY <1>2, <1>4 DEF Without, Wavy
  <1> QED  BY <1>4, <1>8, <1>9, <1>10, <1>11 DEF q

\* Waveforms in a queue.
LEMMA WaveTail ==
    ASSUME NEW q \in Seq(Beat), q # <<>>, Single(q)
    PROVE  /\ Single(Tail(q)) /\ (Without(q) => Without(Tail(q)))
           /\ (Wavy(q[1]) => ~Without(q) /\ Without(Tail(q)))
  <1> DEFINE t == Tail(q)
  <1>1. /\ Len(t) = Len(q) - 1 /\ Len(q) \in Nat /\ Len(q) # 0
        /\ \A i \in 1..Len(t) : t[i] = q[i + 1]
    BY HeadTailProperties, LenProperties, EmptySeq
  <1> HIDE DEF t
  <1>2. \A i \in 1..Len(t) : i + 1 \in 1..Len(q) /\ i + 1 # 1 /\ t[i] = q[i + 1] /\ i \in Nat  BY <1>1
  <1>3. 1 \in 1..Len(q)  BY <1>1
  <1>4. Single(t)
    <2> SUFFICES ASSUME NEW j \in 1..Len(t), NEW k \in 1..Len(t), Wavy(t[j]), Wavy(t[k]) PROVE j = k
      BY DEF Single
    <2>1. /\ j + 1 \in 1..Len(q) /\ k + 1 \in 1..Len(q) /\ Wavy(q[j + 1]) /\ Wavy(q[k + 1])
          /\ j \in Nat /\ k \in Nat  BY <1>2
    <2>2. j + 1 = k + 1  BY <2>1 DEF Single
    <2> QED  BY <2>1, <2>2
  <1>5. Without(q) => Without(t)
    <2> SUFFICES ASSUME Without(q), NEW k \in 1..Len(t) PROVE ~Wavy(t[k])  BY DEF Without
    <2> QED  BY <1>2 DEF Without
  <1>6. Wavy(q[1]) => ~Without(q) /\ Without(t)
    <2> SUFFICES ASSUME Wavy(q[1]) PROVE ~Without(q) /\ Without(t)  OBVIOUS
    <2>1. ~Without(q)  BY <1>3 DEF Without
    <2>2. ASSUME NEW k \in 1..Len(t), Wavy(t[k]) PROVE FALSE
      <3>1. k + 1 \in 1..Len(q) /\ k + 1 # 1 /\ Wavy(q[k + 1])  BY <1>2, <2>2
      <3> QED  BY <3>1, <1>3 DEF Single
    <2> QED  BY <2>1, <2>2 DEF Without
  <1> QED  BY <1>4, <1>5, <1>6 DEF t

\* A queue that gets another one behind it, of which one has no waveform.
LEMMA WaveConcat ==
    ASSUME NEW q \in Seq(Beat), NEW r \in Seq(Beat), Single(q), Single(r)
    PROVE  /\ Without(q) /\ Without(r) => Without(q \o r)
           /\ Without(q) \/ Without(r) => Single(q \o r)
  <1> DEFINE c == q \o r
  <1>1. /\ Len(c) = Len(q) + Len(r) /\ Len(q) \in Nat /\ Len(r) \in Nat
        /\ \A i \in 1..(Len(q) + Len(r)) : c[i] = IF i <= Len(q) THEN q[i] ELSE r[i - Len(q)]
    BY ConcatProperties, LenProperties
  <1> HIDE DEF c
  <1>2. \A i \in 1..Len(c) : \/ i \in 1..Len(q) /\ c[i] = q[i]
                             \/ i - Len(q) \in 1..Len(r) /\ c[i] = r[i - Len(q)]
    BY <1>1
  <1>3. Without(q) /\ Without(r) => Without(c)
    <2> SUFFICES ASSUME Without(q), Without(r), NEW i \in 1..Len(c) PROVE ~Wavy(c[i])  BY DEF Without
    <2> QED  BY <1>2 DEF Without
  <1>4. Without(q) \/ Without(r) => Single(c)
    <2> SUFFICES ASSUME Without(q) \/ Without(r), NEW j \in 1..Len(c), NEW k \in 1..Len(c), Wavy(c[j]), Wavy(c[k])
                 PROVE j = k
      BY DEF Single
    <2>1. CASE Without(q)
      <3>1. ~(j \in 1..Len(q) /\ c[j] = q[j]) /\ ~(k \in 1..Len(q) /\ c[k] = q[k])  BY <2>1 DEF Without
      <3>2. /\ j - Len(q) \in 1..Len(r) /\ Wavy(r[j - Len(q)])
            /\ k - Len(q) \in 1..Len(r) /\ Wavy(r[k - Len(q)])  BY <3>1, <1>2
      <3>3. j - Len(q) = k - Len(q)  BY <3>2 DEF Single
      <3> QED  BY <3>3, <1>1
    <2>2. CASE Without(r)
      <3>1. ~(j - Len(q) \in 1..Len(r) /\ c[j] = r[j - Len(q)]) /\ ~(k - Len(q) \in 1..Len(r) /\ c[k] = r[k - Len(q)])
        BY <2>2 DEF Without
      <3>2. j \in 1..Len(q) /\ Wavy(q[j]) /\ k \in 1..Len(q) /\ Wavy(q[k])  BY <3>1, <1>2
      <3> QED  BY <3>2 DEF Single
    <2> QED  BY <2>1, <2>2
  <1> QED  BY <1>3, <1>4 DEF c

-----------------------------------------------------------------------------
(* pkt_dispatcher.v: what a cycle does to the sources and to the outputs.  *)

\* Where a header sends its packet: only a waveform to the memory, only a block to the flash.
LEMMA RouteIs ==
    ASSUME NEW h
    PROVE  /\ RouteOf(h) \in Routes
           /\ "ddr" \in RouteOf(h) => h.kind = "wave"
           /\ "flash" \in RouteOf(h) => h.kind = "flash"
  BY DEF RouteOf, Routes

\* The outputs of a route; the memory never shares a packet.
LEMMA RoutesIs ==
    ASSUME NEW r \in Routes
    PROVE  r \subseteq Ports /\ ("ddr" \in r => r = {"ddr"})
  BY DEF Routes, Ports

\* A source gives a beat.
LEMMA Consumed ==
    ASSUME DispatcherTypeOK, Sourced, NEW s \in Sources, source[s] # <<>>, Consume(s)
    PROVE  /\ source' \in [Sources -> Seq(Beat)] /\ \A x \in Sources : Chain(source'[x])
           /\ \A x \in Sources : x # s => source'[x] = source[x]
           /\ source'[s] = Tail(source[s]) /\ Queued(source[s][1])
           /\ IF source[s][1].i = source[s][1].h.len \/ source[s][1].h.len = 0
                THEN source'[s] # <<>> => source'[s][1].i = 1
                ELSE /\ source'[s] # <<>> /\ Good(source'[s][1])
                     /\ Follows(source'[s][1], source[s][1])
  <1>1. PICK q : q = source[s]  OBVIOUS
  <1>2. q \in Seq(Beat) /\ q # <<>> /\ Chain(q)  BY <1>1 DEF DispatcherTypeOK, Sourced
  <1>3. PICK t : t = Tail(q)  OBVIOUS
  <1>4. /\ t \in Seq(Beat) /\ Chain(t) /\ Queued(q[1])
        /\ t # <<>> => Queued(t[1]) /\ Joined(q[1], t[1])
        /\ t = <<>> => Ends(q[1])
    BY <1>2, <1>3, ChainTail
  <1>5. source \in [Sources -> Seq(Beat)]  BY DEF DispatcherTypeOK
  <1>6. source' = [source EXCEPT ![s] = t]  BY <1>1, <1>3 DEF Consume
  <1>7. source'[s] = t /\ \A x \in Sources : x # s => source'[x] = source[x]  BY <1>5, <1>6
  <1>8. source' \in [Sources -> Seq(Beat)]  BY <1>4, <1>5, <1>6
  <1>9. \A x \in Sources : Chain(source'[x])  BY <1>7, <1>4 DEF Sourced
  <1>10. IF q[1].i = q[1].h.len \/ q[1].h.len = 0 THEN t # <<>> => t[1].i = 1
         ELSE t # <<>> /\ Good(t[1]) /\ Follows(t[1], q[1])
    <2>1. CASE q[1].i = q[1].h.len \/ q[1].h.len = 0  BY <2>1, <1>4, FirstIs
    <2>2. CASE ~(q[1].i = q[1].h.len \/ q[1].h.len = 0)
      <3>1. ~Ends(q[1])  BY <2>2, Beatless DEF Ends
      <3>2. t # <<>>  BY <3>1, <1>4
      <3>3. Good(t[1]) /\ Follows(t[1], q[1])  BY <3>2, <2>2, <1>4, NextIs
      <3> QED  BY <2>2, <3>2, <3>3
    <2> QED  BY <2>1, <2>2
  <1> QED  BY <1>1, <1>3, <1>4, <1>7, <1>8, <1>9, <1>10

\* What an output shows and has handed over after a cycle.
Shown(p, outs, b) ==
    /\ (p \in outs /\ port'[p] = b) \/ port'[p] = NoBeat \/ port'[p] = port[p]
    /\ taken'[p] = taken[p] \/ (port[p] # NoBeat /\ taken'[p] = port[p])
    /\ Honest(p)' => /\ Honest(p)
                     /\ p \in outs => port'[p] = b /\ taken'[p] = LastOf(p)
                     /\ p \notin outs => /\ IF port'[p] # NoBeat THEN port'[p] = port[p] /\ taken'[p] = taken[p]
                                            ELSE taken'[p] = LastOf(p)

\* A put does that to every output.
LEMMA Puts ==
    ASSUME NEW outs, NEW b, NEW last \in BOOLEAN, NEW ready, Put(outs, b, last, ready),
           DispatcherTypeOK, NEW p \in Ports, p \in outs => CanAccept(p, ready)
    PROVE  Shown(p, outs, b)
  <1>1. /\ port'[p] = IF p \in outs /\ (p = "tx" => up) THEN b
                      ELSE IF p \in ready \/ (p = "tx" /\ TimedOut(ready)) THEN NoBeat ELSE port[p]
        /\ taken'[p] = IF p \in ready /\ port[p] # NoBeat THEN port[p] ELSE taken[p]
        /\ lossy' <=> lossy \/ TimedOut(ready) \/ ("tx" \in outs /\ ~up)
    BY DEF Put
  <1>2. Honest(p)' <=> (p = "tx" => ~lossy')  BY DEF Honest
  <1>3. ASSUME Honest(p)'
        PROVE  /\ Honest(p)
               /\ p \in outs => port'[p] = b /\ taken'[p] = LastOf(p)
               /\ p \notin outs => IF port'[p] # NoBeat THEN port'[p] = port[p] /\ taken'[p] = taken[p]
                                   ELSE taken'[p] = LastOf(p)
    <2>1. p = "tx" => ~lossy /\ ~TimedOut(ready) /\ ~("tx" \in outs /\ ~up)  BY <1>1, <1>2, <1>3
    <2>2. Honest(p)  BY <2>1 DEF Honest
    <2>3. ASSUME p \in outs PROVE port'[p] = b /\ taken'[p] = LastOf(p)
      <3>1. port[p] = NoBeat \/ p \in ready  BY <2>1, <2>3 DEF CanAccept
      <3> QED  BY <3>1, <2>1, <2>3, <1>1 DEF LastOf
    <2>4. ASSUME p \notin outs PROVE IF port'[p] # NoBeat THEN port'[p] = port[p] /\ taken'[p] = taken[p]
                                     ELSE taken'[p] = LastOf(p)
      BY <2>4, <2>1, <1>1 DEF LastOf
    <2> QED  BY <2>2, <2>3, <2>4
  <1> QED  BY <1>1, <1>3 DEF Shown

\* tx_tlast goes with the beat.
LEMMA PutsLast ==
    ASSUME NEW outs, NEW b, NEW last \in BOOLEAN, NEW ready, Put(outs, b, last, ready),
           DispatcherTypeOK, ~lossy'
    PROVE  /\ "tx" \in outs => (tlast' <=> last)
           /\ "tx" \notin outs /\ port'["tx"] # NoBeat => (tlast' <=> tlast)
  <1>1. /\ port'["tx"] = IF "tx" \in outs /\ up THEN b
                         ELSE IF "tx" \in ready \/ TimedOut(ready) THEN NoBeat ELSE port["tx"]
        /\ tlast' = IF "tx" \in outs /\ up THEN last ELSE tlast /\ "tx" \notin ready /\ ~TimedOut(ready)
        /\ lossy' <=> lossy \/ TimedOut(ready) \/ ("tx" \in outs /\ ~up)
    BY DEF Put, Ports
  <1>2. ~TimedOut(ready) /\ ~("tx" \in outs /\ ~up)  BY <1>1
  <1>3. "tx" \in outs => (tlast' <=> last)  BY <1>1, <1>2
  <1>4. "tx" \notin outs /\ port'["tx"] # NoBeat => (tlast' <=> tlast)
    <2> SUFFICES ASSUME "tx" \notin outs, port'["tx"] # NoBeat PROVE tlast' <=> tlast  OBVIOUS
    <2>1. "tx" \notin ready  BY <1>1
    <2> QED  BY <2>1, <1>1, <1>2
  <1> QED  BY <1>3, <1>4

\* What an output shows and has handed over stays typed.
LEMMA PutsTypes ==
    ASSUME NEW outs, NEW b \in Beat, NEW last \in BOOLEAN, NEW ready, Put(outs, b, last, ready),
           DispatcherTypeOK
    PROVE  /\ port' \in [Ports -> Beat] /\ tlast' \in BOOLEAN /\ stall' \in 0..TxTimeout
           /\ taken' \in [Ports -> Beat] /\ lossy' \in BOOLEAN
  <1>1. /\ port \in [Ports -> Beat] /\ tlast \in BOOLEAN /\ stall \in 0..TxTimeout
        /\ taken \in [Ports -> Beat] /\ lossy \in BOOLEAN
    BY DEF DispatcherTypeOK
  <1>2. port' \in [Ports -> Beat]  BY <1>1, Beatless DEF Put
  <1>3. taken' \in [Ports -> Beat]  BY <1>1 DEF Put
  <1>4. tlast' \in BOOLEAN /\ lossy' \in BOOLEAN  BY <1>1 DEF Put
  <1>5. stall' \in 0..TxTimeout
    <2>1. stall' = IF ~Stalled(ready) THEN 0 ELSE IF TimedOut(ready) THEN stall ELSE stall + 1  BY DEF Put
    <2>2. TimedOut(ready) <=> Stalled(ready) /\ stall >= TxTimeout  BY DEF TimedOut
    <2> QED  BY <2>1, <2>2, <1>1, Constants
  <1> QED  BY <1>2, <1>3, <1>4, <1>5

\* A beat with its own bit set is as good as before.
LEMMA Owned ==
    ASSUME NEW b, Good(b), NEW yes \in BOOLEAN
    PROVE  LET c == [b EXCEPT !.own = yes] IN
           Good(c) /\ c.h = b.h /\ c.i = b.i /\ c.no = b.no /\ c.own = yes
  <1> DEFINE c == [b EXCEPT !.own = yes]
  <1>1. b \in Beat  BY DEF Good
  <1>2. c \in Beat /\ c.h = b.h /\ c.i = b.i /\ c.no = b.no /\ c.own = yes  BY <1>1 DEF Beat
  <1> HIDE DEF c
  <1>3. Good(c)  BY <1>2 DEF Good
  <1> QED  BY <1>2, <1>3 DEF c

\* ST_IDLE and the sources.
LEMMA HeaderSourced ==
    ASSUME DispatcherTypeOK, Sourced, NEW see \in SUBSET Waiting, NEW ready, DispatchHeader(see, ready)
    PROVE  /\ Sourced' /\ source' \in [Sources -> Seq(Beat)] /\ state' \in {"idle", "data"}
           /\ remaining' \in Nat /\ from' \in Sources /\ subst' \in BOOLEAN
  <1>1. PICK s : s = Chosen(see)  OBVIOUS
  <1>2. state = "idle" /\ s \in see  BY <1>1 DEF DispatchHeader, Fires
  <1>3. s \in Sources /\ source[s] # <<>>  BY <1>2 DEF Waiting
  <1>4. PICK b : b = source[s][1]  OBVIOUS
  <1>5. /\ Consume(s) /\ route' = RouteOf(b.h) /\ from' = s
        /\ subst' = (s = "fp" /\ b.h.kind = "assign" /\ b.h.len > 1)
        /\ IF b.h.len > 1 THEN state' = "data" /\ remaining' = b.h.len - 1 ELSE UNCHANGED <<state, remaining>>
    BY <1>1, <1>4 DEF DispatchHeader
  <1>6. /\ source' \in [Sources -> Seq(Beat)] /\ \A x \in Sources : Chain(source'[x])
        /\ \A x \in Sources : x # s => source'[x] = source[x]
        /\ Queued(b)
        /\ IF b.i = b.h.len \/ b.h.len = 0 THEN source'[s] # <<>> => source'[s][1].i = 1
           ELSE source'[s] # <<>> /\ Good(source'[s][1]) /\ Follows(source'[s][1], b)
    BY <1>3, <1>4, <1>5, Consumed
  <1>7. b.i = 1 /\ b.h.len \in Nat
    <2>1. b.i = 1  BY <1>2, <1>3, <1>4, SMT DEF Sourced
    <2> QED  BY <2>1, <1>6, QueuedIs
  <1>8. \A x \in Sources : source'[x] # <<>> /\ ~(state' = "data" /\ from' = x) => source'[x][1].i = 1
    <2> SUFFICES ASSUME NEW x \in Sources, source'[x] # <<>>, ~(state' = "data" /\ from' = x)
                 PROVE source'[x][1].i = 1
      OBVIOUS
    <2>1. CASE x # s
      <3>1. source'[x] = source[x]  BY <2>1, <1>6
      <3> QED  BY <3>1, <1>2 DEF Sourced
    <2>2. CASE x = s
      <3>1. ~(b.h.len > 1)  BY <2>2, <1>5
      <3>2. b.i = b.h.len \/ b.h.len = 0  BY <3>1, <1>7
      <3> QED  BY <3>2, <2>2, <1>6
    <2> QED  BY <2>1, <2>2
  <1>9. route' \in Routes  BY <1>5, RouteIs
  <1>10. ASSUME state' = "data"
         PROVE  /\ source'[from'] # <<>> /\ Good(source'[from'][1]) /\ source'[from'][1].i >= 2
                /\ remaining' = source'[from'][1].h.len - source'[from'][1].i + 1
                /\ "ddr" \in route' => source'[from'][1].h.kind = "wave"
                /\ "flash" \in route' => source'[from'][1].h.kind = "flash"
    <2>1. b.h.len > 1 /\ remaining' = b.h.len - 1 /\ from' = s  BY <1>10, <1>2, <1>5
    <2>2. ~(b.i = b.h.len \/ b.h.len = 0)  BY <2>1, <1>7
    <2>3. PICK n : n = source'[s][1]  OBVIOUS
    <2>4. source'[s] # <<>> /\ Good(n) /\ Follows(n, b)  BY <2>2, <2>3, <1>6
    <2>5. n.h = b.h /\ n.i = 2  BY <2>4, <1>7 DEF Follows
    <2>6. remaining' = n.h.len - n.i + 1  BY <2>1, <2>5, <1>7
    <2>7. ("ddr" \in route' => n.h.kind = "wave") /\ ("flash" \in route' => n.h.kind = "flash")
      BY <2>5, <1>5, RouteIs
    <2> QED  BY <2>1, <2>3, <2>4, <2>5, <2>6, <2>7
  <1>11. Sourced'  BY <1>6, <1>8, <1>9, <1>10 DEF Sourced, Next1
  <1>12. state' \in {"idle", "data"} /\ remaining' \in Nat /\ subst' \in BOOLEAN
    <2>1. CASE b.h.len > 1  BY <2>1, <1>5, <1>7
    <2>2. CASE ~(b.h.len > 1)  BY <2>2, <1>5 DEF DispatcherTypeOK
    <2> QED  BY <2>1, <2>2
  <1> QED  BY <1>11, <1>12, <1>6, <1>5, <1>3

\* ST_DATA and the sources.
LEMMA DataSourced ==
    ASSUME DispatcherTypeOK, Sourced, NEW see \in SUBSET Waiting, NEW ready, DispatchData(see, ready)
    PROVE  /\ Sourced' /\ source' \in [Sources -> Seq(Beat)] /\ state' \in {"idle", "data"}
           /\ remaining' \in Nat /\ from' \in Sources /\ subst' \in BOOLEAN
  <1>1. PICK b : b = source[from][1]  OBVIOUS
  <1>2. /\ state = "data" /\ from \in Sources /\ source[from] # <<>>
        /\ Consume(from) /\ remaining' = remaining - 1 /\ state' = IF remaining = 1 THEN "idle" ELSE "data"
        /\ subst' = FALSE /\ route' = route /\ from' = from
    BY DEF DispatchData, Chosen, DispatcherTypeOK, Sourced
  <1>3. /\ source' \in [Sources -> Seq(Beat)] /\ \A x \in Sources : Chain(source'[x])
        /\ \A x \in Sources : x # from => source'[x] = source[x]
        /\ IF b.i = b.h.len \/ b.h.len = 0 THEN source'[from] # <<>> => source'[from][1].i = 1
           ELSE source'[from] # <<>> /\ Good(source'[from][1]) /\ Follows(source'[from][1], b)
    BY <1>1, <1>2, Consumed
  <1>4. /\ Good(b) /\ b.i >= 2 /\ remaining = b.h.len - b.i + 1
        /\ "ddr" \in route => b.h.kind = "wave"
        /\ "flash" \in route => b.h.kind = "flash"
        /\ route \in Routes
    BY <1>1, <1>2 DEF Sourced, Next1
  <1>5. b.i \in Nat /\ b.h.len \in Nat /\ b.i <= b.h.len /\ b.h.len # 0  BY <1>4, GoodIs
  <1>6. remaining = 1 <=> b.i = b.h.len  BY <1>4, <1>5
  <1>7. \A x \in Sources : source'[x] # <<>> /\ ~(state' = "data" /\ from' = x) => source'[x][1].i = 1
    <2> SUFFICES ASSUME NEW x \in Sources, source'[x] # <<>>, ~(state' = "data" /\ from' = x)
                 PROVE source'[x][1].i = 1
      OBVIOUS
    <2>1. CASE x # from
      <3>1. source'[x] = source[x]  BY <2>1, <1>3
      <3> QED  BY <3>1, <2>1, <1>2 DEF Sourced
    <2>2. CASE x = from
      <3>1. b.i = b.h.len  BY <2>2, <1>2, <1>6
      <3> QED  BY <3>1, <2>2, <1>3
    <2> QED  BY <2>1, <2>2
  <1>8. ASSUME state' = "data"
        PROVE  /\ source'[from'] # <<>> /\ Good(source'[from'][1]) /\ source'[from'][1].i >= 2
               /\ remaining' = source'[from'][1].h.len - source'[from'][1].i + 1
               /\ "ddr" \in route' => source'[from'][1].h.kind = "wave"
               /\ "flash" \in route' => source'[from'][1].h.kind = "flash"
    <2>1. b.i # b.h.len  BY <1>8, <1>2, <1>6
    <2>2. PICK n : n = source'[from][1]  OBVIOUS
    <2>3. source'[from] # <<>> /\ Good(n) /\ Follows(n, b)  BY <2>1, <2>2, <1>3, <1>5
    <2>4. n.h = b.h /\ n.i = b.i + 1  BY <2>3 DEF Follows
    <2>5. remaining' = n.h.len - n.i + 1 /\ n.i >= 2  BY <2>4, <1>2, <1>4, <1>5
    <2> QED  BY <2>2, <2>3, <2>4, <2>5, <1>2, <1>4
  <1>9. Sourced'  BY <1>2, <1>3, <1>4, <1>7, <1>8 DEF Sourced, Next1
  <1>10. remaining' \in Nat  BY <1>2, <1>4, <1>5
  <1> QED  BY <1>2, <1>3, <1>9, <1>10

\* Nothing dispatched.
LEMMA NothingSourced ==
    ASSUME DispatcherTypeOK, Sourced, NEW see, NEW ready, DispatchNothing(see, ready)
    PROVE  /\ Sourced' /\ source' \in [Sources -> Seq(Beat)] /\ state' \in {"idle", "data"}
           /\ remaining' \in Nat /\ from' \in Sources /\ subst' \in BOOLEAN
  BY DEF DispatchNothing, Sourced, Next1, DispatcherTypeOK

-----------------------------------------------------------------------------
(* pkt_dispatcher.v: each output goes on where it stopped.                 *)

\* PutOut, of one output.
LEMMA PutOutIs ==
    ASSUME PutOut, NEW p \in Ports
    PROVE  /\ port[p] = NoBeat \/ For(p, port[p])
           /\ taken[p] = NoBeat \/ For(p, taken[p])
           /\ Honest(p) => InStep(p)
  BY DEF PutOut

\* An output that gets nothing.
LEMMA IdleOutput ==
    ASSUME PutOut, NEW p \in Ports, NEW outs, NEW b, Shown(p, outs, b), p \notin outs,
           p = "tx" /\ ~lossy' /\ port'["tx"] # NoBeat => (tlast' <=> tlast),
           state = "data" /\ p \in route <=> state' = "data" /\ p \in route',
           state' = "data" /\ p \in route' => Next1' = Next1 /\ subst' = subst
    PROVE  /\ port'[p] = NoBeat \/ For(p, port'[p])
           /\ taken'[p] = NoBeat \/ For(p, taken'[p])
           /\ Honest(p)' => InStep(p)'
  <1>1. PICK l : l = LastOf(p)  OBVIOUS
  <1>2. /\ port[p] = NoBeat \/ For(p, port[p])
        /\ taken[p] = NoBeat \/ For(p, taken[p])
        /\ Honest(p) => InStep(p)
    BY PutOutIs
  <1>3. port'[p] = NoBeat \/ For(p, port'[p])  BY <1>2 DEF Shown
  <1>4. taken'[p] = NoBeat \/ For(p, taken'[p])  BY <1>2 DEF Shown
  <1>5. ASSUME Honest(p)' PROVE InStep(p)'
    <2>1. /\ Honest(p) /\ InStep(p)
          /\ IF port'[p] # NoBeat THEN port'[p] = port[p] /\ taken'[p] = taken[p] ELSE taken'[p] = l
      BY <1>1, <1>2, <1>5 DEF Shown
    <2>2. LastOf(p)' = l  BY <2>1, <1>1 DEF LastOf
    <2>3. port'[p] # NoBeat => Meets(taken[p], port[p])' /\ Meets(taken'[p], port'[p])
      BY <2>1 DEF InStep
    <2>4. IF state' = "data" /\ p \in route'
            THEN l.i # l.h.len /\ Follows(Next1', l) /\ (subst' <=> Numbers(l))
            ELSE l.i = l.h.len
      BY <2>1, <1>1 DEF InStep
    <2>5. p = "tx" /\ port'[p] # NoBeat => (tlast' <=> port'[p].i = port'[p].h.len)
      BY <2>1, <1>5 DEF InStep, Honest
    <2> QED  BY <2>2, <2>3, <2>4, <2>5 DEF InStep
  <1> QED  BY <1>3, <1>4, <1>5

\* An output that gets a beat.
LEMMA FedOutput ==
    ASSUME PutOut, NEW p \in Ports, NEW outs, NEW c, Shown(p, outs, c), p \in outs, For(p, c),
           p = "tx" /\ ~lossy' => (tlast' <=> c.i = c.h.len),
           Honest(p) => Meets(LastOf(p), c),
           state' = "data" /\ p \in route' => c.i # c.h.len /\ Follows(Next1', c) /\ (subst' <=> Numbers(c)),
           ~(state' = "data" /\ p \in route') => c.i = c.h.len
    PROVE  /\ port'[p] = NoBeat \/ For(p, port'[p])
           /\ taken'[p] = NoBeat \/ For(p, taken'[p])
           /\ Honest(p)' => InStep(p)'
  <1>1. /\ port[p] = NoBeat \/ For(p, port[p])
        /\ taken[p] = NoBeat \/ For(p, taken[p])
    BY PutOutIs
  <1>2. port'[p] = NoBeat \/ For(p, port'[p])  BY <1>1 DEF Shown
  <1>3. taken'[p] = NoBeat \/ For(p, taken'[p])  BY <1>1 DEF Shown
  <1>4. ASSUME Honest(p)' PROVE InStep(p)'
    <2>1. Honest(p) /\ port'[p] = c /\ taken'[p] = LastOf(p)  BY <1>4 DEF Shown
    <2>2. c # NoBeat  BY GoodIs DEF For
    <2>3. LastOf(p)' = c  BY <2>1, <2>2 DEF LastOf
    <2>4. Meets(taken'[p], port'[p])  BY <2>1
    <2>5. IF state' = "data" /\ p \in route'
            THEN c.i # c.h.len /\ Follows(Next1', c) /\ (subst' <=> Numbers(c)) ELSE c.i = c.h.len
      OBVIOUS
    <2>6. p = "tx" /\ port'[p] # NoBeat => (tlast' <=> port'[p].i = port'[p].h.len)
      BY <2>1, <1>4 DEF Honest
    <2> QED  BY <2>3, <2>4, <2>5, <2>6 DEF InStep
  <1> QED  BY <1>2, <1>3, <1>4

\* ST_IDLE and the outputs.
LEMMA HeaderPut ==
    ASSUME DispatcherTypeOK, Sourced, PutOut, NEW see \in SUBSET Waiting, NEW ready, DispatchHeader(see, ready)
    PROVE  PutOut' /\ DispatcherTypeOK'
  <1>1. PICK s : s = Chosen(see)  OBVIOUS
  <1>2. state = "idle" /\ s \in see  BY <1>1 DEF DispatchHeader, Fires
  <1>3. s \in Sources /\ source[s] # <<>>  BY <1>2 DEF Waiting
  <1>4. PICK b : b = source[s][1]  OBVIOUS
  <1>5. PICK yes \in BOOLEAN : yes = (s = "fp")  OBVIOUS
  <1>6. PICK c : c = [b EXCEPT !.own = yes]  OBVIOUS
  <1>7. PICK outs : outs = Outputs(b)  OBVIOUS
  <1>8. PICK last \in BOOLEAN : last = (b.h.len = 1)  OBVIOUS
  <1>9. /\ Consume(s) /\ route' = RouteOf(b.h) /\ from' = s
        /\ subst' = (s = "fp" /\ b.h.kind = "assign" /\ b.h.len > 1)
        /\ IF b.h.len > 1 THEN state' = "data" /\ remaining' = b.h.len - 1 ELSE UNCHANGED <<state, remaining>>
        /\ \A p \in outs : CanAccept(p, ready)
    BY <1>1, <1>4, <1>7 DEF DispatchHeader, Fires
  <1>10. Put(outs, c, last, ready)
    <2>1. Put(Outputs(b), [b EXCEPT !.own = (s = "fp")], b.h.len = 1, ready)  BY <1>1, <1>4 DEF DispatchHeader
    <2> QED  BY <2>1, <1>5, <1>6, <1>7, <1>8
  <1>11. /\ Queued(b)
         /\ IF b.i = b.h.len \/ b.h.len = 0 THEN source'[s] # <<>> => source'[s][1].i = 1
            ELSE source'[s] # <<>> /\ Good(source'[s][1]) /\ Follows(source'[s][1], b)
    BY <1>3, <1>4, <1>9, Consumed
  <1>12. b.i = 1 /\ b.h.len \in Nat
    <2>1. b.i = 1  BY <1>2, <1>3, <1>4, SMT DEF Sourced
    <2> QED  BY <2>1, <1>11, QueuedIs
  <1>13. c \in Beat /\ c.h = b.h /\ c.i = 1 /\ c.no = b.no /\ c.own = yes
    <2>1. b \in Beat  BY <1>11, QueuedIs
    <2> QED  BY <2>1, <1>5, <1>6, <1>12 DEF Beat
  <1>14. b.h.len # 0 => Good(c)
    <2>1. b.h.len # 0 => Good(b)  BY <1>11, QueuedIs
    <2> QED  BY <2>1, <1>6, Owned
  <1>15. \A p \in Ports : Shown(p, outs, c)  BY <1>9, <1>10, Puts
  <1>16. ASSUME ~lossy'
         PROVE  /\ "tx" \in outs => (tlast' <=> last)
                /\ "tx" \notin outs /\ port'["tx"] # NoBeat => (tlast' <=> tlast)
    BY <1>10, <1>16, PutsLast
  <1>17. outs = IF b.h.len = 0 THEN {} ELSE route'  BY <1>2, <1>7, <1>9 DEF Outputs
  <1>18. ASSUME NEW p \in Ports
         PROVE  /\ port'[p] = NoBeat \/ For(p, port'[p])
                /\ taken'[p] = NoBeat \/ For(p, taken'[p])
                /\ Honest(p)' => InStep(p)'
    <2>1. CASE p \notin outs
      <3>1. ~(state = "data" /\ p \in route) /\ ~(state' = "data" /\ p \in route')
        BY <2>1, <1>2, <1>9, <1>12, <1>17
      <3>2. p = "tx" /\ ~lossy' /\ port'["tx"] # NoBeat => (tlast' <=> tlast)  BY <2>1, <1>16
      <3> QED  BY <2>1, <3>1, <3>2, <1>15, IdleOutput
    <2>2. CASE p \in outs
      <3>1. b.h.len # 0 /\ p \in route' /\ Good(c)  BY <2>2, <1>14, <1>17
      <3>2. For(p, c)  BY <3>1, <1>9, <1>13, RouteIs DEF For
      <3>3. p = "tx" /\ ~lossy' => (tlast' <=> c.i = c.h.len)
        <4>1. last <=> c.i = c.h.len  BY <1>8, <1>13
        <4> QED  BY <4>1, <2>2, <1>16
      <3>4. Honest(p) => Meets(LastOf(p), c)
        <4>1. Honest(p) => LastOf(p).i = LastOf(p).h.len  BY <1>2, PutOutIs DEF InStep
        <4> QED  BY <4>1, <1>13 DEF Meets
      <3>5. ASSUME state' = "data"
            PROVE  c.i # c.h.len /\ Follows(Next1', c) /\ (subst' <=> Numbers(c))
        <4>1. b.h.len > 1  BY <3>5, <1>2, <1>9
        <4>2. c.i # c.h.len /\ ~(b.i = b.h.len \/ b.h.len = 0)  BY <4>1, <1>12, <1>13
        <4>3. Follows(source'[s][1], b) /\ Next1' = source'[s][1]  BY <4>2, <1>9, <1>11 DEF Next1
        <4>4. Follows(Next1', c)  BY <4>3, <1>12, <1>13 DEF Follows
        <4>5. subst' <=> Numbers(c)  BY <4>1, <1>5, <1>9, <1>13 DEF Numbers
        <4> QED  BY <4>2, <4>4, <4>5
      <3>6. state' # "data" => c.i = c.h.len  BY <3>1, <1>9, <1>12, <1>13
      <3> QED  BY <2>2, <3>1, <3>2, <3>3, <3>4, <3>5, <3>6, <1>15, FedOutput
    <2> QED  BY <2>1, <2>2
  <1>19. PutOut'  BY <1>18 DEF PutOut
  <1>20. /\ source' \in [Sources -> Seq(Beat)] /\ state' \in {"idle", "data"}
         /\ remaining' \in Nat /\ from' \in Sources /\ subst' \in BOOLEAN /\ route' \in Routes
    BY HeaderSourced DEF Sourced
  <1>21. /\ port' \in [Ports -> Beat] /\ tlast' \in BOOLEAN /\ stall' \in 0..TxTimeout
         /\ taken' \in [Ports -> Beat] /\ lossy' \in BOOLEAN
    BY <1>10, <1>13, PutsTypes
  <1>22. route' \subseteq Ports  BY <1>20, RoutesIs
  <1>23. DispatcherTypeOK'  BY <1>20, <1>21, <1>22 DEF DispatcherTypeOK
  <1> QED  BY <1>19, <1>23

\* ST_DATA and the outputs.
LEMMA DataPut ==
    ASSUME DispatcherTypeOK, Sourced, PutOut, NEW see \in SUBSET Waiting, NEW ready, DispatchData(see, ready)
    PROVE  PutOut' /\ DispatcherTypeOK'
  <1>1. PICK b : b = source[from][1]  OBVIOUS
  <1>2. PICK yes \in BOOLEAN : yes = subst  BY DEF DispatcherTypeOK
  <1>3. PICK c : c = [b EXCEPT !.own = yes]  OBVIOUS
  <1>4. PICK outs : outs = Outputs(b)  OBVIOUS
  <1>5. PICK last \in BOOLEAN : last = (remaining = 1)  OBVIOUS
  <1>6. /\ state = "data" /\ from \in Sources /\ source[from] # <<>>
        /\ Consume(from) /\ remaining' = remaining - 1 /\ state' = IF remaining = 1 THEN "idle" ELSE "data"
        /\ subst' = FALSE /\ route' = route /\ from' = from
        /\ \A p \in outs : CanAccept(p, ready)
    BY <1>1, <1>4 DEF DispatchData, Fires, Chosen, DispatcherTypeOK, Sourced
  <1>7. Put(outs, c, last, ready)
    <2>1. Put(Outputs(b), [b EXCEPT !.own = subst], remaining = 1, ready)
      BY <1>1, <1>6 DEF DispatchData, Chosen
    <2> QED  BY <2>1, <1>2, <1>3, <1>4, <1>5
  <1>8. IF b.i = b.h.len \/ b.h.len = 0 THEN source'[from] # <<>> => source'[from][1].i = 1
        ELSE source'[from] # <<>> /\ Good(source'[from][1]) /\ Follows(source'[from][1], b)
    BY <1>1, <1>6, Consumed
  <1>9. /\ Good(b) /\ b.i >= 2 /\ remaining = b.h.len - b.i + 1
        /\ "ddr" \in route => b.h.kind = "wave"
        /\ "flash" \in route => b.h.kind = "flash"
        /\ route \in Routes
    BY <1>1, <1>6 DEF Sourced, Next1
  <1>10. b.i \in Nat /\ b.h.len \in Nat /\ b.i <= b.h.len /\ b.h.len # 0  BY <1>9, GoodIs
  <1>11. remaining = 1 <=> b.i = b.h.len  BY <1>9, <1>10
  <1>12. Good(c) /\ c.h = b.h /\ c.i = b.i /\ c.no = b.no /\ c.own = yes  BY <1>2, <1>3, <1>9, Owned
  <1>13. \A p \in Ports : Shown(p, outs, c)  BY <1>6, <1>7, Puts
  <1>14. ASSUME ~lossy'
         PROVE  /\ "tx" \in outs => (tlast' <=> last)
                /\ "tx" \notin outs /\ port'["tx"] # NoBeat => (tlast' <=> tlast)
    BY <1>7, <1>14, PutsLast
  <1>15. outs = route  BY <1>4, <1>6 DEF Outputs
  <1>16. ASSUME NEW p \in Ports
         PROVE  /\ port'[p] = NoBeat \/ For(p, port'[p])
                /\ taken'[p] = NoBeat \/ For(p, taken'[p])
                /\ Honest(p)' => InStep(p)'
    <2>1. CASE p \notin outs
      <3>1. p \notin route /\ p \notin route'  BY <2>1, <1>6, <1>15
      <3>2. p = "tx" /\ ~lossy' /\ port'["tx"] # NoBeat => (tlast' <=> tlast)  BY <2>1, <1>14
      <3> QED  BY <2>1, <3>1, <3>2, <1>13, IdleOutput
    <2>2. CASE p \in outs
      <3>1. p \in route /\ p \in route'  BY <2>2, <1>6, <1>15
      <3>2. For(p, c)  BY <3>1, <1>9, <1>12 DEF For
      <3>3. p = "tx" /\ ~lossy' => (tlast' <=> c.i = c.h.len)
        <4>1. last <=> c.i = c.h.len  BY <1>5, <1>11, <1>12
        <4> QED  BY <4>1, <2>2, <1>14
      <3>4. Honest(p) => Meets(LastOf(p), c)
        <4> SUFFICES ASSUME Honest(p) PROVE Meets(LastOf(p), c)  OBVIOUS
        <4>1. PICK l : l = LastOf(p)  OBVIOUS
        <4>2. l.i # l.h.len /\ Follows(b, l) /\ (yes <=> Numbers(l))
          BY <3>1, <4>1, <1>1, <1>2, <1>6, PutOutIs DEF InStep, Next1
        <4>3. Follows(c, l)  BY <4>2, <1>12 DEF Follows
        <4>4. Meets(l, c)  BY <4>2, <4>3, <1>12 DEF Meets
        <4> QED  BY <4>1, <4>4
      <3>5. ASSUME state' = "data"
            PROVE  c.i # c.h.len /\ Follows(Next1', c) /\ (subst' <=> Numbers(c))
        <4>1. b.i # b.h.len  BY <3>5, <1>6, <1>11
        <4>2. Follows(source'[from][1], b) /\ Next1' = source'[from][1]  BY <4>1, <1>6, <1>8, <1>10 DEF Next1
        <4>3. Follows(Next1', c)  BY <4>2, <1>12 DEF Follows
        <4>4. c.i # 1  BY <1>9, <1>10, <1>12
        <4>5. subst' <=> Numbers(c)  BY <4>4, <1>6 DEF Numbers
        <4> QED  BY <4>1, <4>3, <4>5, <1>12
      <3>6. state' # "data" => c.i = c.h.len  BY <1>6, <1>11, <1>12
      <3> QED  BY <2>2, <3>1, <3>2, <3>3, <3>4, <3>5, <3>6, <1>13, FedOutput
    <2> QED  BY <2>1, <2>2
  <1>17. PutOut'  BY <1>16 DEF PutOut
  <1>18. /\ source' \in [Sources -> Seq(Beat)] /\ state' \in {"idle", "data"}
         /\ remaining' \in Nat /\ from' \in Sources /\ subst' \in BOOLEAN
    BY DataSourced
  <1>19. /\ port' \in [Ports -> Beat] /\ tlast' \in BOOLEAN /\ stall' \in 0..TxTimeout
         /\ taken' \in [Ports -> Beat] /\ lossy' \in BOOLEAN
    BY <1>7, <1>12, PutsTypes DEF Good
  <1>20. route' \subseteq Ports  BY <1>6, <1>9, RoutesIs
  <1>21. DispatcherTypeOK'  BY <1>18, <1>19, <1>20 DEF DispatcherTypeOK
  <1> QED  BY <1>17, <1>21

\* Nothing dispatched, and the outputs.
LEMMA NothingPut ==
    ASSUME DispatcherTypeOK, Sourced, PutOut, NEW see, NEW ready, DispatchNothing(see, ready)
    PROVE  PutOut' /\ DispatcherTypeOK'
  <1>1. /\ Put({}, NoBeat, FALSE, ready)
        /\ source' = source /\ state' = state /\ remaining' = remaining /\ route' = route
        /\ from' = from /\ subst' = subst
    BY DEF DispatchNothing
  <1>2. \A p \in Ports : Shown(p, {}, NoBeat)  BY <1>1, Puts
  <1>3. ~lossy' /\ port'["tx"] # NoBeat => (tlast' <=> tlast)  BY <1>1, PutsLast
  <1>4. Next1' = Next1  BY <1>1 DEF Next1
  <1>5. ASSUME NEW p \in Ports
        PROVE  /\ port'[p] = NoBeat \/ For(p, port'[p])
               /\ taken'[p] = NoBeat \/ For(p, taken'[p])
               /\ Honest(p)' => InStep(p)'
    <2>1. p \notin {}  OBVIOUS
    <2>2. state = "data" /\ p \in route <=> state' = "data" /\ p \in route'  BY <1>1
    <2> QED  BY <2>1, <2>2, <1>1, <1>2, <1>3, <1>4, IdleOutput
  <1>6. PutOut'  BY <1>5 DEF PutOut
  <1>7. /\ port' \in [Ports -> Beat] /\ tlast' \in BOOLEAN /\ stall' \in 0..TxTimeout
        /\ taken' \in [Ports -> Beat] /\ lossy' \in BOOLEAN
    BY <1>1, Beatless, PutsTypes
  <1>8. DispatcherTypeOK'  BY <1>1, <1>7 DEF DispatcherTypeOK
  <1> QED  BY <1>6, <1>8

-----------------------------------------------------------------------------
(* One waveform at a time, and local_reg_handler.v.                        *)

\* What one cycle carries from the sources to ddr_writer's output.
NothingToDdr(ready) ==
    \/ port'["ddr"] = NoBeat
    \/ "ddr" \notin ready /\ port'["ddr"] = port["ddr"]
Carries(s, b, ready) ==
    /\ s \in Sources /\ source[s] # <<>> /\ b = source[s][1] /\ Consume(s)
    /\ \/ state = "idle" /\ b.i = 1 /\ (state' = "data" => route' = RouteOf(b.h))
       \/ state = "data" /\ b.i >= 2 /\ b.i \in Nat /\ route' = route
    /\ \/ NothingToDdr(ready)
       \/ /\ port'["ddr"].i = b.i
          /\ state = "idle" => b.h.kind = "wave"
          /\ state = "data" => "ddr" \in route

\* A put as ddr_writer's output sees it.
LEMMA DdrPort ==
    ASSUME NEW outs, NEW c, NEW last, NEW ready, Put(outs, c, last, ready)
    PROVE  IF "ddr" \in outs THEN port'["ddr"] = c ELSE NothingToDdr(ready)
  BY DEF Put, NothingToDdr, Ports

\* A cycle moves nothing towards ddr_writer, or one beat of one source.
LEMMA Carried ==
    ASSUME DispatcherTypeOK, Sourced, NEW see \in SUBSET Waiting, NEW ready, Dispatch(see, ready)
    PROVE  \/ source' = source /\ state' = state /\ route' = route /\ NothingToDdr(ready)
           \/ \E s, b : Carries(s, b, ready)
  <1>1. CASE DispatchNothing(see, ready)
    <2>1. source' = source /\ state' = state /\ route' = route /\ Put({}, NoBeat, FALSE, ready)
      BY <1>1 DEF DispatchNothing
    <2>2. NothingToDdr(ready)  BY <2>1, DdrPort
    <2> QED  BY <2>1, <2>2
  <1>2. CASE DispatchHeader(see, ready)
    <2>1. PICK s : s = Chosen(see)  OBVIOUS
    <2>2. state = "idle" /\ s \in see  BY <1>2, <2>1 DEF DispatchHeader, Fires
    <2>3. s \in Sources /\ source[s] # <<>>  BY <2>2 DEF Waiting
    <2>4. PICK b : b = source[s][1]  OBVIOUS
    <2>5. PICK c : c = [b EXCEPT !.own = (s = "fp")]  OBVIOUS
    <2>6. Consume(s) /\ route' = RouteOf(b.h) /\ Put(Outputs(b), c, b.h.len = 1, ready)
      BY <1>2, <2>1, <2>4, <2>5 DEF DispatchHeader
    <2>7. b.i = 1  BY <2>2, <2>3, <2>4, SMT DEF Sourced
    <2>8. Queued(b)  BY <2>3, <2>4, <2>6, Consumed
    <2>9. c.i = 1
      <3>1. b \in Beat  BY <2>8, QueuedIs
      <3> QED  BY <3>1, <2>5, <2>7 DEF Beat
    <2>10. "ddr" \in Outputs(b) => b.h.kind = "wave"
      <3>1. "ddr" \in Outputs(b) => "ddr" \in RouteOf(b.h)  BY <2>2 DEF Outputs
      <3> QED  BY <3>1, RouteIs
    <2>11. IF "ddr" \in Outputs(b) THEN port'["ddr"] = c ELSE NothingToDdr(ready)  BY <2>6, DdrPort
    <2>12. Carries(s, b, ready)  BY <2>2, <2>3, <2>4, <2>6, <2>7, <2>9, <2>10, <2>11 DEF Carries
    <2> QED  BY <2>12
  <1>3. CASE DispatchData(see, ready)
    <2>1. PICK b : b = source[from][1]  OBVIOUS
    <2>2. PICK c : c = [b EXCEPT !.own = subst]  OBVIOUS
    <2>3. /\ state = "data" /\ from \in Sources /\ source[from] # <<>> /\ Consume(from) /\ route' = route
          /\ Put(Outputs(b), c, remaining = 1, ready)
      BY <1>3, <2>1, <2>2 DEF DispatchData, Chosen, DispatcherTypeOK, Sourced
    <2>4. Good(b) /\ b.i >= 2  BY <2>1, <2>3 DEF Sourced, Next1
    <2>5. b.i \in Nat /\ b \in Beat  BY <2>4, GoodIs
    <2>6. c.i = b.i  BY <2>2, <2>5 DEF Beat
    <2>7. Outputs(b) = route  BY <2>3 DEF Outputs
    <2>8. IF "ddr" \in Outputs(b) THEN port'["ddr"] = c ELSE NothingToDdr(ready)  BY <2>3, DdrPort
    <2>9. Carries(from, b, ready)  BY <2>1, <2>3, <2>4, <2>5, <2>6, <2>7, <2>8 DEF Carries
    <2> QED  BY <2>9
  <1> QED  BY <1>1, <1>2, <1>3 DEF Dispatch

\* One waveform at a time is on the way.
LEMMA WaveClock ==
    ASSUME DispatcherTypeOK, Sourced, OneWave, NEW see \in SUBSET Waiting, NEW ready, Dispatch(see, ready),
           TakeBeat(port["ddr"]), "ddr" \in ready <=> DdrReady
    PROVE  OneWave'
  <1>1. inState' # "idle" => inState # "idle" \/ port["ddr"] # NoBeat  BY DEF TakeBeat
  <1>2. "ddr" \notin ready => inState = "stream"  BY DEF DdrReady
  <1>3. CASE source' = source /\ state' = state /\ route' = route /\ NothingToDdr(ready)
    <2>1. Busy' => Busy  BY <1>1, <1>3 DEF Busy, NothingToDdr
    <2>2. inState' # "idle" /\ port'["ddr"] # NoBeat => port'["ddr"].i # 1
      BY <1>2, <1>3 DEF NothingToDdr, OneWave
    <2> QED  BY <2>1, <2>2, <1>3 DEF OneWave
  <1>4. ASSUME NEW s, NEW b, Carries(s, b, ready) PROVE OneWave'
    <2>1. s \in Sources /\ source[s] # <<>> /\ b = source[s][1] /\ Consume(s)  BY <1>4 DEF Carries
    <2>2. \A x \in Sources : source[x] \in Seq(Beat) /\ Single(source[x])  BY DEF DispatcherTypeOK, OneWave
    <2>3. /\ Single(Tail(source[s])) /\ (Without(source[s]) => Without(Tail(source[s])))
          /\ (Wavy(b) => ~Without(source[s]) /\ Without(Tail(source[s])))
      BY <2>1, <2>2, WaveTail
    <2>4. source'[s] = Tail(source[s]) /\ \A x \in Sources : x # s => source'[x] = source[x]
      BY <2>1, Consumed
    <2>5. \A x \in Sources : Single(source'[x]) /\ (Without(source[x]) => Without(source'[x]))
      BY <2>2, <2>3, <2>4
    <2>6. CASE state = "idle" /\ Wavy(b)
      <3>1. ~Busy  BY <2>1, <2>3, <2>6 DEF OneWave
      <3>2. inState' = "idle"  BY <3>1, <1>1 DEF Busy
      <3>3. \A x \in Sources : Without(source'[x])
        <4>1. PICK y \in Sources : Without(source[y])  BY DEF OneWave
        <4>2. y # s  BY <4>1, <2>3, <2>6
        <4>3. \A x \in Sources : x = s \/ x = y  BY <4>2, <2>1 DEF Sources
        <4> QED  BY <4>1, <4>3, <2>3, <2>4, <2>5, <2>6
      <3> QED  BY <3>2, <3>3, <2>5 DEF OneWave, Sources
    <2>7. CASE ~(state = "idle" /\ Wavy(b))
      <3>1. NothingToDdr(ready) \/ (port'["ddr"].i = b.i /\ state = "data" /\ "ddr" \in route)
        BY <1>4, <2>7 DEF Carries, Wavy
      <3>2. state' = "data" /\ "ddr" \in route' => state = "data" /\ "ddr" \in route
        <4> SUFFICES ASSUME state' = "data", "ddr" \in route' PROVE state = "data" /\ "ddr" \in route  OBVIOUS
        <4>1. ASSUME state = "idle", b.i = 1, route' = RouteOf(b.h) PROVE FALSE
          <5>1. b.h.kind = "wave"  BY <4>1, RouteIs
          <5> QED  BY <5>1, <4>1, <2>7 DEF Wavy
        <4> QED  BY <4>1, <1>4 DEF Carries
      <3>3. Busy' => Busy  BY <3>1, <3>2, <1>1 DEF Busy, NothingToDdr
      <3>4. inState' # "idle" /\ port'["ddr"] # NoBeat => port'["ddr"].i # 1
        <4>1. CASE NothingToDdr(ready)  BY <4>1, <1>2 DEF NothingToDdr, OneWave
        <4>2. CASE port'["ddr"].i = b.i /\ state = "data" /\ "ddr" \in route
          <5>1. b.i >= 2 /\ b.i \in Nat  BY <4>2, <1>4 DEF Carries
          <5> QED  BY <5>1, <4>2
        <4> QED  BY <4>1, <4>2, <3>1
      <3> QED  BY <3>3, <3>4, <2>5 DEF OneWave
    <2> QED  BY <2>6, <2>7
  <1> QED  BY <1>3, <1>4, Carried
-----------------------------------------------------------------------------
\* local_reg_handler.v.
LocalIn(l, b, m) ==
    /\ l = taken["local"] /\ b = port["local"]
    /\ l = NoBeat \/ Good(l)
    /\ b = NoBeat \/ (Good(b) /\ Meets(l, b))
    /\ m = IF b # NoBeat THEN b ELSE l

\* The variables of the packets and those of the answers.
PacketTypes ==
    /\ lstate \in {"idle", "data"} /\ lremaining \in Nat
    /\ header \in Beat /\ beatIdx \in Nat
    /\ listWord \in [1..2 -> Beat] /\ pulse \in Seq(Beat)
ReplyTypes ==
    reply \in [src : Beat, word : [1..MaxWords -> Beat]] /\ replyWr \in BOOLEAN /\ struck \in BOOLEAN

\* Locally, with the beat handed over last named.
LEMMA LocallyIs ==
    ASSUME Locally, NEW l, l = taken["local"]
    PROVE  /\ lstate = IF l.i = l.h.len THEN "idle" ELSE "data"
           /\ lstate = "data" =>
                /\ header.h = l.h /\ header.no = l.no /\ header.i = 1 /\ (l.i = 1 => header = l)
                /\ lremaining = l.h.len - l.i /\ beatIdx = l.i
                /\ \A k \in 1..(l.i - 1) : k <= Keeps(l) => Kept(l, k)
           /\ pulse # <<>> => lstate = "idle"
  BY DEF Locally

\* ST_IDLE gets a header: counted from here, and fired at once if it is the whole packet.
LEMMA LocalHeader ==
    ASSUME PacketTypes, Locally, NEW l, NEW b, LocalIn(l, b, taken'["local"]), TakeHeader(b)
    PROVE  Locally' /\ PacketTypes'
  <1>1. PICK m : m = taken'["local"]  OBVIOUS
  <1>2. lstate = "idle" /\ b.h.len # 0  BY DEF TakeHeader
  <1>3. Good(b) /\ Meets(l, b)  BY <1>2, Beatless DEF LocalIn
  <1>4. l.i = l.h.len  BY <1>2, LocallyIs DEF LocalIn
  <1>5. b.i = 1 /\ b \in Beat /\ b.h.len \in Nat /\ b # NoBeat  BY <1>3, <1>4, GoodIs DEF Meets
  <1>6. m = b  BY <1>1, <1>5 DEF LocalIn
  <1>7. CASE b.h.len = 1
    <2>1. /\ lstate' = "idle" /\ header' = b /\ lremaining' = lremaining /\ beatIdx' = beatIdx /\ listWord' = listWord
          /\ pulse' = IF b.h.kind = "enum" THEN <<b>> ELSE <<>>
      BY <1>2, <1>7 DEF TakeHeader
    <2>2. pulse' \in Seq(Beat)  BY <2>1, <1>5
    <2>3. PulseWhole'
      <3>1. CASE pulse' = <<b>>
        <4>1. Len(pulse') = 1 /\ pulse'[1] = b  BY <3>1
        <4> QED  BY <4>1, <1>5, <1>7 DEF PulseWhole
      <3>2. CASE pulse' = <<>>  BY <3>2 DEF PulseWhole
      <3> QED  BY <3>1, <3>2, <2>1
    <2>4. Locally'  BY <2>1, <2>3, <1>1, <1>5, <1>6, <1>7 DEF Locally
    <2>5. PacketTypes'  BY <2>1, <2>2, <1>5 DEF PacketTypes
    <2> QED  BY <2>4, <2>5
  <1>8. CASE b.h.len # 1
    <2>1. /\ lstate' = "data" /\ header' = b /\ lremaining' = b.h.len - 1 /\ beatIdx' = 1 /\ listWord' = listWord
          /\ pulse' = <<>>
      BY <1>8 DEF TakeHeader
    <2>2. PulseWhole'  BY <2>1 DEF PulseWhole
    <2>3. 1..(m.i - 1) = {}  BY <1>5, <1>6
    <2>4. Locally'  BY <2>1, <2>2, <2>3, <1>1, <1>5, <1>6, <1>8 DEF Locally
    <2>5. PacketTypes'
      <3>1. b.h.len - 1 \in Nat  BY <1>2, <1>5
      <3>2. pulse' \in Seq(Beat)  BY <2>1
      <3> QED  BY <2>1, <3>1, <3>2, <1>5 DEF PacketTypes
    <2> QED  BY <2>4, <2>5
  <1> QED  BY <1>7, <1>8

\* Nothing comes, or a header without a length.
LEMMA LocalNothing ==
    ASSUME PacketTypes, Locally, NEW l, NEW b, LocalIn(l, b, taken'["local"]), TakeNothing(b)
    PROVE  Locally' /\ PacketTypes'
  <1>1. b = NoBeat
    <2>1. Good(b) => b.h.len # 0  BY GoodIs
    <2> QED  BY <2>1, LocallyIs DEF TakeNothing, LocalIn, PacketTypes
  <1>2. taken'["local"] = taken["local"]  BY <1>1 DEF LocalIn
  <1>3. /\ pulse' = <<>> /\ lstate' = lstate /\ lremaining' = lremaining /\ header' = header
        /\ beatIdx' = beatIdx /\ listWord' = listWord
    BY DEF TakeNothing
  <1>4. PulseWhole'  BY <1>3 DEF PulseWhole
  <1>5. Locally'  BY <1>2, <1>3, <1>4 DEF Locally, Kept
  <1>6. pulse' \in Seq(Beat)  BY <1>3
  <1>7. PacketTypes'  BY <1>3, <1>6 DEF PacketTypes
  <1> QED  BY <1>5, <1>7

\* The pulse of a packet whose words are header, then those of rest.
Packet(s, n) == /\ s \in Seq(Beat) /\ Len(s) = n /\ n = s[1].h.len
                /\ \A k \in 1..n : s[k].no = s[1].no /\ s[k].h = s[1].h /\ s[k].i = k
                /\ \A k \in 2..n : s[k].own <=> (s[1].own /\ s[1].h.kind = "assign" /\ k = 2)

\* Such a pulse is whole.
LEMMA PacketFires ==
    ASSUME NEW n, Packet(pulse, n)'
    PROVE  PulseWhole' /\ pulse' \in Seq(Beat)
  BY DEF Packet, PulseWhole

\* ST_DATA gets a beat: kept in its place, and fired with the last one.
LEMMA LocalData ==
    ASSUME PacketTypes, Locally, NEW l, NEW b, LocalIn(l, b, taken'["local"]), TakeData(b)
    PROVE  Locally' /\ PacketTypes'
  <1>1. PICK m : m = taken'["local"]  OBVIOUS
  <1>2. lstate = "data" /\ b # NoBeat  BY DEF TakeData
  <1>3. PICK a : a = header  OBVIOUS
  <1>4. /\ l.i # l.h.len
        /\ a.h = l.h /\ a.no = l.no /\ a.i = 1 /\ (l.i = 1 => a = l)
        /\ lremaining = l.h.len - l.i /\ beatIdx = l.i
        /\ \A k \in 1..(l.i - 1) : k <= Keeps(l) => Kept(l, k)
    BY <1>2, <1>3, LocallyIs DEF LocalIn
  <1>5. Good(l)  BY <1>4, Beatless DEF LocalIn
  <1>6. Good(b) /\ Follows(b, l) /\ (b.own <=> Numbers(l)) /\ m = b
    BY <1>1, <1>2, <1>4 DEF LocalIn, Meets
  <1>7. PICK n \in Nat : n = l.i  BY <1>5, GoodIs
  <1>8. PICK len \in Nat : len = l.h.len  BY <1>5, GoodIs
  <1>9. PICK h : h = l.h  OBVIOUS
  <1>10. /\ n >= 1 /\ n < len /\ b.h = h /\ h.len = len /\ b.i = n + 1 /\ b.no = a.no /\ a.h = h
         /\ beatIdx = n /\ lremaining = len - n
    BY <1>4, <1>5, <1>6, <1>7, <1>8, <1>9, GoodIs DEF Follows
  <1>11. PICK keep \in BOOLEAN : keep <=> (h.kind = "list" /\ n < 3)  OBVIOUS
  <1>12. PICK kept : kept = IF keep THEN [listWord EXCEPT ![n] = b] ELSE listWord  OBVIOUS
  <1>13. /\ listWord' = kept /\ pulse' = Effect(b)
         /\ lremaining' = lremaining - 1 /\ beatIdx' = beatIdx + 1
         /\ lstate' = IF lremaining = 1 THEN "idle" ELSE "data"
         /\ header' = a
    BY <1>3, <1>10, <1>11, <1>12 DEF TakeData
  <1>14. PacketOk(h) /\ h.kind \in Kinds /\ h.kind # "padding"
    <2>1. PacketOk(h)  BY <1>5, <1>9, GoodIs
    <2>2. l \in Beat  BY <1>5, GoodIs
    <2>3. h.kind \in Kinds  BY <2>2, <1>9, BeatFields
    <2> QED  BY <2>1, <2>3 DEF PacketOk
  <1>15. /\ h.kind = "list" => len = 4
         /\ h.kind = "report" => len <= MaxWords + 1
         /\ h.kind \notin {"list", "report", "wave", "flash"} => len = 2
    BY <1>14, <1>10, SMT DEF PacketOk, Kinds
  <1>16. listWord \in [1..2 -> Beat] /\ a \in Beat /\ b \in Beat
    BY <1>3, <1>6, GoodIs DEF PacketTypes
  <1>17. keep => n \in 1..2  BY <1>10, <1>11
  <1>18. kept \in [1..2 -> Beat]  BY <1>12, <1>16
  <1>19. \A k \in 1..n : k <= Keeps(l) => kept[k].h = h /\ kept[k].no = a.no /\ kept[k].i = k + 1 /\ ~kept[k].own
    <2> SUFFICES ASSUME NEW k \in 1..n, k <= Keeps(l)
                 PROVE  kept[k].h = h /\ kept[k].no = a.no /\ kept[k].i = k + 1 /\ ~kept[k].own
      OBVIOUS
    <2>1. h.kind = "list" /\ k <= 2  BY <1>9 DEF Keeps
    <2>2. CASE k = n
      <3>1. keep  BY <2>1, <2>2, <1>11
      <3>2. kept[n] = b  BY <3>1, <1>12, <1>16, <1>17
      <3>3. ~b.own  BY <2>1, <1>6, <1>9 DEF Numbers
      <3> QED  BY <3>2, <3>3, <2>2, <1>10
    <2>3. CASE k # n
      <3>1. k \in 1..(n - 1) /\ k \in Nat  BY <2>3
      <3>2. Kept(l, k)  BY <3>1, <1>4, <1>7
      <3>3. k \in 1..2  BY <3>1, <2>1
      <3>4. kept[k] = listWord[k]  BY <2>3, <3>3, <1>12, <1>16
      <3> QED  BY <3>2, <3>4, <1>4, <1>9 DEF Kept
    <2> QED  BY <2>2, <2>3
  <1>20. lremaining = 1 <=> n + 1 = len  BY <1>10
  <1>21. PulseWhole' /\ pulse' \in Seq(Beat)
    <2>1. CASE lremaining # 1 \/ h.kind \in {"wave", "flash", "report"}
      <3>1. pulse' = <<>>  BY <2>1, <1>3, <1>10, <1>13 DEF Effect
      <3> QED  BY <3>1 DEF PulseWhole
    <2>3. CASE lremaining = 1 /\ h.kind = "list"
      <3>1. len = 4 /\ n = 3  BY <2>3, <1>15, <1>20
      <3>2. pulse' = <<a, kept[1], kept[2], b>>
        <4>1. kept = listWord  BY <3>1, <1>11, <1>12
        <4> QED  BY <4>1, <2>3, <3>1, <1>3, <1>10, <1>13 DEF Effect
      <3>3. PICK x, y : x = kept[1] /\ y = kept[2]  OBVIOUS
      <3>4. x \in Beat /\ y \in Beat
        <4>1. 1 \in 1..2 /\ 2 \in 1..2  OBVIOUS
        <4> QED  BY <4>1, <3>3, <1>18
      <3>5. Keeps(l) = 2  BY <2>3, <1>9 DEF Keeps
      <3>6. x.h = h /\ x.no = a.no /\ x.i = 2 /\ ~x.own
        <4>1. 1 \in 1..n /\ 1 <= Keeps(l)  BY <3>1, <3>5
        <4>2. kept[1].h = h /\ kept[1].no = a.no /\ kept[1].i = 1 + 1 /\ ~kept[1].own  BY <4>1, <1>19
        <4> QED  BY <4>2, <3>3
      <3>7. y.h = h /\ y.no = a.no /\ y.i = 3 /\ ~y.own
        <4>1. 2 \in 1..n /\ 2 <= Keeps(l)  BY <3>1, <3>5
        <4>2. kept[2].h = h /\ kept[2].no = a.no /\ kept[2].i = 2 + 1 /\ ~kept[2].own  BY <4>1, <1>19
        <4> QED  BY <4>2, <3>3
      <3>8. b.h = h /\ b.no = a.no /\ b.i = 4 /\ ~b.own  BY <3>1, <2>3, <1>6, <1>9, <1>10 DEF Numbers
      <3>9. PICK s : s = <<a, x, y, b>>  OBVIOUS
      <3>10. s \in Seq(Beat) /\ Len(s) = 4 /\ s[1] = a /\ s[2] = x /\ s[3] = y /\ s[4] = b
        BY <3>4, <3>9, <1>16
      <3>11. a.h = h /\ a.i = 1 /\ h.kind # "assign" /\ h.len = 4  BY <3>1, <2>3, <1>4, <1>10
      <3>12. Packet(s, 4)
        <4>1. \A k \in 1..4 : s[k].no = a.no /\ s[k].h = h /\ s[k].i = k
          <5> TAKE k \in 1..4
          <5>1. k = 1 \/ k = 2 \/ k = 3 \/ k = 4  OBVIOUS
          <5> QED  BY <5>1, <3>6, <3>7, <3>8, <3>10, <3>11
        <4>2. \A k \in 2..4 : ~s[k].own
          <5> TAKE k \in 2..4
          <5>1. k = 2 \/ k = 3 \/ k = 4  OBVIOUS
          <5> QED  BY <5>1, <3>6, <3>7, <3>8, <3>10
        <4> QED  BY <4>1, <4>2, <3>10, <3>11 DEF Packet
      <3>13. pulse' = s  BY <3>2, <3>3, <3>9
      <3>14. Packet(pulse', 4)  BY <3>12, <3>13
      <3>15. Packet(pulse, 4)'  BY <3>14 DEF Packet
      <3> QED  BY <3>15, PacketFires
    <2>4. CASE lremaining = 1 /\ h.kind \notin {"list", "report", "wave", "flash"}
      <3>1. len = 2 /\ n = 1  BY <2>4, <1>15, <1>20
      <3>2. pulse' = <<a, b>>  BY <2>4, <1>3, <1>10, <1>13 DEF Effect
      <3>3. a = l  BY <3>1, <1>4, <1>7
      <3>4. b.own <=> (a.own /\ a.h.kind = "assign")  BY <3>3, <1>4, <1>6 DEF Numbers
      <3>5. PICK s : s = <<a, b>>  OBVIOUS
      <3>6. s \in Seq(Beat) /\ Len(s) = 2 /\ s[1] = a /\ s[2] = b  BY <3>5, <1>16
      <3>7. Packet(s, 2)
        <4>1. a.h = h /\ a.i = 1 /\ h.len = 2 /\ b.h = h /\ b.no = a.no /\ b.i = 2  BY <3>1, <1>4, <1>10
        <4>2. \A k \in 1..2 : k = 1 \/ k = 2  OBVIOUS
        <4>3. \A k \in 1..2 : s[k].no = a.no /\ s[k].h = a.h /\ s[k].i = k  BY <4>1, <4>2, <3>6
        <4>4. \A k \in 2..2 : k = 2  OBVIOUS
        <4>5. \A k \in 2..2 : s[k].own <=> (a.own /\ a.h.kind = "assign" /\ k = 2)  BY <4>4, <3>4, <3>6
        <4> QED  BY <4>1, <4>3, <4>5, <3>6 DEF Packet
      <3>8. pulse' = s  BY <3>2, <3>5
      <3>9. Packet(pulse', 2)  BY <3>7, <3>8
      <3>10. Packet(pulse, 2)'  BY <3>9 DEF Packet
      <3> QED  BY <3>10, PacketFires
    <2> QED  BY <2>1, <2>3, <2>4
  <1>22. Locally'
    <2>1. lstate' = IF b.i = b.h.len THEN "idle" ELSE "data"  BY <1>10, <1>13, <1>20
    <2>2. lremaining' = b.h.len - b.i /\ beatIdx' = b.i  BY <1>10, <1>13
    <2>3. b.i - 1 = n /\ Keeps(b) = Keeps(l) /\ b.i # 1  BY <1>9, <1>10 DEF Keeps
    <2>4. \A k \in 1..(b.i - 1) : k <= Keeps(b) => Kept(b, k)'
      BY <2>3, <1>10, <1>13, <1>19 DEF Kept
    <2>5. header'.h = b.h /\ header'.no = b.no /\ header'.i = 1  BY <1>4, <1>10, <1>13
    <2>6. pulse' # <<>> => lstate' = "idle"  BY <1>10, <1>13 DEF Effect
    <2> QED  BY <2>1, <2>2, <2>3, <2>4, <2>5, <2>6, <1>1, <1>6, <1>21 DEF Locally, Kept, Keeps
  <1>23. PacketTypes'
    <2>1. lremaining' \in Nat /\ beatIdx' \in Nat  BY <1>10, <1>13
    <2> QED  BY <2>1, <1>13, <1>16, <1>18, <1>21 DEF PacketTypes
  <1> QED  BY <1>22, <1>23

-----------------------------------------------------------------------------
(* The answer registers.                                                   *)

\* What is written beside the packets is one answer.
LEMMA AnswerIs ==
    ASSUME NEW a \in Beat, a.h.kind # "report"
    PROVE  /\ Answer(a) \in [src : Beat, word : [1..MaxWords -> Beat]]
           /\ Answer(a).src = a
           /\ \A k \in 1..MaxWords : Answer(a).word[k] = AnswerWord(a, k)
  <1>1. \A k \in 1..MaxWords : AnswerWord(a, k) \in Beat
    <2> TAKE k \in 1..MaxWords
    <2>1. k + 1 \in Nat  OBVIOUS
    <2>2. AnswerWord(a, k) = [a EXCEPT !.i = k + 1, !.own = TRUE]  BY DEF AnswerWord
    <2> QED  BY <2>1, <2>2 DEF Beat
  <1> QED  BY <1>1 DEF Answer

\* A beat of a report is the word its place asks for.
LEMMA WordOf ==
    ASSUME NEW a \in Beat, NEW b \in Beat, NEW n \in Nat, a.h.kind = "report",
           b.h = a.h, b.no = a.no, b.i = n + 1, ~b.own
    PROVE  b = AnswerWord(a, n)
  <1>1. AnswerWord(a, n) = [a EXCEPT !.i = n + 1, !.own = FALSE]  BY DEF AnswerWord
  <1>2. a = [h |-> a.h, i |-> a.i, no |-> a.no, own |-> a.own]  BY DEF Beat
  <1>3. b = [h |-> b.h, i |-> b.i, no |-> b.no, own |-> b.own]  BY DEF Beat
  <1>4. AnswerWord(a, n) = [h |-> a.h, i |-> n + 1, no |-> a.no, own |-> FALSE]  BY <1>1, <1>2
  <1>5. b.own = FALSE  BY DEF Beat
  <1> QED  BY <1>3, <1>4, <1>5

\* A cycle of the answer registers beside one of the packets.
LEMMA ReplyClock ==
    ASSUME PacketTypes, ReplyTypes, Locally, Replying, NEW l, NEW b, LocalIn(l, b, taken'["local"]),
           NEW aside \in SUBSET {"own", "debug"}, "own" \in aside => Asked,
           TakeHeader(b) \/ TakeData(b) \/ TakeNothing(b), TakeReply(b, aside)
    PROVE  Replying' /\ ReplyTypes'
  <1>1. PICK m : m = taken'["local"]  OBVIOUS
  <1>2. PICK wr : wr = Written(aside)  OBVIOUS
  <1>3. PICK n : n = beatIdx  OBVIOUS
  <1>4. \/ /\ Reporting /\ b # NoBeat
           /\ reply' = [src |-> IF Reported THEN header ELSE wr.src, word |-> [wr.word EXCEPT ![n] = b]]
           /\ replyWr' = (Reported \/ aside # {})
        \/ ~(Reporting /\ b # NoBeat) /\ reply' = wr /\ replyWr' = (aside # {})
    BY <1>2, <1>3 DEF TakeReply
  <1>5. struck' = (Reporting /\ (struck \/ "debug" \in aside))  BY DEF TakeReply
  <1>6. lstate = "data" => pulse = <<>> /\ "own" \notin aside
    <2>1. lstate = "data" => pulse = <<>>  BY LocallyIs DEF LocalIn
    <2> QED  BY <2>1 DEF Asked
  <1>7. PICK a : a = IF "own" \in aside THEN pulse[1] ELSE NoBeat  OBVIOUS
  <1>8. a \in Beat /\ a.h.kind # "report"
    <2>1. CASE "own" \in aside
      <3>1. pulse # <<>> /\ pulse[1].h.kind = "query"  BY <2>1 DEF Asked
      <3>2. pulse[1] \in Beat  BY <3>1 DEF PacketTypes
      <3> QED  BY <3>1, <3>2, <2>1, <1>7
    <2>2. CASE "own" \notin aside  BY <2>2, <1>7, Beatless
    <2> QED  BY <2>1, <2>2
  <1>9. wr = IF aside = {} THEN reply ELSE Answer(a)  BY <1>2, <1>7 DEF Written
  <1>10. wr \in [src : Beat, word : [1..MaxWords -> Beat]]  BY <1>8, <1>9, AnswerIs DEF ReplyTypes
  <1>11. CASE Reporting /\ b # NoBeat
    <2>1. lstate = "data" /\ header.h.kind = "report"  BY <1>11 DEF Reporting
    <2>2. PICK h : h = header  OBVIOUS
    <2>3. /\ l.i # l.h.len /\ h.h = l.h /\ h.no = l.no /\ h.i = 1 /\ (l.i = 1 => h = l)
          /\ lremaining = l.h.len - l.i /\ n = l.i
      BY <2>1, <2>2, <1>3, LocallyIs DEF LocalIn
    <2>4. Good(l)  BY <2>3, Beatless DEF LocalIn
    <2>5. Good(b) /\ Follows(b, l) /\ (b.own <=> Numbers(l)) /\ m = b
      BY <1>1, <1>11, <2>3 DEF LocalIn, Meets
    <2>6. PICK len \in Nat : len = l.h.len  BY <2>4, GoodIs
    <2>7. n \in Nat /\ n >= 1 /\ n < len  BY <2>3, <2>4, <2>6, GoodIs
    <2>8. PacketOk(l.h) /\ l.h.kind = "report"  BY <2>1, <2>2, <2>3, <2>4, GoodIs
    <2>9. len <= MaxWords + 1  BY <2>6, <2>8 DEF PacketOk
    <2>10. n \in 1..MaxWords  BY <2>7, <2>9, Constants
    <2>11. h \in Beat /\ b \in Beat  BY <2>2, <2>5, GoodIs DEF PacketTypes
    <2>12. b.h = h.h /\ b.no = h.no /\ b.i = n + 1 /\ ~b.own
      BY <2>3, <2>5, <2>8 DEF Follows, Numbers
    <2>13. b = AnswerWord(h, n)  BY <2>1, <2>2, <2>7, <2>11, <2>12, WordOf
    <2>14. header' = h /\ lstate' = IF lremaining = 1 THEN "idle" ELSE "data"
      BY <2>1, <2>2, <1>11 DEF TakeHeader, TakeData, TakeNothing
    <2>15. reply' = [src |-> IF Reported THEN h ELSE wr.src, word |-> [wr.word EXCEPT ![n] = b]]
      BY <1>4, <1>11, <2>2
    <2>16. ReplyTypes'
      <3>1. [wr.word EXCEPT ![n] = b] \in [1..MaxWords -> Beat] /\ wr.src \in Beat  BY <1>10, <2>11
      <3>2. reply' \in [src : Beat, word : [1..MaxWords -> Beat]]  BY <3>1, <2>11, <2>15
      <3>3. replyWr' \in BOOLEAN  BY <1>4, <1>11
      <3>4. struck' \in BOOLEAN  BY <1>5
      <3> QED  BY <3>2, <3>3, <3>4 DEF ReplyTypes
    <2>17. ASSUME ~struck'
           PROVE  ~struck /\ aside = {} /\ \A k \in 1..n : reply'.word[k] = AnswerWord(h, k)
      <3>1. ~struck /\ aside = {}  BY <2>17, <1>5, <1>6, <1>11, <2>1
      <3>2. \A k \in 1..(l.i - 1) : reply.word[k] = AnswerWord(h, k)
        BY <3>1, <1>11, <2>2 DEF Replying, LocalIn
      <3>3. wr = reply  BY <3>1, <1>9
      <3>4. reply'.word = [reply.word EXCEPT ![n] = b] /\ reply.word \in [1..MaxWords -> Beat]
        BY <3>3, <2>15, <1>10
      <3>5. \A k \in 1..n : reply'.word[k] = AnswerWord(h, k)
        <4> TAKE k \in 1..n
        <4>1. k \in 1..MaxWords
          <5>1. n <= MaxWords /\ MaxWords \in Nat  BY <2>10, Constants
          <5> QED  BY <5>1, <2>7
        <4>2. CASE k = n  BY <4>1, <4>2, <3>4, <2>13
        <4>3. CASE k # n
          <5>1. k \in 1..(l.i - 1)  BY <4>3, <2>3, <2>7
          <5>2. reply'.word[k] = reply.word[k]  BY <4>1, <4>3, <3>4
          <5> QED  BY <5>1, <5>2, <3>2
        <4> QED  BY <4>2, <4>3
      <3> QED  BY <3>1, <3>5
    <2>18. ReplyWhole'
      <3> SUFFICES ASSUME replyWr', ~struck' PROVE ReplyWhole'  BY DEF ReplyWhole
      <3>1. Reported  BY <1>4, <1>11, <2>17
      <3>2. reply'.src = h  BY <3>1, <2>15
      <3>3. len - 1 = n  BY <3>1, <2>3, <2>6, <2>7 DEF Reported
      <3>4. h.h.kind = "report" /\ h.h.len - 1 = n  BY <2>3, <2>6, <2>8, <3>3
      <3> QED  BY <3>2, <3>4, <2>17 DEF ReplyWhole
    <2>19. m.i - 1 = n  BY <2>5, <2>7, <2>12
    <2> QED  BY <2>14, <2>16, <2>17, <2>18, <2>19, <1>1 DEF Replying
  <1>12. CASE ~(Reporting /\ b # NoBeat)
    <2>1. reply' = wr /\ replyWr' = (aside # {})  BY <1>4, <1>12
    <2>2. ReplyTypes'  BY <2>1, <1>5, <1>10 DEF ReplyTypes
    <2>3. ReplyWhole'
      <3> SUFFICES ASSUME replyWr' PROVE ReplyWhole'  BY DEF ReplyWhole
      <3>1. reply' = Answer(a)  BY <2>1, <1>9
      <3> QED  BY <3>1, <1>8, AnswerIs DEF ReplyWhole
    <2>4. ASSUME Reporting', ~struck'
          PROVE  \A k \in 1..(m.i - 1) : reply'.word[k] = AnswerWord(header', k)
      <3>1. lstate' = "data" /\ header'.h.kind = "report"  BY <2>4 DEF Reporting
      <3>2. CASE TakeHeader(b)
        <4>1. lstate = "idle" /\ b.h.len # 0  BY <3>2 DEF TakeHeader
        <4>2. Good(b) /\ Meets(l, b) /\ b # NoBeat  BY <4>1, Beatless DEF LocalIn
        <4>3. l.i = l.h.len  BY <4>1, LocallyIs DEF LocalIn
        <4>4. b.i = 1 /\ m = b  BY <4>2, <4>3, <1>1 DEF LocalIn, Meets
        <4> QED  BY <4>4
      <3>3. CASE TakeData(b)
        <4>1. lstate = "data" /\ header' = header /\ b # NoBeat  BY <3>3 DEF TakeData
        <4> QED  BY <4>1, <3>1, <1>12 DEF Reporting
      <3>4. CASE TakeNothing(b)
        <4>1. lstate' = lstate /\ header' = header  BY <3>4 DEF TakeNothing
        <4>2. Reporting /\ lstate = "data"  BY <4>1, <3>1 DEF Reporting
        <4>3. b = NoBeat  BY <4>2, <1>12
        <4>4. m = l  BY <4>3, <1>1 DEF LocalIn
        <4>5. ~struck /\ aside = {}  BY <2>4, <4>2, <1>5, <1>6
        <4>6. reply' = reply  BY <4>5, <2>1, <1>9
        <4> QED  BY <4>1, <4>2, <4>4, <4>5, <4>6 DEF Replying, LocalIn
      <3> QED  BY <3>2, <3>3, <3>4
    <2> QED  BY <2>2, <2>3, <2>4, <1>1 DEF Replying
  <1> QED  BY <1>11, <1>12

-----------------------------------------------------------------------------
(* flash_payload_cdc.v.                                                    *)

\* Remainders that are at hand.
LEMMA ModSmall ==
    ASSUME NEW n \in Nat, NEW m \in Nat, m > 0, n < m
    PROVE  n % m = n
  OBVIOUS

\* A number leaves no remainder of itself.
LEMMA ModSelf ==
    ASSUME NEW m \in Nat, m > 0
    PROVE  m % m = 0
  OBVIOUS

\* Halves of even and of odd numbers.
LEMMA Halves ==
    ASSUME NEW n \in Nat
    PROVE  /\ (2 * n) % 2 = 0 /\ (2 * n + 1) % 2 = 1
           /\ (2 * n + 1) \div 2 = n /\ ((2 * n + 1) + 1) \div 2 = n + 1
  OBVIOUS

FlashIn(f, b, m) ==
    /\ f = taken["flash"] /\ b = port["flash"]
    /\ f = NoBeat \/ For("flash", f)
    /\ b = NoBeat \/ (For("flash", b) /\ Meets(f, b))
    /\ m = IF b # NoBeat /\ FlashReady THEN b ELSE f
FlashState(f, count, s, latched, expects) ==
    /\ expects <=> f.i = f.h.len
    /\ count = IF expects THEN 0 ELSE f.i - 1
    /\ latched # NoBeat => latched = f /\ f.i >= 2
    /\ Payload(s, f.no)
    /\ Len(s) = IF latched # NoBeat THEN 2 * (f.i - 1) - 1 ELSE IF expects THEN 0 ELSE 2 * (f.i - 1)

\* Flashing is that of the present state,
LEMMA FlashIs ==
    Flashing <=> FlashState(taken["flash"], dataCnt, block, latchedHi, expectHeader) /\ BlockWhole
  BY DEF Flashing, FlashState

\* and of the next one.
LEMMA FlashIsPrimed ==
    Flashing' <=> FlashState(taken'["flash"], dataCnt', block', latchedHi', expectHeader') /\ BlockWhole'
  BY DEF Flashing, FlashState

\* The beats of a block and their number.
LEMMA FlashLength ==
    ASSUME NEW f, For("flash", f)
    PROVE  /\ Good(f) /\ f.h.len = FlashBeats + 1 /\ f # NoBeat /\ f \in Beat /\ f.no \in Nat
           /\ f.i \in Nat /\ f.i >= 1 /\ f.i <= FlashBeats + 1
  <1>1. Good(f) /\ f.h.kind = "flash"  BY DEF For
  <1>2. PacketOk(f.h) /\ f \in Beat /\ f.i \in Nat /\ f.i >= 1 /\ f.i <= f.h.len /\ f # NoBeat /\ f.no \in Nat  BY <1>1, GoodIs
  <1>3. f.h.len = FlashBeats + 1  BY <1>1, <1>2 DEF PacketOk
  <1> QED  BY <1>1, <1>2, <1>3

\* A payload with one word more.
LEMMA PayloadGrows ==
    ASSUME NEW s \in Seq(Words), NEW no, Payload(s, no), NEW x \in Words, x.no = no,
           x.i = 1 + ((Len(s) + 1) + 1) \div 2, x.half = IF (Len(s) + 1) % 2 = 1 THEN "lo" ELSE "hi"
    PROVE  Payload(Append(s, x), no)
  <1> DEFINE t == Append(s, x)
  <1>1. /\ Len(t) = Len(s) + 1 /\ Len(s) \in Nat
        /\ \A i \in 1..Len(s) : t[i] = s[i]
        /\ t[Len(s) + 1] = x
    BY AppendProperties, LenProperties
  <1> HIDE DEF t
  <1>2. ASSUME NEW k \in 1..Len(t)
        PROVE t[k].no = no /\ t[k].i = 1 + (k + 1) \div 2 /\ t[k].half = IF k % 2 = 1 THEN "lo" ELSE "hi"
    <2>1. CASE k \in 1..Len(s)  BY <2>1, <1>1 DEF Payload
    <2>2. CASE k \notin 1..Len(s)
      <3>1. k = Len(s) + 1  BY <2>2, <1>1
      <3> QED  BY <3>1, <1>1
    <2> QED  BY <2>1, <2>2
  <1>3. Payload(t, no)  BY <1>2 DEF Payload
  <1> QED  BY <1>3 DEF t

\* The two words of a beat.
LEMMA WordIs ==
    ASSUME NEW b \in Beat, NEW which \in {"lo", "hi"}
    PROVE  Word(b, which) \in Words /\ Word(b, which).no = b.no /\ Word(b, which).i = b.i /\ Word(b, which).half = which
  BY BeatFields DEF Word, Words

\* The header is dropped.
LEMMA FlashHeader ==
    ASSUME FlashTypeOK, Flashing, NEW f, NEW b, FlashIn(f, b, taken'["flash"]), DropHeader(b)
    PROVE  Flashing' /\ FlashTypeOK'
  <1>1. PICK m : m = taken'["flash"]  OBVIOUS
  <1>2. /\ b # NoBeat /\ FlashReady /\ expectHeader /\ expectHeader' = FALSE
        /\ dataCnt' = dataCnt /\ latchedHi' = latchedHi /\ block' = block /\ saved' = saved
    BY DEF DropHeader
  <1>3. FlashState(f, dataCnt, block, latchedHi, expectHeader) /\ BlockWhole  BY FlashIs DEF FlashIn
  <1>4. latchedHi = NoBeat  BY <1>2 DEF FlashReady
  <1>5. f.i = f.h.len /\ dataCnt = 0 /\ Len(block) = 0  BY <1>2, <1>3, <1>4 DEF FlashState
  <1>6. For("flash", b) /\ b.i = 1 /\ m = b  BY <1>1, <1>2, <1>5 DEF FlashIn, Meets
  <1>7. b.h.len = FlashBeats + 1  BY <1>6, FlashLength
  <1>8. b.i # b.h.len /\ b.i - 1 = 0 /\ 2 * (b.i - 1) = 0  BY <1>6, <1>7, Constants
  <1>9. 1..Len(block) = {}  BY <1>5
  <1>10. Payload(block, b.no)  BY <1>9 DEF Payload
  <1>11. FlashState(b, dataCnt, block, latchedHi, FALSE)  BY <1>4, <1>5, <1>8, <1>10 DEF FlashState
  <1>12. BlockWhole'  BY <1>2, <1>3 DEF BlockWhole
  <1>13. Flashing'  BY <1>1, <1>2, <1>6, <1>11, <1>12, FlashIsPrimed
  <1>14. FlashTypeOK'  BY <1>2 DEF FlashTypeOK
  <1> QED  BY <1>13, <1>14

\* A payload beat comes: its low word goes out at once.
LEMMA FlashUnpack ==
    ASSUME FlashTypeOK, Flashing, NEW f, NEW b, FlashIn(f, b, taken'["flash"]), Unpack(b)
    PROVE  Flashing' /\ FlashTypeOK'
  <1>1. PICK m : m = taken'["flash"]  OBVIOUS
  <1>2. PICK x : x = Word(b, "lo")  OBVIOUS
  <1>3. PICK all : all = Append(block, x)  OBVIOUS
  <1>4. /\ b # NoBeat /\ FlashReady /\ ~expectHeader /\ latchedHi' = b
        /\ dataCnt' = (dataCnt + 1) % FlashBeats
        /\ expectHeader' = (dataCnt = FlashBeats - 1)
        /\ block' = IF Len(all) = 2 * FlashBeats THEN <<>> ELSE all
        /\ saved' = IF Len(all) = 2 * FlashBeats THEN all ELSE saved
    BY <1>2, <1>3 DEF Unpack, Out
  <1>5. FlashState(f, dataCnt, block, latchedHi, expectHeader) /\ BlockWhole  BY FlashIs DEF FlashIn
  <1>6. latchedHi = NoBeat  BY <1>4 DEF FlashReady
  <1>7. f.i # f.h.len /\ dataCnt = f.i - 1 /\ Len(block) = 2 * (f.i - 1) /\ Payload(block, f.no)
    BY <1>4, <1>5, <1>6 DEF FlashState
  <1>8. For("flash", f)  BY <1>7, Beatless DEF FlashIn
  <1>9. For("flash", b) /\ Follows(b, f) /\ m = b  BY <1>1, <1>4, <1>7 DEF FlashIn, Meets
  <1>10. PICK n \in Nat : n = f.i - 1  BY <1>8, FlashLength
  <1>11. b.no = f.no /\ b.i = n + 2 /\ b \in Beat /\ b.h.len = FlashBeats + 1 /\ n + 2 <= FlashBeats + 1
    BY <1>9, <1>10, <1>8, FlashLength DEF Follows
  <1>12. dataCnt = n /\ Len(block) = 2 * n /\ block \in Seq(Words)  BY <1>7, <1>10 DEF FlashTypeOK
  <1>13. x \in Words /\ x.no = f.no /\ x.i = n + 2 /\ x.half = "lo"  BY <1>2, <1>11, WordIs
  <1>14. all \in Seq(Words) /\ Len(all) = 2 * n + 1  BY <1>3, <1>12, <1>13, AppendProperties
  <1>15. Payload(all, f.no)
    <2>1. 1 + ((Len(block) + 1) + 1) \div 2 = n + 2 /\ (Len(block) + 1) % 2 = 1  BY <1>12, Halves
    <2> QED  BY <2>1, <1>3, <1>7, <1>12, <1>13, PayloadGrows
  <1>16. Len(all) # 2 * FlashBeats  BY <1>14, Constants
  <1>17. block' = all /\ saved' = saved  BY <1>4, <1>16
  <1>18. PICK e \in BOOLEAN : e <=> n = FlashBeats - 1  OBVIOUS
  <1>19. expectHeader' = e  BY <1>4, <1>12, <1>18
  <1>20. dataCnt' = IF e THEN 0 ELSE n + 1
    <2>1. CASE e
      <3>1. n + 1 = FlashBeats  BY <2>1, <1>18, Constants
      <3> QED  BY <3>1, <2>1, <1>4, <1>12, Constants, ModSelf
    <2>2. CASE ~e
      <3>1. n + 1 < FlashBeats  BY <2>2, <1>11, <1>18, Constants
      <3>2. (n + 1) % FlashBeats = n + 1  BY <3>1, Constants, ModSmall
      <3> QED  BY <3>2, <2>2, <1>4, <1>12
    <2> QED  BY <2>1, <2>2
  <1>21. (e <=> b.i = b.h.len) /\ b.i - 1 = n + 1 /\ b.i >= 2 /\ 2 * (b.i - 1) - 1 = 2 * n + 1
    BY <1>11, <1>18, Constants
  <1>22. FlashState(b, dataCnt', all, b, e)  BY <1>4, <1>11, <1>14, <1>15, <1>20, <1>21 DEF FlashState
  <1>23. BlockWhole'  BY <1>5, <1>17 DEF BlockWhole
  <1>24. Flashing'
    <2>1. FlashState(taken'["flash"], dataCnt', block', latchedHi', expectHeader')
      BY <1>1, <1>4, <1>9, <1>17, <1>19, <1>22
    <2> QED  BY <2>1, <1>23, FlashIsPrimed
  <1>25. FlashTypeOK'
    <2>1. dataCnt' \in 0..(FlashBeats - 1)  BY <1>11, <1>18, <1>20, Constants
    <2>2. Len(block') < 2 * FlashBeats  BY <1>11, <1>14, <1>17, Constants
    <2> QED  BY <2>1, <2>2, <1>4, <1>11, <1>14, <1>17, <1>19 DEF FlashTypeOK
  <1> QED  BY <1>24, <1>25

\* The high word follows; with the last one the block is complete.
LEMMA FlashUnpackHi ==
    ASSUME FlashTypeOK, Flashing, NEW f, NEW b, FlashIn(f, b, taken'["flash"]), UnpackHi
    PROVE  Flashing' /\ FlashTypeOK'
  <1>1. PICK e \in BOOLEAN : e = expectHeader  BY DEF FlashTypeOK
  <1>2. PICK x : x = Word(latchedHi, "hi")  OBVIOUS
  <1>3. PICK all : all = Append(block, x)  OBVIOUS
  <1>4. /\ ~FlashReady /\ latchedHi' = NoBeat /\ expectHeader' = e /\ dataCnt' = dataCnt
        /\ block' = IF Len(all) = 2 * FlashBeats THEN <<>> ELSE all
        /\ saved' = IF Len(all) = 2 * FlashBeats THEN all ELSE saved
    BY <1>1, <1>2, <1>3 DEF UnpackHi, Out
  <1>5. FlashState(f, dataCnt, block, latchedHi, e) /\ BlockWhole  BY <1>1, FlashIs DEF FlashIn
  <1>6. latchedHi # NoBeat /\ taken'["flash"] = f  BY <1>4 DEF FlashReady, FlashIn
  <1>7. /\ latchedHi = f /\ f.i >= 2 /\ Len(block) = 2 * (f.i - 1) - 1 /\ Payload(block, f.no)
        /\ e <=> f.i = f.h.len
        /\ dataCnt = IF e THEN 0 ELSE f.i - 1
    BY <1>5, <1>6 DEF FlashState
  <1>8. For("flash", f)  BY <1>6, <1>7 DEF FlashIn
  <1>9. f \in Beat /\ f.i \in Nat /\ f.h.len = FlashBeats + 1 /\ f.i <= FlashBeats + 1  BY <1>8, FlashLength
  <1>10. PICK n \in Nat : n = f.i - 2  BY <1>7, <1>9
  <1>11. Len(block) = 2 * n + 1 /\ f.i = n + 2 /\ block \in Seq(Words)  BY <1>7, <1>9, <1>10 DEF FlashTypeOK
  <1>12. x \in Words /\ x.no = f.no /\ x.i = n + 2 /\ x.half = "hi"  BY <1>2, <1>7, <1>9, <1>11, WordIs
  <1>13. all \in Seq(Words) /\ Len(all) = 2 * (n + 1)  BY <1>3, <1>11, <1>12, AppendProperties
  <1>14. Payload(all, f.no)
    <2>1. Len(block) + 1 = 2 * (n + 1)  BY <1>11
    <2>2. (2 * (n + 1)) % 2 = 0 /\ (2 * (n + 1) + 1) \div 2 = n + 1  BY Halves
    <2>3. 1 + ((Len(block) + 1) + 1) \div 2 = n + 2 /\ (Len(block) + 1) % 2 = 0  BY <2>1, <2>2
    <2> QED  BY <2>3, <1>3, <1>7, <1>11, <1>12, PayloadGrows
  <1>15. Len(all) = 2 * FlashBeats <=> e  BY <1>7, <1>9, <1>11, <1>13, Constants
  <1>16. CASE e
    <2>1. block' = <<>> /\ saved' = all  BY <1>4, <1>15, <1>16
    <2>2. Payload(<<>>, f.no) /\ Len(<<>>) = 0 /\ <<>> \in Seq(Words)  BY DEF Payload
    <2>3. FlashState(f, dataCnt, <<>>, NoBeat, e)  BY <2>2, <1>7, <1>16 DEF FlashState
    <2>4. BlockWhole'
      <3>1. 1 \in 1..Len(all)  BY <1>13
      <3>2. all[1].no = f.no  BY <3>1, <1>14 DEF Payload
      <3> QED  BY <3>2, <2>1, <1>14 DEF BlockWhole, Payload
    <2>5. Flashing'  BY <2>1, <2>3, <2>4, <1>4, <1>6, FlashIsPrimed
    <2>6. FlashTypeOK'  BY <2>1, <2>2, <1>4, <1>13, Beatless, Constants DEF FlashTypeOK
    <2> QED  BY <2>5, <2>6
  <1>17. CASE ~e
    <2>1. block' = all /\ saved' = saved  BY <1>4, <1>15, <1>17
    <2>2. Len(all) = 2 * (f.i - 1)  BY <1>11, <1>13
    <2>3. FlashState(f, dataCnt, all, NoBeat, e)  BY <2>2, <1>7, <1>14, <1>17 DEF FlashState
    <2>4. BlockWhole'  BY <2>1, <1>5 DEF BlockWhole
    <2>5. Flashing'  BY <2>1, <2>3, <2>4, <1>4, <1>6, FlashIsPrimed
    <2>6. Len(all) < 2 * FlashBeats  BY <1>7, <1>9, <1>11, <1>13, <1>17, Constants
    <2>7. FlashTypeOK'  BY <2>1, <2>6, <1>4, <1>13, Beatless DEF FlashTypeOK
    <2> QED  BY <2>5, <2>7
  <1> QED  BY <1>16, <1>17

\* One cycle of the module.
LEMMA FlashClock ==
    ASSUME FlashTypeOK, Flashing, NEW f, NEW b, FlashIn(f, b, taken'["flash"]), TakeFlash(b)
    PROVE  Flashing' /\ FlashTypeOK'
  <1>1. CASE FlashNothing(b)
    <2>1. taken'["flash"] = taken["flash"] /\ UNCHANGED flashVars  BY <1>1 DEF FlashNothing, FlashIn
    <2>2. BlockWhole'  BY <2>1, FlashIs DEF flashVars, BlockWhole
    <2>3. Flashing'  BY <2>1, <2>2, FlashIs, FlashIsPrimed DEF flashVars
    <2>4. FlashTypeOK'  BY <2>1 DEF flashVars, FlashTypeOK
    <2> QED  BY <2>3, <2>4
  <1> QED  BY <1>1, FlashHeader, FlashUnpack, FlashUnpackHi DEF TakeFlash

-----------------------------------------------------------------------------
(* ddr_writer.v: what its AXI side does in a cycle of a waveform under way. *)

\* The counter of a burst, modulo BurstMax.
LEMMA CountUp ==
    ASSUME NEW c \in Nat, NEW n \in Nat, NEW max \in Nat, max > 1, 1 <= c, c < n, n <= max
    PROVE  /\ (c + 1) % max = IF c + 1 = max THEN 0 ELSE c + 1
           /\ (c + 1) % max = n % max <=> c + 1 = n
  <1>1. CASE c + 1 = max
    <2>1. n = max  BY <1>1
    <2>2. max % max = 0  BY ModSelf
    <2> QED  BY <1>1, <2>1, <2>2
  <1>2. CASE c + 1 # max
    <2>1. c + 1 < max /\ (c + 1) % max = c + 1  BY <1>2, ModSmall
    <2>2. CASE n = max
      <3>1. n % max = 0  BY <2>2, ModSelf
      <3> QED  BY <2>1, <2>2, <3>1
    <2>3. CASE n # max
      <3>1. n % max = n  BY <2>3, ModSmall
      <3> QED  BY <2>1, <3>1, <1>2
    <2> QED  BY <2>2, <2>3
  <1> QED  BY <1>1, <1>2

\* What the input side leaves to the AXI side in a cycle of a waveform under way.
Streaming ==
    /\ inState = "stream" /\ inState' = "stream" /\ metaValid' = FALSE
    /\ total' = total /\ wave' = wave
    /\ pacc # <<>> /\ ~rdEn => pacc' # <<>>
    /\ \A k \in 1..Len(pacc) : IsWord(pacc[k], wave, Popped + k - 1)
    /\ axi = "idle" => metaValid
    /\ total > 0 /\ (axi # "idle" => ~metaValid)

\* What the AXI side does in such a cycle: the word that was fetched is out of the FIFO, the
\* one that was accepted is stored.
Moved(ready) ==
    /\ Popped' = Popped + (IF rdEn THEN 1 ELSE 0)
    /\ Stored' = Stored + (IF w.valid /\ "w" \in ready THEN 1 ELSE 0)
    /\ Writing' /\ AxiTypes'
    /\ axi' = "idle" => axiDone' /\ addr' = total

\* ST_IDLE_A: the metadata start the first burst.
LEMMA IdleMoves ==
    ASSUME InTypes, AxiTypes, SlaveTypes, Writing, Streaming, NEW ready, AxiIdle
    PROVE  Moved(ready)
  <1>1. axi = "idle" /\ metaValid  BY DEF AxiIdle, Streaming
  <1>2. /\ addr' = 0 /\ left' = total /\ axi' = "fill" /\ rdEn' = FALSE /\ axiDone' = FALSE
        /\ burst' = burst /\ cnt' = cnt /\ aw' = aw /\ w' = w
    BY <1>1 DEF AxiIdle
  <1>3. ~aw.valid /\ ~w.valid /\ ~rdEn  BY <1>1 DEF Writing
  <1>4. metaValid' = FALSE /\ total' = total /\ total > 0 /\ total \in Nat /\ inState' = "stream"
    BY DEF Streaming, InTypes
  <1>5. Popped = 0 /\ Stored = 0  BY <1>1, <1>3 DEF Popped, Stored, At, Captured
  <1>9. At' = 0 /\ Captured' = 0  BY <1>2, <1>4 DEF At, Captured
  <1>11. PICK c \in Nat : c = Captured' /\ c = 0  BY <1>9
  <1>12. PICK a \in Nat : a = At' /\ a = 0  BY <1>9
  <1>13. ~w'.valid /\ ~rdEn'  BY <1>2, <1>3
  <1>14. Popped' = a + (c - 0) /\ Stored' = a + (c - 0)  BY <1>11, <1>12, <1>13 DEF Popped, Stored
  <1>6. Popped' = 0 /\ Stored' = 0  BY <1>11, <1>12, <1>14
  <1>7. Writing'  BY <1>2, <1>3, <1>4 DEF Writing
  <1>10. addr' \in 0..MemWords /\ left' \in 0..MemWords  BY <1>2, Constants DEF InTypes
  <1>8. AxiTypes'  BY <1>2, <1>10 DEF AxiTypes
  <1> QED  BY <1>2, <1>3, <1>5, <1>6, <1>7, <1>8 DEF Moved

\* ST_FILL: the next burst is as long as what is left, or as a burst may be.
LEMMA FillMoves ==
    ASSUME InTypes, AxiTypes, SlaveTypes, Writing, Streaming, NEW ready, AxiFill
    PROVE  Moved(ready)
  <1>1. axi = "fill" /\ rdEn' = FALSE /\ axiDone' = FALSE /\ addr' = addr /\ left' = left /\ cnt' = cnt /\ aw' = aw /\ w' = w
    BY DEF AxiFill
  <1>2. IF pacc # <<>> THEN axi' = "aw" /\ burst' = IF left >= BurstMax THEN BurstMax ELSE left
                       ELSE axi' = axi /\ burst' = burst
    BY DEF AxiFill
  <1>3. ~aw.valid /\ ~w.valid /\ ~rdEn /\ ~metaValid /\ left = total - addr /\ left > 0  BY <1>1 DEF Writing
  <1>4. metaValid' = FALSE /\ total' = total /\ inState' = "stream" /\ (pacc # <<>> => pacc' # <<>>)
    BY <1>3 DEF Streaming
  <1>5. Popped = addr /\ Stored = addr
    <2>1. addr \in Nat  BY DEF AxiTypes
    <2> QED  BY <2>1, <1>1, <1>3 DEF Popped, Stored, At, Captured
  <1>6. Popped' = addr /\ Stored' = addr
    <2>1. addr \in Nat  BY DEF AxiTypes
    <2> QED  BY <2>1, <1>1, <1>2, <1>3, <1>4 DEF Popped, Stored, At, Captured
  <1>7. addr \in Nat  BY DEF AxiTypes
  <1>8. CASE pacc # <<>>
    <2>1. axi' = "aw" /\ burst' = IF left >= BurstMax THEN BurstMax ELSE left  BY <1>2, <1>8
    <2>2. Writing'  BY <2>1, <1>1, <1>3, <1>4, <1>8 DEF Writing
    <2>3. burst' \in 0..BurstMax
      <3>1. left \in Nat  BY DEF AxiTypes
      <3> QED  BY <3>1, <2>1, Constants
    <2>4. AxiTypes'  BY <2>1, <2>3, <1>1 DEF AxiTypes
    <2> QED  BY <2>1, <2>2, <2>4, <1>3, <1>5, <1>6, <1>7 DEF Moved
  <1>9. CASE pacc = <<>>
    <2>1. axi' = "fill" /\ burst' = burst  BY <1>1, <1>2, <1>9
    <2>2. Writing'  BY <2>1, <1>1, <1>3, <1>4 DEF Writing
    <2>3. AxiTypes'  BY <2>1, <1>1 DEF AxiTypes
    <2> QED  BY <2>1, <2>2, <2>3, <1>3, <1>5, <1>6, <1>7 DEF Moved
  <1> QED  BY <1>8, <1>9

\* The first word of pacc_fifo.
LEMMA FirstWord ==
    ASSUME InTypes, Streaming, pacc # <<>>, NEW p \in Nat, p = Popped
    PROVE  pacc[1] \in Beat \X Beat /\ IsWord(pacc[1], wave, p)
  <1>1. pacc \in Seq(Beat \X Beat)  BY DEF InTypes
  <1>2. 1 \in 1..Len(pacc)  BY <1>1, EmptySeq
  <1>3. IsWord(pacc[1], wave, Popped + 1 - 1)  BY <1>2 DEF Streaming
  <1>4. Popped + 1 - 1 = p  OBVIOUS
  <1>5. pacc[1] \in Beat \X Beat  BY <1>1, <1>2, ElementOfSeq
  <1> QED  BY <1>3, <1>4, <1>5

\* The controller: where it writes next, and the memory.
LEMMA SlaveFields ==
    ASSUME NEW ready, Slave(ready)
    PROVE  /\ aw.valid /\ "aw" \in ready => slave'.addr = aw.addr
           /\ ~aw.valid /\ w.valid /\ "w" \in ready => slave'.addr = slave.addr + 1
           /\ ~aw.valid /\ ~(w.valid /\ "w" \in ready) /\ SlaveTypes => slave'.addr = slave.addr
           /\ mem' = IF w.valid /\ "w" \in ready THEN [mem EXCEPT ![slave.addr % MemWords] = w.data] ELSE mem
  BY DEF Slave, SlaveTypes

\* ST_AW: the address goes out once the first word is there.
LEMMA AwMoves ==
    ASSUME InTypes, AxiTypes, SlaveTypes, Writing, Streaming, NEW ready, AxiAw(ready), Slave(ready)
    PROVE  Moved(ready)
  <1>1. axi = "aw" /\ axiDone' = FALSE /\ addr' = addr /\ left' = left /\ burst' = burst
    BY DEF AxiAw
  <1>2. /\ ~w.valid /\ ~rdEn /\ ~metaValid /\ left = total - addr /\ left > 0
        /\ pacc # <<>> /\ (aw.valid => aw.addr = addr)
        /\ burst = IF left >= BurstMax THEN BurstMax ELSE left
    BY <1>1 DEF Writing
  <1>3. metaValid' = FALSE /\ total' = total /\ wave' = wave /\ inState' = "stream" /\ pacc' # <<>>
    BY <1>2 DEF Streaming
  <1>4. addr \in Nat /\ left \in Nat /\ burst \in Nat /\ burst > 0  BY <1>2, Constants DEF AxiTypes
  <1>5. Popped = addr /\ Stored = addr  BY <1>1, <1>2, <1>4 DEF Popped, Stored, At, Captured
  <1>6. CASE aw.valid /\ "aw" \in ready
    <2>1. PICK d : d = pacc[1]  OBVIOUS
    <2>2. PICK final \in BOOLEAN : final <=> (burst = 1)  OBVIOUS
    <2>3. /\ aw' = [aw EXCEPT !.valid = FALSE] /\ w' = [valid |-> TRUE, data |-> d, last |-> final]
          /\ rdEn' = TRUE /\ cnt' = 1 /\ axi' = "w"
      BY <1>6, <2>1, <2>2 DEF AxiAw
    <2>4. d \in Beat \X Beat /\ IsWord(d, wave, addr)  BY <2>1, <1>2, <1>4, <1>5, FirstWord
    <2>5. ~aw'.valid /\ aw' \in [valid : BOOLEAN, addr : Nat, len : Int]  BY <2>3 DEF AxiTypes
    <2>6. w'.valid /\ w'.data = d /\ w'.last = final /\ w' \in [valid : BOOLEAN, data : Beat \X Beat, last : BOOLEAN]
      BY <2>3, <2>4
    <2>7. slave'.addr = addr  BY <1>2, <1>6, SlaveFields
    <2>8. Captured' = 1 /\ At' = addr  BY <2>3, <1>1, <1>3 DEF Captured, At
    <2>9. Popped' = addr /\ Stored' = addr  BY <2>3, <2>6, <2>8, <1>4 DEF Popped, Stored
    <2>10. Captured' <= burst' /\ (final <=> Captured' = burst')  BY <2>2, <2>8, <1>1, <1>4
    <2>11. Writing'
      BY <2>3, <2>4, <2>5, <2>6, <2>7, <2>9, <2>10, <1>1, <1>2, <1>3 DEF Writing
    <2>13. cnt' \in 0..(BurstMax - 1)  BY <2>3, Constants
    <2>12. AxiTypes'  BY <2>3, <2>5, <2>6, <2>13, <1>1 DEF AxiTypes
    <2> QED  BY <2>3, <2>9, <2>11, <2>12, <1>2, <1>4, <1>5 DEF Moved
  <1>7. CASE ~(aw.valid /\ "aw" \in ready)
    <2>1. /\ aw' = [valid |-> TRUE, addr |-> addr, len |-> burst - 1]
          /\ rdEn' = FALSE /\ w' = w /\ cnt' = cnt /\ axi' = axi
      BY <1>7 DEF AxiAw
    <2>2. aw'.addr = addr /\ aw' \in [valid : BOOLEAN, addr : Nat, len : Int]  BY <2>1, <1>4
    <2>3. Popped' = addr /\ Stored' = addr
      BY <2>1, <1>1, <1>2, <1>3, <1>4 DEF Popped, Stored, At, Captured
    <2>4. Writing'  BY <2>1, <2>2, <1>1, <1>2, <1>3 DEF Writing
    <2>5. AxiTypes'  BY <2>1, <2>2, <1>1 DEF AxiTypes
    <2> QED  BY <2>1, <2>3, <2>4, <2>5, <1>1, <1>2, <1>4, <1>5 DEF Moved
  <1> QED  BY <1>6, <1>7

\* ST_W: a word a cycle at most, the last one flagged.
LEMMA WMoves ==
    ASSUME InTypes, AxiTypes, SlaveTypes, Writing, Streaming, NEW ready, AxiW(ready), Slave(ready)
    PROVE  Moved(ready)
  <1>1. axi = "w" /\ axiDone' = FALSE /\ addr' = addr /\ left' = left /\ burst' = burst /\ aw' = aw
    BY DEF AxiW
  <1>2. PICK c : c = Captured  OBVIOUS
  <1>3. PICK accepted \in BOOLEAN : accepted <=> (w.valid /\ "w" \in ready)  OBVIOUS
  <1>4. /\ ~metaValid /\ left = total - addr /\ left > 0 /\ (rdEn => pacc # <<>>)
        /\ burst = IF left >= BurstMax THEN BurstMax ELSE left
        /\ ~aw.valid /\ c <= burst /\ slave.addr = Stored
        /\ IF w.valid THEN IsWord(w.data, wave, Stored) /\ (w.last <=> c = burst) ELSE c < burst
    BY <1>1, <1>2 DEF Writing
  <1>5. metaValid' = FALSE /\ total' = total /\ wave' = wave /\ inState' = "stream" /\ (pacc # <<>> /\ ~rdEn => pacc' # <<>>)
    BY DEF Streaming
  <1>6. addr \in Nat /\ left \in Nat /\ burst \in Nat /\ burst <= BurstMax /\ cnt \in 0..(BurstMax - 1)
    BY DEF AxiTypes
  <1>7. c \in Nat /\ c >= 1 /\ c <= BurstMax /\ (c < BurstMax => cnt = c)
    BY <1>1, <1>2, <1>6, Constants DEF Captured
  <1>8. Popped = addr + c - (IF rdEn THEN 1 ELSE 0) /\ Stored = addr + c - (IF w.valid THEN 1 ELSE 0)
    BY <1>2, <1>4 DEF Popped, Stored, At
  <1>9. w \in [valid : BOOLEAN, data : Beat \X Beat, last : BOOLEAN]  BY DEF AxiTypes
  <1>10. slave'.addr = IF accepted THEN slave.addr + 1 ELSE slave.addr
    BY <1>3, <1>4, SlaveFields
  <1>11. CASE accepted /\ w.last
    <2>1. w' = [w EXCEPT !.valid = FALSE, !.last = FALSE] /\ axi' = "resp" /\ rdEn' = FALSE /\ cnt' = cnt
      BY <1>3, <1>11 DEF AxiW
    <2>2. ~w'.valid /\ w' \in [valid : BOOLEAN, data : Beat \X Beat, last : BOOLEAN]  BY <2>1, <1>9
    <2>3. c = burst /\ w.valid  BY <1>3, <1>4, <1>11
    <2>4. Captured' = burst /\ At' = addr  BY <2>1, <1>1, <1>5 DEF Captured, At
    <2>5. Popped' = addr + c /\ Stored' = addr + c  BY <2>1, <2>2, <2>3, <2>4, <1>6 DEF Popped, Stored
    <2>6. Writing'  BY <2>1, <2>2, <1>1, <1>4, <1>5 DEF Writing
    <2>7. AxiTypes'  BY <2>1, <2>2, <1>1 DEF AxiTypes
    <2>8. Popped' = Popped + (IF rdEn THEN 1 ELSE 0) /\ Stored' = Stored + (IF accepted THEN 1 ELSE 0)
      BY <2>3, <2>5, <1>6, <1>7, <1>8, <1>11
    <2> QED  BY <2>1, <2>6, <2>7, <2>8, <1>3 DEF Moved
  <1>12. CASE ~(accepted /\ w.last) /\ (accepted \/ ~w.valid) /\ Fresh
    <2>1. PICK d : d = pacc[1]  OBVIOUS
    <2>2. PICK final \in BOOLEAN : final <=> Last  BY DEF Last
    <2>3. /\ w' = [valid |-> TRUE, data |-> d, last |-> final] /\ rdEn' = TRUE
          /\ cnt' = (cnt + 1) % BurstMax /\ axi' = axi
      BY <2>1, <2>2, <1>3, <1>12 DEF AxiW
    <2>4. pacc # <<>> /\ ~rdEn  BY <1>12 DEF Fresh
    <2>5. c < burst  BY <1>3, <1>4, <1>6, <1>7, <1>12
    <2>6. cnt = c /\ c < BurstMax  BY <2>5, <1>6, <1>7, Constants
    <2>7. /\ (c + 1) % BurstMax = IF c + 1 = BurstMax THEN 0 ELSE c + 1
          /\ (c + 1) % BurstMax = burst % BurstMax <=> c + 1 = burst
      BY <2>5, <1>6, <1>7, Constants, CountUp
    <2>8. final <=> c + 1 = burst  BY <2>2, <2>6, <2>7 DEF Last
    <2>9. cnt' = (IF c + 1 = BurstMax THEN 0 ELSE c + 1) /\ cnt' \in 0..(BurstMax - 1)
      BY <2>3, <2>6, <2>7, <1>7, Constants
    <2>10. Captured' = c + 1 /\ At' = addr
      <3>1. Captured' = IF cnt' = 0 THEN BurstMax ELSE cnt'  BY <2>3, <1>1 DEF Captured
      <3>2. Captured' = c + 1  BY <3>1, <2>9, <1>7, Constants
      <3> QED  BY <3>2, <1>1, <1>5 DEF At
    <2>11. w'.valid /\ w'.data = d /\ w'.last = final  BY <2>3
    <2>12. Popped' = addr + c /\ Stored' = addr + c  BY <2>3, <2>10, <2>11, <1>6, <1>7 DEF Popped, Stored
    <2>13. Popped = addr + c /\ addr + c \in Nat  BY <2>4, <1>6, <1>7, <1>8
    <2>14. d \in Beat \X Beat /\ IsWord(d, wave, addr + c)  BY <2>1, <2>4, <2>13, FirstWord
    <2>15. w' \in [valid : BOOLEAN, data : Beat \X Beat, last : BOOLEAN]  BY <2>3, <2>14
    <2>16. Stored' = Stored + (IF accepted THEN 1 ELSE 0)
      BY <2>12, <1>3, <1>6, <1>7, <1>8, <1>12
    <2>17. slave'.addr = Stored'
      <3>1. Stored \in Int  BY <1>6, <1>7, <1>8
      <3> QED  BY <3>1, <2>16, <1>4, <1>10
    <2>18. Captured' <= burst' /\ (final <=> Captured' = burst')  BY <2>5, <2>8, <2>10, <1>1, <1>6, <1>7
    <2>19. pacc' # <<>>  BY <2>4, <1>5
    <2>20. Writing'
      BY <2>3, <2>11, <2>12, <2>14, <2>17, <2>18, <2>19, <1>1, <1>4, <1>5 DEF Writing
    <2>21. AxiTypes'  BY <2>3, <2>9, <2>15, <1>1 DEF AxiTypes
    <2>22. Popped' = Popped + 0  BY <2>12, <2>13
    <2> QED  BY <2>3, <2>4, <2>16, <2>20, <2>21, <2>22, <1>1, <1>3 DEF Moved
  <1>13. CASE ~(accepted /\ w.last) /\ ~((accepted \/ ~w.valid) /\ Fresh)
    <2>1. w' = [w EXCEPT !.valid = @ /\ ~accepted] /\ rdEn' = FALSE /\ cnt' = cnt /\ axi' = axi
      BY <1>3, <1>13 DEF AxiW
    <2>2. /\ w'.valid <=> w.valid /\ ~accepted
          /\ w'.data = w.data /\ w'.last = w.last /\ w' \in [valid : BOOLEAN, data : Beat \X Beat, last : BOOLEAN]
      BY <2>1, <1>9
    <2>3. Captured' = c /\ At' = addr  BY <2>1, <1>1, <1>2, <1>5 DEF Captured, At
    <2>4. Popped' = addr + c  BY <2>1, <2>3, <1>6, <1>7 DEF Popped
    <2>5. Stored' = addr + c - (IF w.valid /\ ~accepted THEN 1 ELSE 0)  BY <2>2, <2>3, <1>6, <1>7 DEF Stored
    <2>6. Popped' = Popped + (IF rdEn THEN 1 ELSE 0)
      BY <2>4, <1>6, <1>7, <1>8
    <2>7. Stored' = Stored + (IF accepted THEN 1 ELSE 0)  BY <2>5, <1>3, <1>6, <1>7, <1>8
    <2>8. slave'.addr = Stored'
      <3>1. Stored \in Int  BY <1>6, <1>7, <1>8
      <3> QED  BY <3>1, <2>7, <1>4, <1>10
    <2>9. w'.valid => IsWord(w'.data, wave, Stored') /\ (w'.last <=> c = burst)
      <3> SUFFICES ASSUME w'.valid PROVE IsWord(w'.data, wave, Stored') /\ (w'.last <=> c = burst)  OBVIOUS
      <3>1. Stored' = Stored  BY <2>2, <2>5, <1>6, <1>7, <1>8
      <3> QED  BY <3>1, <2>2, <1>4
    <2>10. ~w'.valid => c < burst
      <3> SUFFICES ASSUME ~w'.valid PROVE c < burst  OBVIOUS
      <3>1. CASE w.valid
        <4>1. accepted /\ ~w.last  BY <3>1, <2>2, <1>13
        <4> QED  BY <4>1, <3>1, <1>4, <1>6, <1>7
      <3>2. CASE ~w.valid  BY <3>2, <1>4
      <3> QED  BY <3>1, <3>2
    <2>11. Writing'
      BY <2>1, <2>3, <2>8, <2>9, <2>10, <1>1, <1>4, <1>5 DEF Writing
    <2>12. AxiTypes'  BY <2>1, <2>2, <1>1 DEF AxiTypes
    <2> QED  BY <2>1, <2>6, <2>7, <2>11, <2>12, <1>1, <1>3 DEF Moved
  <1> QED  BY <1>11, <1>12, <1>13

\* ST_RESP: the burst is answered; another one follows, or all is done.
LEMMA RespMoves ==
    ASSUME InTypes, AxiTypes, SlaveTypes, Writing, Streaming, NEW ready, AxiResp(ready)
    PROVE  Moved(ready)
  <1>1. axi = "resp" /\ rdEn' = FALSE /\ burst' = burst /\ cnt' = cnt /\ aw' = aw /\ w' = w
    BY DEF AxiResp
  <1>2. /\ ~aw.valid /\ ~w.valid /\ ~rdEn /\ ~metaValid /\ left = total - addr /\ left > 0
        /\ burst = IF left >= BurstMax THEN BurstMax ELSE left
    BY <1>1 DEF Writing
  <1>3. metaValid' = FALSE /\ total' = total /\ inState' = "stream"  BY DEF Streaming
  <1>4. addr \in Nat /\ left \in Nat /\ burst \in Nat /\ total \in 0..MemWords /\ burst <= left /\ burst > 0
    BY <1>2, Constants DEF AxiTypes, InTypes
  <1>5. Popped = addr + burst /\ Stored = addr + burst  BY <1>1, <1>2, <1>4 DEF Popped, Stored, At, Captured
  <1>6. CASE slave.owes /\ "b" \in ready
    <2>1. /\ addr' = addr + burst /\ left' = left - burst
          /\ axiDone' = Finished /\ axi' = IF Finished THEN "idle" ELSE "fill"
      BY <1>6 DEF AxiResp
    <2>2. Finished <=> left = burst  BY <1>4 DEF Finished
    <2>3. Popped' = addr + burst /\ Stored' = addr + burst
      BY <2>1, <1>1, <1>2, <1>3, <1>4 DEF Popped, Stored, At, Captured
    <2>4. left' = total - addr' /\ addr' \in 0..MemWords /\ left' \in 0..MemWords  BY <2>1, <1>2, <1>4, Constants
    <2>5. axiDone' \in BOOLEAN  BY <2>1 DEF Finished
    <2>6. axi' # "idle" => left' > 0 /\ ~axiDone'  BY <2>1, <2>2, <1>4
    <2>7. axi' \in {"idle", "fill"}  BY <2>1
    <2>8. Writing'  BY <2>4, <2>6, <2>7, <1>1, <1>2, <1>3 DEF Writing
    <2>9. AxiTypes'  BY <2>4, <2>5, <2>7, <1>1 DEF AxiTypes
    <2>10. axi' = "idle" => axiDone' /\ addr' = total  BY <2>1, <2>2, <1>2, <1>4 DEF InTypes
    <2> QED  BY <2>3, <2>8, <2>9, <2>10, <1>2, <1>4, <1>5 DEF Moved
  <1>7. CASE ~(slave.owes /\ "b" \in ready)
    <2>1. axiDone' = FALSE /\ addr' = addr /\ left' = left /\ axi' = axi  BY <1>7 DEF AxiResp
    <2>2. Popped' = addr + burst /\ Stored' = addr + burst
      BY <2>1, <1>1, <1>2, <1>3, <1>4 DEF Popped, Stored, At, Captured
    <2>3. Writing'  BY <2>1, <1>1, <1>2, <1>3 DEF Writing
    <2>4. AxiTypes'  BY <2>1, <1>1 DEF AxiTypes
    <2> QED  BY <2>1, <2>2, <2>3, <2>4, <1>1, <1>2, <1>4, <1>5 DEF Moved
  <1> QED  BY <1>6, <1>7

-----------------------------------------------------------------------------
(* ddr_writer.v: between two waveforms, at the metadata, and when all is stored. *)

\* The controller stays typed.
LEMMA SlaveTyped ==
    ASSUME AxiTypes, SlaveTypes, NEW ready, Slave(ready)
    PROVE  SlaveTypes'
  <1>1. /\ aw \in [valid : BOOLEAN, addr : Nat, len : Int]
        /\ w \in [valid : BOOLEAN, data : Beat \X Beat, last : BOOLEAN]
        /\ slave \in [addr : Nat, due : Int, owes : BOOLEAN]
        /\ mem \in [0..(MemWords - 1) -> Beat \X Beat]
    BY DEF AxiTypes, SlaveTypes
  <1>2. PICK beat \in BOOLEAN : beat <=> (w.valid /\ "w" \in ready)  OBVIOUS
  <1>3. /\ mem' = IF beat THEN [mem EXCEPT ![slave.addr % MemWords] = w.data] ELSE mem
        /\ slave' = IF aw.valid /\ "aw" \in ready
                    THEN [addr |-> aw.addr, due |-> aw.len + 1, owes |-> FALSE]
                    ELSE IF beat
                    THEN [addr |-> slave.addr + 1, due |-> slave.due - 1, owes |-> w.last]
                    ELSE [slave EXCEPT !.owes = @ /\ ~(axi = "resp" /\ "b" \in ready)]
    BY <1>2 DEF Slave
  <1>4. mem' \in [0..(MemWords - 1) -> Beat \X Beat]
    <2>1. w.data \in Beat \X Beat  BY <1>1
    <2> QED  BY <2>1, <1>1, <1>3
  <1>5. slave' \in [addr : Nat, due : Int, owes : BOOLEAN]
    <2>1. aw.addr \in Nat /\ aw.len + 1 \in Int /\ slave.addr + 1 \in Nat /\ slave.due - 1 \in Int /\ w.last \in BOOLEAN
      BY <1>1
    <2>2. [addr |-> aw.addr, due |-> aw.len + 1, owes |-> FALSE] \in [addr : Nat, due : Int, owes : BOOLEAN]  BY <2>1
    <2>3. [addr |-> slave.addr + 1, due |-> slave.due - 1, owes |-> w.last] \in [addr : Nat, due : Int, owes : BOOLEAN]
      BY <2>1
    <2>4. [slave EXCEPT !.owes = @ /\ ~(axi = "resp" /\ "b" \in ready)] \in [addr : Nat, due : Int, owes : BOOLEAN]
      BY <1>1
    <2> QED  BY <2>2, <2>3, <2>4, <1>3
  <1> QED  BY <1>4, <1>5 DEF SlaveTypes

\* ddr_writer.v's side of the dispatcher's output.
DdrIn(t, b, m) ==
    /\ t = taken["ddr"] /\ b = port["ddr"]
    /\ t = NoBeat \/ For("ddr", t)
    /\ b = NoBeat \/ (For("ddr", b) /\ Meets(t, b))
    /\ m = IF b # NoBeat /\ DdrReady THEN b ELSE t
    /\ inState # "idle" /\ b # NoBeat => b.i # 1
DdrTypes == InTypes /\ AxiTypes /\ SlaveTypes

\* Taking, with the beat handed over last named.
LEMMA TakingIs ==
    ASSUME Taking, NEW t, t = taken["ddr"]
    PROVE  /\ t # NoBeat => t.no = wave
           /\ inState = "idle" => t.i = t.h.len
           /\ inState = "meta" => t.i = 1 /\ t # NoBeat
           /\ inState # "stream" => axi = "idle" /\ ~axiDone /\ ~metaValid /\ pacc = <<>> /\ half = NoBeat
           /\ inState = "stream" =>
                /\ t # NoBeat /\ t.h.len = 2 * total + 2
                /\ t.i = 2 * (Popped + Len(pacc)) + (IF half = NoBeat THEN 2 ELSE 3)
                /\ half # NoBeat => half = t
                /\ \A k \in 1..Len(pacc) : IsWord(pacc[k], wave, Popped + k - 1)
                /\ \A a \in 0..(Stored - 1) : IsWord(mem[a], wave, a)
                /\ axi = "idle" => IF metaValid THEN ~axiDone ELSE axiDone /\ addr = total
  BY DEF Taking

\* The lengths of a waveform.
LEMMA WaveLength ==
    ASSUME NEW t, For("ddr", t)
    PROVE  /\ Good(t) /\ t # NoBeat /\ t \in Beat /\ t.no \in Nat /\ t.i \in Nat /\ t.i >= 1 /\ t.i <= t.h.len
           /\ t.h.len \in Nat /\ t.h.len >= 4 /\ (t.h.len - 2) \div 2 \in 1..MemWords
           /\ t.h.len = 2 * ((t.h.len - 2) \div 2) + 2
  <1>1. Good(t) /\ t.h.kind = "wave"  BY DEF For
  <1>2. PacketOk(t.h) /\ t \in Beat /\ t.i \in Nat /\ t.i >= 1 /\ t.i <= t.h.len /\ t # NoBeat /\ t.no \in Nat
        /\ t.h.len \in Nat
    BY <1>1, GoodIs
  <1>3. t.h.len % 2 = 0 /\ t.h.len >= 4 /\ t.h.len <= 2 * MemWords + 2  BY <1>1, <1>2 DEF PacketOk
  <1>4. PICK n \in Nat : n = t.h.len  BY <1>2
  <1>5. n % 2 = 0 /\ n >= 4 /\ n <= 2 * MemWords + 2  BY <1>3, <1>4
  <1>6. (n - 2) \div 2 \in 1..MemWords /\ n = 2 * ((n - 2) \div 2) + 2  BY <1>5, Constants
  <1> QED  BY <1>1, <1>2, <1>3, <1>4, <1>6

\* Before the waveform: the AXI side waits.
LEMMA QuietAxi ==
    ASSUME DdrTypes, Taking, Writing, inState # "stream", NEW b, NEW ready, TakeDdr(b, ready)
    PROVE  /\ axi' = "idle" /\ rdEn' = FALSE /\ axiDone' = FALSE /\ addr' = addr /\ left' = left
           /\ burst' = burst /\ cnt' = cnt /\ aw' = aw /\ w' = w /\ mem' = mem /\ ~aw.valid /\ ~w.valid
           /\ AxiTypes' /\ SlaveTypes' /\ Writing'
  <1>1. axi = "idle" /\ ~axiDone /\ ~metaValid  BY TakingIs
  <1>2. AxiIdle /\ Slave(ready)  BY <1>1 DEF TakeDdr, AxiIdle, AxiFill, AxiAw, AxiW, AxiResp
  <1>3. /\ axi' = "idle" /\ rdEn' = FALSE /\ axiDone' = FALSE /\ addr' = addr /\ left' = left
        /\ burst' = burst /\ cnt' = cnt /\ aw' = aw /\ w' = w
    BY <1>1, <1>2 DEF AxiIdle
  <1>4. ~aw.valid /\ ~w.valid  BY <1>1 DEF Writing
  <1>5. mem' = mem  BY <1>2, <1>4, SlaveFields
  <1>6. SlaveTypes'  BY <1>2, SlaveTyped DEF DdrTypes
  <1>7. AxiTypes'  BY <1>3 DEF DdrTypes, AxiTypes
  <1>8. Writing'  BY <1>3, <1>4 DEF Writing
  <1> QED  BY <1>3, <1>4, <1>5, <1>6, <1>7, <1>8

\* The header of a waveform comes, or nothing does.
LEMMA DdrIdle ==
    ASSUME DdrTypes, Taking, Writing, inState = "idle", NEW t, NEW b, NEW ready, DdrIn(t, b, taken'["ddr"]), TakeDdr(b, ready)
    PROVE  DdrTypes' /\ Taking' /\ Writing'
  <1>1. PICK m : m = taken'["ddr"]  OBVIOUS
  <1>2. /\ t.i = t.h.len /\ axi = "idle" /\ ~axiDone /\ ~metaValid /\ pacc = <<>> /\ half = NoBeat
        /\ t # NoBeat => t.no = wave
    BY TakingIs DEF DdrIn
  <1>3. DdrReady  BY DEF DdrReady
  <1>4. /\ axi' = "idle" /\ rdEn' = FALSE /\ axiDone' = FALSE /\ AxiTypes' /\ SlaveTypes' /\ Writing'
    BY QuietAxi
  <1>5. /\ metaValid' = FALSE /\ total' = total /\ half' = NoBeat /\ pacc' = <<>>
        /\ inState' = IF b # NoBeat THEN "meta" ELSE "idle"
        /\ wave' = IF b # NoBeat THEN b.no ELSE wave
    BY <1>2, <1>3 DEF TakeDdr, TakeBeat
  <1>6. CASE b = NoBeat
    <2>1. m = t /\ inState' = "idle" /\ wave' = wave  BY <1>1, <1>5, <1>6 DEF DdrIn
    <2>2. Taking'  BY <2>1, <1>1, <1>2, <1>4, <1>5 DEF Taking
    <2>3. InTypes'  BY <2>1, <1>2, <1>5 DEF InTypes, DdrTypes
    <2> QED  BY <2>2, <2>3, <1>4 DEF DdrTypes
  <1>7. CASE b # NoBeat
    <2>1. For("ddr", b) /\ b.i = 1 /\ m = b /\ inState' = "meta" /\ wave' = b.no
      BY <1>1, <1>2, <1>3, <1>5, <1>7 DEF DdrIn, Meets
    <2>2. Taking'  BY <2>1, <1>1, <1>4, <1>5, <1>7 DEF Taking
    <2>3. b.no \in Nat  BY <2>1, WaveLength
    <2>4. InTypes'  BY <2>1, <2>3, <1>2, <1>5 DEF InTypes, DdrTypes
    <2> QED  BY <2>2, <2>4, <1>4 DEF DdrTypes
  <1> QED  BY <1>6, <1>7

\* The metadata comes and starts the AXI side.
LEMMA DdrMeta ==
    ASSUME DdrTypes, Taking, Writing, inState = "meta", NEW t, NEW b, NEW ready, DdrIn(t, b, taken'["ddr"]), TakeDdr(b, ready)
    PROVE  DdrTypes' /\ Taking' /\ Writing'
  <1>1. PICK m : m = taken'["ddr"]  OBVIOUS
  <1>2. /\ t.i = 1 /\ t # NoBeat /\ axi = "idle" /\ ~axiDone /\ ~metaValid /\ pacc = <<>> /\ half = NoBeat
        /\ t.no = wave
    BY TakingIs DEF DdrIn
  <1>3. DdrReady  BY DEF DdrReady
  <1>4. /\ axi' = "idle" /\ rdEn' = FALSE /\ axiDone' = FALSE /\ AxiTypes' /\ SlaveTypes' /\ Writing'
        /\ w' = w /\ ~w.valid
    BY QuietAxi
  <1>5. /\ metaValid' = (b # NoBeat) /\ half' = NoBeat /\ pacc' = <<>> /\ wave' = wave
        /\ inState' = IF b # NoBeat THEN "stream" ELSE "meta"
        /\ total' = IF b # NoBeat THEN (b.h.len - 2) \div 2 ELSE total
    BY <1>2, <1>3 DEF TakeDdr, TakeBeat
  <1>6. CASE b = NoBeat
    <2>1. m = t /\ inState' = "meta" /\ metaValid' = FALSE /\ total' = total  BY <1>1, <1>5, <1>6 DEF DdrIn
    <2>2. Taking'  BY <2>1, <1>1, <1>2, <1>4, <1>5 DEF Taking
    <2>3. InTypes'  BY <2>1, <1>2, <1>5 DEF InTypes, DdrTypes
    <2> QED  BY <2>2, <2>3, <1>4 DEF DdrTypes
  <1>7. CASE b # NoBeat
    <2>1. For("ddr", t) /\ For("ddr", b) /\ m = b  BY <1>1, <1>2, <1>3, <1>7 DEF DdrIn
    <2>2. t.i # t.h.len  BY <2>1, <1>2, WaveLength
    <2>3. Follows(b, t)  BY <2>2, <1>7 DEF DdrIn, Meets
    <2>4. PICK n \in 1..MemWords : n = (b.h.len - 2) \div 2 /\ b.h.len = 2 * n + 2  BY <2>1, WaveLength
    <2>5. inState' = "stream" /\ total' = n /\ metaValid' = TRUE  BY <2>4, <1>5, <1>7
    <2>6. b.i = 2 /\ b.no = wave'  BY <2>3, <1>2, <1>5 DEF Follows
    <2>7. At' = 0 /\ Captured' = 0  BY <2>5, <1>4 DEF At, Captured
    <2>8. Popped' = 0 /\ Stored' = 0
      <3>1. PICK c \in Nat : c = Captured' /\ c = 0  BY <2>7
      <3>2. PICK a \in Nat : a = At' /\ a = 0  BY <2>7
      <3>3. Popped' = a + (c - 0) /\ Stored' = a + (c - 0)  BY <3>1, <3>2, <1>4 DEF Popped, Stored
      <3> QED  BY <3>1, <3>2, <3>3
    <2>9. Len(pacc') = 0  BY <1>5
    <2>10. b.i = 2 * (Popped' + Len(pacc')) + 2  BY <2>6, <2>8, <2>9
    <2>11. /\ \A k \in 1..Len(pacc') : IsWord(pacc'[k], wave', Popped' + k - 1)
           /\ \A a \in 0..(Stored' - 1) : IsWord(mem'[a], wave', a)
      <3>1. 1..Len(pacc') = {} /\ 0..(Stored' - 1) = {}  BY <2>8, <2>9
      <3> QED  BY <3>1
    <2>12. Taking'
      BY <2>1, <2>4, <2>5, <2>6, <2>10, <2>11, <1>1, <1>4, <1>5, <1>7 DEF Taking, IsWord
    <2>13. InTypes'
      <3>1. n \in 0..MemWords /\ pacc' \in Seq(Beat \X Beat) /\ Len(pacc') <= PaccDepth
        BY <2>4, <2>9, <1>5, Constants
      <3> QED  BY <3>1, <2>5, <1>2, <1>5 DEF InTypes, DdrTypes
    <2> QED  BY <2>12, <2>13, <1>4 DEF DdrTypes
  <1> QED  BY <1>6, <1>7

\* The last response has come: everything has been stored.
LEMMA DoneMeans ==
    ASSUME DdrTypes, Taking, Writing, axiDone, NEW t, t = taken["ddr"], t = NoBeat \/ For("ddr", t)
    PROVE  /\ inState = "stream" /\ axi = "idle" /\ ~metaValid /\ ~rdEn /\ ~w.valid /\ ~aw.valid
           /\ pacc = <<>> /\ half = NoBeat /\ Stored = total /\ t.i = t.h.len /\ t # NoBeat
  <1>1. inState = "stream" /\ axi = "idle"  BY DEF Writing
  <1>2. ~rdEn /\ ~w.valid /\ ~aw.valid  BY <1>1 DEF Writing
  <1>3. /\ t # NoBeat /\ t.h.len = 2 * total + 2
        /\ t.i = 2 * (Popped + Len(pacc)) + (IF half = NoBeat THEN 2 ELSE 3)
        /\ ~metaValid /\ addr = total
    BY <1>1, TakingIs
  <1>4. PICK n \in Nat : n = total  BY DEF DdrTypes, InTypes
  <1>5. Popped = n /\ Stored = n  BY <1>1, <1>2, <1>3, <1>4 DEF Popped, Stored, At, Captured
  <1>6. pacc \in Seq(Beat \X Beat) /\ Len(pacc) \in Nat  BY LenProperties DEF DdrTypes, InTypes
  <1>7. t.i <= t.h.len  BY <1>3, WaveLength
  <1>8. Len(pacc) = 0 /\ half = NoBeat  BY <1>3, <1>4, <1>5, <1>6, <1>7
  <1>9. t.i = t.h.len  BY <1>3, <1>4, <1>5, <1>8
  <1>10. pacc = <<>>  BY <1>6, <1>8, EmptySeq
  <1> QED  BY <1>1, <1>2, <1>3, <1>4, <1>5, <1>8, <1>9, <1>10

\* axi_done ends the packet on the input side.
LEMMA DdrDone ==
    ASSUME DdrTypes, Taking, Writing, axiDone, NEW t, NEW b, NEW ready, DdrIn(t, b, taken'["ddr"]), TakeDdr(b, ready)
    PROVE  DdrTypes' /\ Taking' /\ Writing'
  <1>1. PICK m : m = taken'["ddr"]  OBVIOUS
  <1>2. /\ inState = "stream" /\ axi = "idle" /\ ~metaValid /\ ~rdEn /\ ~w.valid /\ ~aw.valid
        /\ pacc = <<>> /\ half = NoBeat /\ t.i = t.h.len /\ t # NoBeat
    BY DoneMeans DEF DdrIn
  <1>3. b = NoBeat  BY <1>2 DEF DdrIn, Meets
  <1>4. AxiIdle /\ Slave(ready)  BY <1>2 DEF TakeDdr, AxiIdle, AxiFill, AxiAw, AxiW, AxiResp
  <1>5. /\ axi' = "idle" /\ rdEn' = FALSE /\ axiDone' = FALSE /\ addr' = addr /\ left' = left
        /\ burst' = burst /\ cnt' = cnt /\ aw' = aw /\ w' = w
    BY <1>2, <1>4 DEF AxiIdle
  <1>6. /\ metaValid' = FALSE /\ total' = total /\ half' = NoBeat /\ pacc' = <<>>
        /\ inState' = "idle" /\ wave' = wave
    BY <1>2, <1>3 DEF TakeDdr, TakeBeat
  <1>7. SlaveTypes'  BY <1>4, SlaveTyped DEF DdrTypes
  <1>8. AxiTypes'  BY <1>5 DEF DdrTypes, AxiTypes
  <1>9. Writing'  BY <1>2, <1>5 DEF Writing
  <1>10. m = t /\ t.no = wave  BY <1>1, <1>2, <1>3, TakingIs DEF DdrIn
  <1>11. Taking'  BY <1>1, <1>2, <1>5, <1>6, <1>10 DEF Taking
  <1>12. InTypes'  BY <1>6, <1>2 DEF InTypes, DdrTypes
  <1> QED  BY <1>7, <1>8, <1>9, <1>11, <1>12 DEF DdrTypes

\* pacc_fifo after the fetch.
LEMMA AfterFetch ==
    ASSUME NEW q \in Seq(Beat \X Beat), NEW r \in {0, 1}, r = 1 => q # <<>>, NEW p \in Int, NEW n,
           \A k \in 1..Len(q) : IsWord(q[k], n, p + k - 1)
    PROVE  LET rest == IF r = 1 THEN Tail(q) ELSE q IN
           /\ rest \in Seq(Beat \X Beat) /\ Len(rest) = Len(q) - r
           /\ \A k \in 1..Len(rest) : IsWord(rest[k], n, (p + r) + k - 1)
  <1>1. CASE r = 0
    <2>1. p + r = p /\ Len(q) - r = Len(q)
      <3>1. Len(q) \in Nat  BY LenProperties
      <3> QED  BY <3>1, <1>1
    <2> QED  BY <2>1, <1>1
  <1>2. CASE r = 1
    <2> DEFINE t == Tail(q)
    <2>1. /\ t \in Seq(Beat \X Beat) /\ Len(t) = Len(q) - 1 /\ Len(q) \in Nat
          /\ \A k \in 1..Len(t) : t[k] = q[k + 1]
      BY <1>2, HeadTailProperties, LenProperties
    <2> HIDE DEF t
    <2>2. ASSUME NEW k \in 1..Len(t) PROVE IsWord(t[k], n, (p + r) + k - 1)
      <3>1. k + 1 \in 1..Len(q) /\ t[k] = q[k + 1] /\ p + (k + 1) - 1 = (p + r) + k - 1  BY <2>1, <1>2
      <3>2. IsWord(q[k + 1], n, p + (k + 1) - 1)  BY <3>1
      <3> QED  BY <3>1, <3>2
    <2> QED  BY <2>1, <2>2, <1>2 DEF t
  <1> QED  BY <1>1, <1>2

\* A word more at the end of pacc_fifo.
LEMMA OneMore ==
    ASSUME NEW q \in Seq(Beat \X Beat), NEW p \in Int, NEW n, NEW x \in Beat \X Beat,
           \A k \in 1..Len(q) : IsWord(q[k], n, p + k - 1), IsWord(x, n, p + Len(q))
    PROVE  /\ Append(q, x) \in Seq(Beat \X Beat) /\ Len(Append(q, x)) = Len(q) + 1
           /\ \A k \in 1..Len(Append(q, x)) : IsWord(Append(q, x)[k], n, p + k - 1)
  <1> DEFINE s == Append(q, x)
  <1>1. /\ s \in Seq(Beat \X Beat) /\ Len(s) = Len(q) + 1 /\ Len(q) \in Nat
        /\ \A k \in 1..Len(q) : s[k] = q[k]
        /\ s[Len(q) + 1] = x
    BY AppendProperties, LenProperties
  <1> HIDE DEF s
  <1>2. ASSUME NEW k \in 1..Len(s) PROVE IsWord(s[k], n, p + k - 1)
    <2>1. CASE k \in 1..Len(q)  BY <2>1, <1>1
    <2>2. CASE k \notin 1..Len(q)
      <3>1. k = Len(q) + 1 /\ p + k - 1 = p + Len(q)  BY <2>2, <1>1
      <3> QED  BY <3>1, <1>1
    <2> QED  BY <2>1, <2>2
  <1> QED  BY <1>1, <1>2 DEF s

-----------------------------------------------------------------------------
(* ddr_writer.v: while a waveform streams, the two sides together.         *)

\* What TakeBeat does while a waveform is under way.
LEMMA StreamBeat ==
    ASSUME InTypes, inState = "stream", ~axiDone, NEW b, TakeBeat(b), NEW rest,
           rest = IF rdEn /\ pacc # <<>> THEN Tail(pacc) ELSE pacc
    PROVE  /\ inState' = "stream" /\ wave' = wave /\ metaValid' = FALSE /\ total' = total
           /\ IF b # NoBeat /\ DdrReady
                THEN IF half = NoBeat THEN half' = b /\ pacc' = rest
                     ELSE half' = NoBeat /\ pacc' = Append(rest, <<half, b>>)
                ELSE half' = half /\ pacc' = rest
           /\ DdrReady => Len(pacc) < PaccDepth
  BY DEF TakeBeat, DdrReady

\* The counts are integers.
LEMMA PoppedInt ==
    ASSUME DdrTypes
    PROVE  Popped \in Int /\ Stored \in Int /\ total \in Nat /\ Len(pacc) \in Nat
  <1>1. addr \in Nat /\ cnt \in Nat /\ burst \in Nat /\ total \in Nat  BY DEF DdrTypes, AxiTypes, InTypes
  <1>2. At \in Nat  BY <1>1 DEF At
  <1>3. Captured \in Nat  BY <1>1, Constants DEF Captured
  <1>4. pacc \in Seq(Beat \X Beat)  BY DEF DdrTypes, InTypes
  <1>5. Len(pacc) \in Nat  BY <1>4, LenProperties
  <1> QED  BY <1>1, <1>2, <1>3, <1>5 DEF Popped, Stored

\* A waveform under way: the two sides together.
LEMMA StreamMoves ==
    ASSUME DdrTypes, Taking, Writing, inState = "stream", ~axiDone, NEW t, NEW b, NEW ready,
           DdrIn(t, b, taken'["ddr"]), TakeDdr(b, ready), NEW rest,
           rest = IF rdEn /\ pacc # <<>> THEN Tail(pacc) ELSE pacc,
           rest # <<>> => pacc' # <<>>
    PROVE  Moved(ready) /\ SlaveTypes'
  <1>1. /\ t # NoBeat /\ t.h.len = 2 * total + 2
        /\ \A k \in 1..Len(pacc) : IsWord(pacc[k], wave, Popped + k - 1)
        /\ axi = "idle" => metaValid
    BY TakingIs DEF DdrIn
  <1>2. TakeBeat(b)  BY DEF TakeDdr
  <1>3. inState' = "stream" /\ wave' = wave /\ metaValid' = FALSE /\ total' = total
    BY <1>2, StreamBeat DEF DdrTypes
  <1>4. total > 0
    <2>1. t.h.len >= 4 /\ total \in Nat  BY <1>1, WaveLength, PoppedInt DEF DdrIn
    <2> QED  BY <2>1, <1>1
  <1>5. axi # "idle" => ~metaValid  BY DEF Writing
  <1>6. pacc # <<>> /\ ~rdEn => pacc' # <<>>  OBVIOUS
  <1>7. Streaming  BY <1>1, <1>3, <1>4, <1>5, <1>6 DEF Streaming
  <1>8. Slave(ready)  BY DEF TakeDdr
  <1>9. InTypes /\ AxiTypes /\ SlaveTypes  BY DEF DdrTypes
  <1>10. Moved(ready)
    <2>1. CASE AxiIdle  BY <2>1, <1>7, <1>9, IdleMoves
    <2>2. CASE AxiFill  BY <2>2, <1>7, <1>9, FillMoves
    <2>3. CASE AxiAw(ready)  BY <2>3, <1>7, <1>8, <1>9, AwMoves
    <2>4. CASE AxiW(ready)  BY <2>4, <1>7, <1>8, <1>9, WMoves
    <2>5. CASE AxiResp(ready)  BY <2>5, <1>7, <1>9, RespMoves
    <2> QED  BY <2>1, <2>2, <2>3, <2>4, <2>5 DEF TakeDdr
  <1>11. SlaveTypes'  BY <1>8, <1>9, SlaveTyped
  <1> QED  BY <1>10, <1>11

\* The memory: what was there stays, and an accepted word goes where it belongs.
LEMMA MemoryKeeps ==
    ASSUME DdrTypes, Writing, NEW ready, Slave(ready), wave' = wave,
           \A a \in 0..(Stored - 1) : IsWord(mem[a], wave, a),
           Stored' = Stored + (IF w.valid /\ "w" \in ready THEN 1 ELSE 0)
    PROVE  \A a \in 0..(Stored' - 1) : IsWord(mem'[a], wave', a)
  <1>1. CASE ~(w.valid /\ "w" \in ready)
    <2>1. mem' = mem  BY <1>1, SlaveFields
    <2>2. Stored' = Stored  BY <1>1, PoppedInt
    <2> QED  BY <2>1, <2>2
  <1>2. CASE w.valid /\ "w" \in ready
    <2>1. axi = "w"  BY <1>2 DEF Writing
    <2>2. /\ ~metaValid /\ left = total - addr
          /\ burst = IF left >= BurstMax THEN BurstMax ELSE left
          /\ Captured <= burst /\ slave.addr = Stored /\ IsWord(w.data, wave, Stored)
      BY <2>1, <1>2 DEF Writing
    <2>3. PICK s : s = Stored  OBVIOUS
    <2>4. addr \in Nat /\ left \in Nat /\ burst \in Nat /\ cnt \in 0..(BurstMax - 1) /\ total \in 0..MemWords
      BY DEF DdrTypes, AxiTypes, InTypes
    <2>5. Captured \in Nat /\ Captured >= 1  BY <2>1, <2>4, Constants DEF Captured
    <2>6. s = addr + Captured - 1  BY <2>2, <2>3, <1>2 DEF Stored, At
    <2>7. burst <= left  BY <2>2, <2>4, Constants
    <2>8. s \in Nat /\ s < MemWords  BY <2>2, <2>4, <2>5, <2>6, <2>7, Constants
    <2>9. s % MemWords = s  BY <2>8, Constants, ModSmall
    <2>10. mem' = [mem EXCEPT ![s] = w.data]  BY <1>2, <2>2, <2>3, <2>9, SlaveFields
    <2>11. DOMAIN mem = 0..(MemWords - 1)  BY DEF DdrTypes, SlaveTypes
    <2>12. Stored' - 1 = s  BY <1>2, <2>3, <2>8
    <2> SUFFICES ASSUME NEW a \in 0..s PROVE IsWord(mem'[a], wave, a)  BY <2>12
    <2>13. a \in 0..(MemWords - 1)  BY <2>8, Constants
    <2>14. CASE a = s
      <3>1. mem'[a] = w.data  BY <2>10, <2>11, <2>13, <2>14
      <3> QED  BY <3>1, <2>2, <2>3, <2>14
    <2>15. CASE a # s
      <3>1. mem'[a] = mem[a]  BY <2>10, <2>11, <2>13, <2>15
      <3>2. a \in 0..(Stored - 1)  BY <2>3, <2>8, <2>15
      <3> QED  BY <3>1, <3>2
    <2> QED  BY <2>14, <2>15
  <1> QED  BY <1>1, <1>2

\* Two beats of a packet make a word of the memory.
LEMMA WordMade ==
    ASSUME NEW x, NEW y, NEW n, NEW a \in Int, Follows(y, x), x.no = n, x.i = 2 * a + 3
    PROVE  IsWord(<<x, y>>, n, a)
  <1>1. y.no = n /\ y.i = x.i + 1  BY DEF Follows
  <1>2. x.i = 2 * a + 1 + 2 /\ y.i = 2 * a + 2 + 2  BY <1>1
  <1>3. PICK z : z = <<x, y>>  OBVIOUS
  <1>4. z[1] = x /\ z[2] = y  BY <1>3
  <1>5. IsWord(z, n, a)  BY <1>1, <1>2, <1>4 DEF IsWord
  <1> QED  BY <1>3, <1>5

\* A cycle of a waveform under way.
LEMMA DdrStream ==
    ASSUME DdrTypes, Taking, Writing, inState = "stream", ~axiDone, NEW t, NEW b, NEW ready,
           DdrIn(t, b, taken'["ddr"]), TakeDdr(b, ready)
    PROVE  DdrTypes' /\ Taking' /\ Writing'
  <1>1. PICK m : m = taken'["ddr"]  OBVIOUS
  <1>2. /\ t # NoBeat /\ t.no = wave /\ t.h.len = 2 * total + 2
        /\ t.i = 2 * (Popped + Len(pacc)) + (IF half = NoBeat THEN 2 ELSE 3)
        /\ half # NoBeat => half = t
        /\ \A k \in 1..Len(pacc) : IsWord(pacc[k], wave, Popped + k - 1)
        /\ \A a \in 0..(Stored - 1) : IsWord(mem[a], wave, a)
    BY TakingIs DEF DdrIn
  <1>3. PICK rest : rest = IF rdEn /\ pacc # <<>> THEN Tail(pacc) ELSE pacc  OBVIOUS
  <1>4. TakeBeat(b) /\ Slave(ready)  BY DEF TakeDdr
  <1>5. /\ inState' = "stream" /\ wave' = wave /\ metaValid' = FALSE /\ total' = total
        /\ IF b # NoBeat /\ DdrReady
             THEN IF half = NoBeat THEN half' = b /\ pacc' = rest
                  ELSE half' = NoBeat /\ pacc' = Append(rest, <<half, b>>)
             ELSE half' = half /\ pacc' = rest
        /\ DdrReady => Len(pacc) < PaccDepth
    BY <1>3, <1>4 DEF TakeBeat, DdrReady
  <1>6. PICK p \in Int : p = Popped  BY PoppedInt
  <1>7. PICK len \in Nat : len = Len(pacc)  BY PoppedInt
  <1>8. PICK r \in {0, 1} : r = IF rdEn THEN 1 ELSE 0  OBVIOUS
  <1>9. rdEn => pacc # <<>>  BY DEF Writing
  <1>10. pacc \in Seq(Beat \X Beat) /\ len <= PaccDepth /\ half \in Beat  BY <1>7 DEF DdrTypes, InTypes
  <1>11. /\ rest \in Seq(Beat \X Beat) /\ Len(rest) = len - r
         /\ \A k \in 1..Len(rest) : IsWord(rest[k], wave, (p + r) + k - 1)
    <2>1. rest = IF r = 1 THEN Tail(pacc) ELSE pacc  BY <1>3, <1>8, <1>9
    <2>2. r = 1 => pacc # <<>>  BY <1>8, <1>9
    <2>3. PICK n : n = wave  OBVIOUS
    <2>4. \A k \in 1..Len(pacc) : IsWord(pacc[k], n, p + k - 1)  BY <1>2, <1>6, <2>3
    <2> QED  BY <2>1, <2>2, <2>3, <2>4, <1>7, <1>10, AfterFetch
  <1>12. rest # <<>> => pacc' # <<>>
    <2>1. half \in Beat /\ b \in Beat => <<half, b>> \in Beat \X Beat  OBVIOUS
    <2>2. b # NoBeat => b \in Beat  BY WaveLength DEF DdrIn
    <2>3. b # NoBeat => Append(rest, <<half, b>>) # <<>>  BY <2>1, <2>2, <1>10, <1>11, AppendProperties
    <2> QED  BY <2>3, <1>5
  <1>13. Moved(ready) /\ SlaveTypes'  BY <1>3, <1>12, StreamMoves
  <1>14. Popped' = p + r  BY <1>6, <1>8, <1>13 DEF Moved
  <1>15. \A a \in 0..(Stored' - 1) : IsWord(mem'[a], wave', a)
    BY <1>2, <1>4, <1>5, <1>13, MemoryKeeps DEF Moved
  <1>16. axi' = "idle" => axiDone' /\ addr' = total'  BY <1>5, <1>13 DEF Moved
  <1>17. Writing' /\ AxiTypes'  BY <1>13 DEF Moved
  <1>18. PICK q : q = IF half = NoBeat THEN 2 ELSE 3  OBVIOUS
  <1>19. t.i = 2 * (p + len) + q /\ q \in {2, 3}  BY <1>2, <1>6, <1>7, <1>18
  <1>20. CASE ~(b # NoBeat /\ DdrReady)
    <2>1. m = t /\ half' = half /\ pacc' = rest  BY <1>1, <1>5, <1>20 DEF DdrIn
    <2>2. t.i = 2 * ((p + r) + Len(rest)) + q  BY <1>11, <1>19
    <2>3. t.i = 2 * (Popped' + Len(pacc')) + (IF half' = NoBeat THEN 2 ELSE 3)  BY <2>1, <2>2, <1>14, <1>18
    <2>4. \A k \in 1..Len(pacc') : IsWord(pacc'[k], wave', Popped' + k - 1)  BY <2>1, <1>5, <1>11, <1>14
    <2>5. Taking'
      BY <2>1, <2>3, <2>4, <1>1, <1>2, <1>5, <1>15, <1>16 DEF Taking, IsWord
    <2>6. InTypes'
      <3>1. Len(pacc') <= PaccDepth  BY <2>1, <1>7, <1>10, <1>11, Constants
      <3> QED  BY <3>1, <2>1, <1>5, <1>10, <1>11 DEF InTypes, DdrTypes
    <2> QED  BY <2>5, <2>6, <1>13, <1>17 DEF DdrTypes
  <1>21. CASE b # NoBeat /\ DdrReady
    <2>1. m = b /\ For("ddr", b) /\ Meets(t, b) /\ b.i # 1  BY <1>1, <1>5, <1>21, SMT DEF DdrIn
    <2>2. Follows(b, t)  BY <2>1 DEF Meets
    <2>3. b.h = t.h /\ b.no = wave /\ b.i = t.i + 1 /\ b \in Beat  BY <2>1, <2>2, <1>2, WaveLength DEF Follows
    <2>4. CASE half = NoBeat
      <3>1. half' = b /\ pacc' = rest /\ q = 2  BY <2>4, <1>5, <1>18, <1>21
      <3>2. b.i = 2 * ((p + r) + Len(rest)) + 3  BY <3>1, <2>3, <1>11, <1>19
      <3>3. b.i = 2 * (Popped' + Len(pacc')) + 3  BY <3>1, <3>2, <1>14
      <3>4. \A k \in 1..Len(pacc') : IsWord(pacc'[k], wave', Popped' + k - 1)  BY <3>1, <1>5, <1>11, <1>14
      <3>5. Taking'
        BY <3>1, <3>3, <3>4, <2>1, <2>3, <1>1, <1>2, <1>5, <1>15, <1>16, <1>21 DEF Taking, IsWord
      <3>6. InTypes'
        <4>1. Len(pacc') <= PaccDepth  BY <3>1, <1>7, <1>10, <1>11, Constants
        <4> QED  BY <4>1, <3>1, <2>3, <1>5, <1>11 DEF InTypes, DdrTypes
      <3> QED  BY <3>5, <3>6, <1>13, <1>17 DEF DdrTypes
    <2>5. CASE half # NoBeat
      <3>1. PICK x : x = <<t, b>>  OBVIOUS
      <3>2. half = t /\ half' = NoBeat /\ pacc' = Append(rest, x) /\ q = 3  BY <3>1, <2>5, <1>2, <1>5, <1>18, <1>21
      <3>3. x \in Beat \X Beat  BY <3>1, <3>2, <2>3, <1>10
      <3>4. t.i = 2 * ((p + r) + Len(rest)) + 3  BY <3>2, <1>11, <1>19
      <3>5. (p + r) + Len(rest) \in Int /\ p + r \in Int  BY <1>11
      <3>6. IsWord(x, wave, (p + r) + Len(rest))  BY <3>1, <3>4, <3>5, <2>2, <1>2, WordMade
      <3>7. /\ pacc' \in Seq(Beat \X Beat) /\ Len(pacc') = Len(rest) + 1
            /\ \A k \in 1..Len(pacc') : IsWord(pacc'[k], wave, (p + r) + k - 1)
        <4>1. PICK n : n = wave  OBVIOUS
        <4>2. IsWord(x, n, (p + r) + Len(rest)) /\ \A k \in 1..Len(rest) : IsWord(rest[k], n, (p + r) + k - 1)
          BY <4>1, <3>6, <1>11
        <4> QED  BY <4>1, <4>2, <3>2, <3>3, <3>5, <1>11, OneMore
      <3>8. b.i = 2 * ((p + r) + Len(pacc')) + 2  BY <3>4, <3>5, <3>7, <2>3, <1>11
      <3>9. b.i = 2 * (Popped' + Len(pacc')) + 2  BY <3>8, <1>14
      <3>10. \A k \in 1..Len(pacc') : IsWord(pacc'[k], wave', Popped' + k - 1)  BY <3>7, <1>5, <1>14
      <3>11. Taking'
        BY <3>2, <3>9, <3>10, <2>1, <2>3, <1>1, <1>2, <1>5, <1>15, <1>16, <1>21 DEF Taking, IsWord
      <3>12. InTypes'
        <4>1. Len(pacc') <= PaccDepth  BY <3>7, <1>5, <1>7, <1>10, <1>11, <1>21, Constants
        <4> QED  BY <4>1, <3>2, <3>7, <1>5, Beatless DEF InTypes, DdrTypes
      <3> QED  BY <3>11, <3>12, <1>13, <1>17 DEF DdrTypes
    <2> QED  BY <2>4, <2>5
  <1> QED  BY <1>20, <1>21

\* One cycle of the module.
LEMMA DdrClock ==
    ASSUME DdrTypes, Taking, Writing, NEW t, NEW b, NEW ready, DdrIn(t, b, taken'["ddr"]), TakeDdr(b, ready)
    PROVE  DdrTypes' /\ Taking' /\ Writing'
  <1>1. CASE inState = "idle"  BY <1>1, DdrIdle
  <1>2. CASE inState = "meta"  BY <1>2, DdrMeta
  <1>3. CASE inState = "stream" /\ ~axiDone  BY <1>3, DdrStream
  <1>4. CASE axiDone  BY <1>4, DdrDone
  <1>5. inState \in {"idle", "meta", "stream"}  BY DEF DdrTypes, InTypes
  <1> QED  BY <1>1, <1>2, <1>3, <1>4, <1>5

\* What is in the memory at the end.
LEMMA Stores ==
    ASSUME DdrTypes, Taking, Writing, NEW t, t = taken["ddr"], t = NoBeat \/ For("ddr", t)
    PROVE  WaveStored
  <1> SUFFICES ASSUME axiDone
               PROVE  /\ \A a \in 0..(total - 1) : IsWord(mem[a], wave, a)
                      /\ pacc = <<>> /\ half = NoBeat
    BY DEF WaveStored, IsWord
  <1>1. inState = "stream" /\ pacc = <<>> /\ half = NoBeat /\ Stored = total  BY DoneMeans
  <1>2. \A a \in 0..(Stored - 1) : IsWord(mem[a], wave, a)  BY <1>1, TakingIs
  <1> QED  BY <1>1, <1>2

-----------------------------------------------------------------------------
(* The board: the start, every step, and what follows.                     *)

\* An output that is ready takes what is shown to it.
LEMMA TakenIs ==
    ASSUME NEW see, NEW ready, Dispatch(see, ready)
    PROVE  \A p \in Ports : taken'[p] = IF p \in ready /\ port[p] # NoBeat THEN port[p] ELSE taken[p]
  <1>1. ASSUME NEW outs, NEW b, NEW last, Put(outs, b, last, ready)
        PROVE \A p \in Ports : taken'[p] = IF p \in ready /\ port[p] # NoBeat THEN port[p] ELSE taken[p]
    BY <1>1 DEF Put
  <1> QED  BY <1>1 DEF Dispatch, DispatchHeader, DispatchData, DispatchNothing

\* The invariant holds after power-up,
LEMMA InitIInv == Init => IInv
  <1> SUFFICES ASSUME Init PROVE IInv  OBVIOUS
  <1>1. /\ source = [s \in Sources |-> <<>>]
        /\ state = "idle" /\ remaining = 0 /\ route = {"local"} /\ from = "rx" /\ subst = FALSE
        /\ port = [p \in Ports |-> NoBeat] /\ tlast = FALSE /\ stall = 0 /\ taken = port /\ lossy = FALSE
    BY DEF Init, DispatcherInit
  <1>2. /\ lstate = "idle" /\ lremaining = 0 /\ header = NoBeat /\ beatIdx = 0
        /\ listWord = [k \in 1..2 |-> NoBeat] /\ pulse = <<>>
        /\ reply = [src |-> NoBeat, word |-> [k \in 1..MaxWords |-> NoBeat]]
        /\ replyWr = FALSE /\ struck = FALSE
    BY DEF Init, LocalInit
  <1>3. expectHeader = TRUE /\ dataCnt = 0 /\ latchedHi = NoBeat /\ block = <<>> /\ saved = <<>>
    BY DEF Init, FlashInit
  <1>4. /\ inState = "idle" /\ total = 0 /\ metaValid = FALSE /\ half = NoBeat /\ pacc = <<>>
        /\ rdEn = FALSE /\ axi = "idle" /\ addr = 0 /\ left = 0 /\ burst = 0 /\ cnt = 0
        /\ aw = [valid |-> FALSE, addr |-> 0, len |-> 0]
        /\ w = [valid |-> FALSE, data |-> NoWord, last |-> FALSE]
        /\ axiDone = FALSE /\ slave = [addr |-> 0, due |-> 0, owes |-> FALSE]
        /\ mem = [a \in 0..(MemWords - 1) |-> NoWord] /\ wave = 0
    BY DEF Init, DdrInit
  <1>5. sent = [s \in Sources |-> {}]  BY DEF Init
  <1>24. 0 \in 0..TxTimeout /\ 0 \in 0..MemWords /\ 0 \in 0..BurstMax /\ 0 \in 0..(BurstMax - 1) /\ 0 <= PaccDepth
    BY Constants
  <1>6. DispatcherTypeOK
    <2>1. <<>> \in Seq(Beat) /\ "rx" \in Sources /\ {"local"} \subseteq Ports  BY DEF Sources, Ports
    <2>2. source \in [Sources -> Seq(Beat)]  BY <2>1, <1>1
    <2>3. port \in [Ports -> Beat] /\ taken \in [Ports -> Beat]  BY <1>1, Beatless
    <2> QED  BY <2>1, <2>2, <2>3, <1>1, <1>24 DEF DispatcherTypeOK
  <1>7. LocalTypeOK
    <2>1. <<>> \in Seq(Beat)  OBVIOUS
    <2> QED  BY <2>1, <1>2, Beatless DEF LocalTypeOK
  <1>8. FlashTypeOK
    <2>1. <<>> \in Seq(Words) /\ Len(<<>>) = 0  OBVIOUS
    <2> QED  BY <2>1, <1>3, Beatless, Constants DEF FlashTypeOK
  <1>9. NoWord \in Beat \X Beat  BY Beatless DEF NoWord
  <1>10. InTypes
    <2>1. <<>> \in Seq(Beat \X Beat) /\ Len(<<>>) = 0  OBVIOUS
    <2> QED  BY <2>1, <1>4, <1>24, Beatless DEF InTypes
  <1>11. AxiTypes
    <2>1. aw \in [valid : BOOLEAN, addr : Nat, len : Int]  BY <1>4
    <2>2. w \in [valid : BOOLEAN, data : Beat \X Beat, last : BOOLEAN]  BY <1>4, <1>9
    <2> QED  BY <2>1, <2>2, <1>4, <1>24 DEF AxiTypes
  <1>12. SlaveTypes  BY <1>4, <1>9 DEF SlaveTypes
  <1>13. sent \in [Sources -> SUBSET Header] /\ \A s \in Sources : IsFiniteSet(sent[s])
    <2>1. IsFiniteSet({})  BY FS_EmptySet
    <2> QED  BY <2>1, <1>5
  <1>14. Types  BY <1>6, <1>7, <1>8, <1>10, <1>11, <1>12, <1>13 DEF Types
  <1>15. \A s \in Sources : source[s] = <<>>  BY <1>1
  <1>16. Sourced  BY <1>1, <1>15, ChainPadding DEF Sourced, Routes
  <1>17. \A p \in Ports : port[p] = NoBeat /\ taken[p] = NoBeat  BY <1>1
  <1>18. PutOut  BY <1>1, <1>17, Beatless DEF PutOut, InStep, LastOf
  <1>19. OneWave
    <2>1. \A s \in Sources : Without(source[s]) /\ Single(source[s])
      BY <1>15, ChainPadding DEF Single
    <2> QED  BY <2>1, <1>4 DEF OneWave, Sources
  <1>20. Locally  BY <1>2, <1>17, Beatless DEF Locally, PulseWhole, Ports
  <1>25. Replying  BY <1>2 DEF Replying, Reporting, ReplyWhole
  <1>21. Flashing
    <2>1. taken["flash"] = NoBeat  BY <1>17 DEF Ports
    <2>2. Payload(<<>>, 0) /\ Len(<<>>) = 0 /\ BlockWhole  BY <1>3 DEF Payload, BlockWhole
    <2> QED  BY <2>1, <2>2, <1>3, Beatless DEF Flashing
  <1>22. Taking
    <2>1. taken["ddr"] = NoBeat  BY <1>17 DEF Ports
    <2> QED  BY <2>1, <1>4, Beatless DEF Taking
  <1>23. Writing  BY <1>4 DEF Writing
  <1> QED  BY <1>14, <1>16, <1>18, <1>19, <1>20, <1>21, <1>22, <1>23, <1>25 DEF IInv

\* Nothing but the sources and the link changes.
LEMMA Steady ==
    ASSUME UNCHANGED <<taken, localVars, flashVars, ddrVars>>, IInv
    PROVE  /\ Locally' /\ Replying' /\ Flashing' /\ Taking' /\ Writing'
           /\ LocalTypeOK' /\ FlashTypeOK' /\ InTypes' /\ AxiTypes' /\ SlaveTypes'
  <1>1. taken' = taken /\ UNCHANGED localVars /\ UNCHANGED flashVars /\ UNCHANGED ddrVars  OBVIOUS
  <1>2. Locally /\ Replying /\ Flashing /\ Taking /\ Writing /\ Types  BY DEF IInv
  <1>3. Locally'  BY <1>1, <1>2 DEF Locally, localVars, Kept, Keeps, PulseWhole
  <1>14. Replying'  BY <1>1, <1>2 DEF Replying, localVars, Reporting, ReplyWhole
  <1>4. Flashing'
    <2>1. BlockWhole'  BY <1>1, <1>2, FlashIs DEF flashVars, BlockWhole
    <2> QED  BY <2>1, <1>1, <1>2, FlashIs, FlashIsPrimed DEF flashVars
  <1>5. Popped' = Popped /\ Stored' = Stored
    BY <1>1 DEF ddrVars, inVars, axiVars, Popped, Stored, At, Captured
  <1>6. Captured' = Captured  BY <1>1 DEF ddrVars, axiVars, Captured
  <1>7. Taking'  BY <1>1, <1>2, <1>5 DEF Taking, ddrVars, inVars, axiVars, IsWord
  <1>8. Writing'  BY <1>1, <1>2, <1>5, <1>6 DEF Writing, ddrVars, inVars, axiVars, IsWord
  <1>9. LocalTypeOK'  BY <1>1, <1>2 DEF Types, LocalTypeOK, localVars
  <1>10. FlashTypeOK'  BY <1>1, <1>2 DEF Types, FlashTypeOK, flashVars
  <1>11. InTypes'  BY <1>1, <1>2 DEF Types, InTypes, ddrVars, inVars
  <1>12. AxiTypes'  BY <1>1, <1>2 DEF Types, AxiTypes, ddrVars, axiVars
  <1>13. SlaveTypes'  BY <1>1, <1>2 DEF Types, SlaveTypes, ddrVars
  <1> QED  BY <1>3, <1>4, <1>7, <1>8, <1>9, <1>10, <1>11, <1>12, <1>13, <1>14

\* The link.
LEMMA LinkIInv ==
    ASSUME IInv, UNCHANGED <<dispatcherVars, localVars, flashVars, ddrVars, sent>>
    PROVE  IInv'
  <1>1. UNCHANGED dispatcherVars /\ UNCHANGED ddrVars /\ sent' = sent  OBVIOUS
  <1>2. Types /\ Sourced /\ PutOut /\ OneWave  BY DEF IInv
  <1>3. Sourced'  BY <1>1, <1>2 DEF Sourced, Next1, dispatcherVars
  <1>4. PutOut'  BY <1>1, <1>2 DEF PutOut, InStep, Honest, LastOf, Next1, dispatcherVars
  <1>5. OneWave'  BY <1>1, <1>2 DEF OneWave, Busy, dispatcherVars, ddrVars, inVars
  <1>6. DispatcherTypeOK'  BY <1>1, <1>2 DEF Types, DispatcherTypeOK, dispatcherVars
  <1>7. /\ Locally' /\ Replying' /\ Flashing' /\ Taking' /\ Writing'
        /\ LocalTypeOK' /\ FlashTypeOK' /\ InTypes' /\ AxiTypes' /\ SlaveTypes'
    BY Steady DEF dispatcherVars
  <1>8. Types'  BY <1>1, <1>2, <1>6, <1>7 DEF Types
  <1> QED  BY <1>3, <1>4, <1>5, <1>7, <1>8 DEF IInv

\* A packet comes.
LEMMA Joins ==
    ASSUME NEW q \in Seq(Beat), Chain(q), Single(q), NEW h \in Header, PacketOk(h), NEW no \in Nat, NEW pads \in BOOLEAN,
           h.kind = "wave" => Without(q)
    PROVE  LET c == q \o Beats(h, no) \o IF pads THEN <<Padding>> ELSE <<>> IN
           /\ c \in Seq(Beat) /\ Chain(c) /\ c # <<>> /\ Single(c)
           /\ IF q = <<>> THEN c[1].i = 1 ELSE c[1] = q[1]
           /\ h.kind # "wave" /\ Without(q) => Without(c)
  <1>1. PICK r : r = Beats(h, no)  OBVIOUS
  <1>2. /\ r \in Seq(Beat) /\ Chain(r) /\ r # <<>> /\ r[1].i = 1 /\ Single(r)
        /\ h.kind # "wave" => Without(r)
    BY <1>1, ChainBeats
  <1>3. PICK d : d = q \o r  OBVIOUS
  <1>4. d \in Seq(Beat) /\ Chain(d) /\ d # <<>> /\ d[1] = IF q = <<>> THEN r[1] ELSE q[1]
    BY <1>2, <1>3, ChainConcat
  <1>5. Single(d) /\ (h.kind # "wave" /\ Without(q) => Without(d))  BY <1>2, <1>3, WaveConcat
  <1>6. IF q = <<>> THEN d[1].i = 1 ELSE d[1] = q[1]  BY <1>2, <1>4
  <1>7. CASE ~pads
    <2>1. d \o <<>> = d  BY <1>4, ConcatEmptySeq
    <2> QED  BY <2>1, <1>1, <1>3, <1>4, <1>5, <1>6, <1>7
  <1>8. CASE pads
    <2>1. PICK p : p = <<Padding>>  OBVIOUS
    <2>2. p \in Seq(Beat) /\ Chain(p) /\ p # <<>> /\ p[1].i = 1 /\ Without(p)  BY <2>1, ChainPadding
    <2>3. PICK c : c = d \o p  OBVIOUS
    <2>4. c \in Seq(Beat) /\ Chain(c) /\ c # <<>> /\ c[1] = IF d = <<>> THEN p[1] ELSE d[1]
      BY <2>2, <2>3, <1>4, ChainConcat
    <2>5. Single(p)  BY <2>2 DEF Without, Single
    <2>6. Single(c) /\ (Without(d) => Without(c))  BY <2>2, <2>3, <2>5, <1>4, <1>5, WaveConcat
    <2> QED  BY <2>1, <2>3, <2>4, <2>6, <1>1, <1>3, <1>4, <1>5, <1>6, <1>8
  <1> QED  BY <1>7, <1>8

\* A packet comes, and the invariant.
LEMMA SendIInv ==
    ASSUME IInv, NEW s \in Sources, Send(s)
    PROVE  IInv'
  <1>1. Types /\ Sourced /\ PutOut /\ OneWave  BY DEF IInv
  <1>2. PICK no : no = Cardinality(sent["rx"]) + Cardinality(sent["fp"]) + 1  OBVIOUS
  <1>3. no \in Nat
    <2>1. IsFiniteSet(sent["rx"]) /\ IsFiniteSet(sent["fp"])  BY <1>1 DEF Types, Sources
    <2>2. Cardinality(sent["rx"]) \in Nat /\ Cardinality(sent["fp"]) \in Nat  BY <2>1, FS_CardinalityType
    <2> QED  BY <2>2, <1>2
  <1>4. PICK pads \in BOOLEAN : pads <=> s = "fp"  OBVIOUS
  <1>5. PICK h \in Menu[s] \ sent[s] :
          /\ h.kind = "wave" => MaySendWave
          /\ source' = [source EXCEPT ![s] = source[s] \o Beats(h, no) \o IF pads THEN <<Padding>> ELSE <<>>]
          /\ sent' = [sent EXCEPT ![s] = sent[s] \cup {h}]
          /\ UNCHANGED <<me, up, state, remaining, route, from, subst, port, tlast, stall, taken,
                         lossy, localVars, flashVars, ddrVars, faults>>
    BY <1>2, <1>4 DEF Send, Beats
  <1>6. h \in Header /\ PacketOk(h)  BY Constants, PacketAssumption
  <1>7. PICK q : q = source[s]  OBVIOUS
  <1>8. q \in Seq(Beat) /\ Chain(q) /\ Single(q) /\ source \in [Sources -> Seq(Beat)]
    BY <1>1, <1>7 DEF Types, DispatcherTypeOK, Sourced, OneWave
  <1>9. h.kind = "wave" => ~Busy /\ \A x \in Sources : Without(source[x])
    <2> SUFFICES ASSUME h.kind = "wave" PROVE ~Busy /\ \A x \in Sources : Without(source[x])  OBVIOUS
    <2>1. ~WaveComing  BY <1>5 DEF MaySendWave
    <2>2. inState = "idle" /\ port["ddr"] = NoBeat /\ ~(state = "data" /\ route = {"ddr"})  BY <2>1 DEF WaveComing
    <2>3. "ddr" \in route => route = {"ddr"}  BY <1>1, RoutesIs DEF Sourced
    <2>4. \A x \in Sources : Without(source[x])
      <3> TAKE x \in Sources
      <3>1. source[x] \in Seq(Beat)  BY <1>8
      <3>2. DOMAIN source[x] = 1..Len(source[x])  BY <3>1, LenProperties
      <3> QED  BY <3>2, <2>1 DEF WaveComing, Without, Wavy
    <2> QED  BY <2>2, <2>3, <2>4 DEF Busy
  <1>10. PICK c : c = q \o Beats(h, no) \o IF pads THEN <<Padding>> ELSE <<>>  OBVIOUS
  <1>11. /\ c \in Seq(Beat) /\ Chain(c) /\ c # <<>> /\ Single(c)
         /\ IF q = <<>> THEN c[1].i = 1 ELSE c[1] = q[1]
         /\ h.kind # "wave" /\ Without(q) => Without(c)
    BY <1>3, <1>6, <1>7, <1>8, <1>9, <1>10, Joins
  <1>12. source' = [source EXCEPT ![s] = c]  BY <1>5, <1>7, <1>10
  <1>13. source'[s] = c /\ \A x \in Sources : x # s => source'[x] = source[x]  BY <1>8, <1>12
  <1>14. source' \in [Sources -> Seq(Beat)]  BY <1>8, <1>11, <1>12
  <1>15. /\ state' = state /\ remaining' = remaining /\ route' = route /\ from' = from /\ subst' = subst
         /\ port' = port /\ tlast' = tlast /\ stall' = stall /\ taken' = taken /\ lossy' = lossy
         /\ UNCHANGED localVars /\ UNCHANGED flashVars /\ UNCHANGED ddrVars
    BY <1>5
  <1>16. ASSUME state = "data" PROVE source'[from] # <<>> /\ Next1' = Next1
    <2>1. source[from] # <<>> /\ from \in Sources  BY <1>1, <1>16 DEF Sourced, Types, DispatcherTypeOK
    <2>2. CASE from = s  BY <2>1, <2>2, <1>7, <1>11, <1>13, <1>15 DEF Next1
    <2>3. CASE from # s  BY <2>1, <2>3, <1>13, <1>15 DEF Next1
    <2> QED  BY <2>2, <2>3
  <1>17. Sourced'
    <2>1. \A x \in Sources : Chain(source'[x])  BY <1>1, <1>11, <1>13 DEF Sourced
    <2>2. \A x \in Sources : source'[x] # <<>> /\ ~(state' = "data" /\ from' = x) => source'[x][1].i = 1
      <3> TAKE x \in Sources
      <3>1. CASE x # s  BY <3>1, <1>1, <1>13, <1>15 DEF Sourced
      <3>2. CASE x = s
        <4> SUFFICES ASSUME ~(state = "data" /\ from = s) PROVE c[1].i = 1  BY <3>2, <1>13, <1>15
        <4>1. q # <<>> => q[1].i = 1  BY <1>1, <1>7 DEF Sourced
        <4> QED  BY <4>1, <1>11
      <3> QED  BY <3>1, <3>2
    <2>3. route' \in Routes  BY <1>1, <1>15 DEF Sourced
    <2>4. state' = "data" => /\ source'[from'] # <<>> /\ Good(Next1') /\ Next1'.i >= 2
                             /\ remaining' = Next1'.h.len - Next1'.i + 1
                             /\ "ddr" \in route' => Next1'.h.kind = "wave"
                             /\ "flash" \in route' => Next1'.h.kind = "flash"
      BY <1>1, <1>15, <1>16 DEF Sourced
    <2> QED  BY <2>1, <2>2, <2>3, <2>4 DEF Sourced
  <1>18. PutOut'
    <2>1. \A p \in Ports : LastOf(p)' = LastOf(p) /\ (Honest(p)' <=> Honest(p))  BY <1>15 DEF LastOf, Honest
    <2>2. \A p \in Ports : InStep(p) => InStep(p)'
      <3> TAKE p \in Ports
      <3> SUFFICES ASSUME InStep(p) PROVE InStep(p)'  OBVIOUS
      <3>1. port[p] # NoBeat => Meets(taken'[p], port'[p])  BY <1>15 DEF InStep
      <3>2. IF state' = "data" /\ p \in route'
              THEN /\ LastOf(p)'.i # LastOf(p)'.h.len /\ Follows(Next1', LastOf(p)')
                   /\ (subst' <=> Numbers(LastOf(p)'))
              ELSE LastOf(p)'.i = LastOf(p)'.h.len
        BY <2>1, <1>15, <1>16 DEF InStep
      <3>3. p = "tx" /\ port'[p] # NoBeat => (tlast' <=> port'[p].i = port'[p].h.len)  BY <1>15 DEF InStep
      <3> QED  BY <3>1, <3>2, <3>3, <1>15 DEF InStep
    <2> QED  BY <2>1, <2>2, <1>1, <1>15 DEF PutOut
  <1>19. OneWave'
    <2>1. \A x \in Sources : Single(source'[x])  BY <1>1, <1>11, <1>13 DEF OneWave
    <2>2. Busy' <=> Busy  BY <1>15 DEF Busy, ddrVars, inVars
    <2>3. inState' = inState  BY <1>15 DEF ddrVars, inVars
    <2>4. CASE h.kind = "wave"
      <3>1. PICK x \in Sources : x # s  BY DEF Sources
      <3>2. Without(source'[x])  BY <3>1, <2>4, <1>9, <1>13
      <3> QED  BY <3>2, <2>1, <2>2, <2>3, <2>4, <1>1, <1>9, <1>15 DEF OneWave
    <2>5. CASE h.kind # "wave"
      <3>1. \A x \in Sources : Without(source[x]) => Without(source'[x])  BY <2>5, <1>7, <1>11, <1>13
      <3> QED  BY <3>1, <2>1, <2>2, <2>3, <1>1, <1>15 DEF OneWave
    <2> QED  BY <2>4, <2>5
  <1>20. sent' \in [Sources -> SUBSET Header] /\ \A x \in Sources : IsFiniteSet(sent'[x])
    <2>1. sent \in [Sources -> SUBSET Header] /\ \A x \in Sources : IsFiniteSet(sent[x])  BY <1>1 DEF Types
    <2>2. IsFiniteSet(sent[s] \cup {h})  BY <2>1, FS_AddElement
    <2> QED  BY <2>1, <2>2, <1>5, <1>6
  <1>21. DispatcherTypeOK'  BY <1>1, <1>14, <1>15 DEF Types, DispatcherTypeOK
  <1>22. /\ Locally' /\ Replying' /\ Flashing' /\ Taking' /\ Writing'
         /\ LocalTypeOK' /\ FlashTypeOK' /\ InTypes' /\ AxiTypes' /\ SlaveTypes'
    BY <1>15, Steady
  <1>23. Types'  BY <1>20, <1>21, <1>22 DEF Types
  <1> QED  BY <1>17, <1>18, <1>19, <1>22, <1>23 DEF IInv

\* One cycle of sys_clk.
LEMMA ClockIInv ==
    ASSUME IInv, NEW see \in SUBSET Waiting, NEW outside, NEW debug \in BOOLEAN, Clock(see, outside, debug)
    PROVE  IInv'
  <1>1. /\ Types /\ Sourced /\ PutOut /\ OneWave /\ Locally /\ Replying /\ Flashing /\ Taking /\ Writing
        /\ DispatcherTypeOK
    BY DEF IInv, Types
  <1>2. PICK ready : ready = {"local"} \cup (outside \cap {"tx"})
                             \cup (IF DdrReady THEN {"ddr"} ELSE {}) \cup (IF FlashReady THEN {"flash"} ELSE {})
    OBVIOUS
  <1>13. PICK aside \in SUBSET {"own", "debug"} :
             /\ "own" \in aside => Asked
             /\ aside = (IF Asked THEN {"own"} ELSE {}) \cup (IF debug THEN {"debug"} ELSE {})
    <2>1. (IF Asked THEN {"own"} ELSE {}) \cup (IF debug THEN {"debug"} ELSE {}) \in SUBSET {"own", "debug"}
      OBVIOUS
    <2>2. "own" \in (IF Asked THEN {"own"} ELSE {}) \cup (IF debug THEN {"debug"} ELSE {}) => Asked
      OBVIOUS
    <2> QED  BY <2>1, <2>2
  <1>3. /\ Dispatch(see, ready) /\ TakeLocal(port["local"], aside) /\ TakeFlash(port["flash"])
        /\ TakeDdr(port["ddr"], outside) /\ sent' = sent
    BY <1>2, <1>13 DEF Clock
  <1>4. /\ "local" \in ready /\ ("ddr" \in ready <=> DdrReady) /\ ("flash" \in ready <=> FlashReady)
    BY <1>2
  <1>5. Sourced' /\ PutOut' /\ DispatcherTypeOK'
    <2>1. CASE DispatchHeader(see, ready)  BY <2>1, <1>1, HeaderSourced, HeaderPut
    <2>2. CASE DispatchData(see, ready)  BY <2>2, <1>1, DataSourced, DataPut
    <2>3. CASE DispatchNothing(see, ready)  BY <2>3, <1>1, NothingSourced, NothingPut
    <2> QED  BY <2>1, <2>2, <2>3, <1>3 DEF Dispatch
  <1>6. OneWave'
    <2>1. TakeBeat(port["ddr"])  BY <1>3 DEF TakeDdr
    <2> QED  BY <2>1, <1>1, <1>3, <1>4, WaveClock
  <1>7. \A p \in Ports : taken'[p] = IF p \in ready /\ port[p] # NoBeat THEN port[p] ELSE taken[p]
    BY <1>3, TakenIs
  <1>8. ASSUME NEW p \in Ports, p # "tx"
        PROVE  /\ taken[p] = NoBeat \/ For(p, taken[p])
               /\ port[p] = NoBeat \/ (For(p, port[p]) /\ Meets(taken[p], port[p]))
    <2>1. Honest(p)  BY <1>8 DEF Honest
    <2> QED  BY <2>1, <1>1, PutOutIs DEF InStep
  <1>9. Locally' /\ Replying' /\ LocalTypeOK'
    <2>1. PICK l, b : l = taken["local"] /\ b = port["local"]  OBVIOUS
    <2>2. LocalIn(l, b, taken'["local"])  BY <2>1, <1>4, <1>7, <1>8 DEF LocalIn, Ports, For
    <2>3. (TakeHeader(b) \/ TakeData(b) \/ TakeNothing(b)) /\ TakeReply(b, aside)
      BY <2>1, <1>3 DEF TakeLocal
    <2>4. PacketTypes /\ ReplyTypes  BY <1>1 DEF Types, LocalTypeOK, PacketTypes, ReplyTypes
    <2>5. Locally' /\ PacketTypes'  BY <2>2, <2>3, <2>4, <1>1, LocalHeader, LocalData, LocalNothing
    <2>6. Replying' /\ ReplyTypes'  BY <2>2, <2>3, <2>4, <1>1, <1>13, ReplyClock
    <2>7. LocalTypeOK'  BY <2>5, <2>6 DEF LocalTypeOK, PacketTypes, ReplyTypes
    <2> QED  BY <2>5, <2>6, <2>7
  <1>10. Flashing' /\ FlashTypeOK'
    <2>1. PICK f, b : f = taken["flash"] /\ b = port["flash"]  OBVIOUS
    <2>2. FlashIn(f, b, taken'["flash"])  BY <2>1, <1>4, <1>7, <1>8 DEF FlashIn, Ports
    <2>3. TakeFlash(b)  BY <2>1, <1>3
    <2>4. FlashTypeOK  BY <1>1 DEF Types
    <2> QED  BY <2>2, <2>3, <2>4, <1>1, FlashClock
  <1>11. DdrTypes' /\ Taking' /\ Writing'
    <2>1. PICK t, b : t = taken["ddr"] /\ b = port["ddr"]  OBVIOUS
    <2>2. inState # "idle" /\ b # NoBeat => b.i # 1  BY <2>1, <1>1 DEF OneWave
    <2>3. DdrIn(t, b, taken'["ddr"])  BY <2>1, <2>2, <1>4, <1>7, <1>8 DEF DdrIn, Ports
    <2>4. TakeDdr(b, outside)  BY <2>1, <1>3
    <2>5. DdrTypes  BY <1>1 DEF Types, DdrTypes
    <2> QED  BY <2>3, <2>4, <2>5, <1>1, DdrClock
  <1>12. Types'  BY <1>1, <1>3, <1>5, <1>9, <1>10, <1>11 DEF Types, DdrTypes
  <1> QED  BY <1>5, <1>6, <1>9, <1>10, <1>11, <1>12 DEF IInv

\* Every step keeps the invariant, so it holds always.
LEMMA NextIInv == IInv /\ [Next]_vars => IInv'
  <1> SUFFICES ASSUME IInv, [Next]_vars PROVE IInv'  OBVIOUS
  <1>1. ASSUME NEW s \in Sources, Send(s) PROVE IInv'  BY <1>1, SendIInv
  <1>2. CASE Link  BY <1>2, LinkIInv DEF Link
  <1>3. ASSUME NEW see \in SUBSET Waiting, NEW outside \in SUBSET Offered, NEW debug \in BOOLEAN,
               Clock(see, outside, debug)
        PROVE  IInv'
    BY <1>3, ClockIInv
  <1>4. CASE UNCHANGED vars  BY <1>4, LinkIInv DEF vars
  <1> QED  BY <1>1, <1>2, <1>3, <1>4 DEF Next

\* A board always satisfies the invariant.
LEMMA Kernel == Spec => []IInv
  BY InitIInv, NextIInv, PTL DEF Spec

\* The invariant types every variable.
LEMMA IInvTypes == IInv => TypeOK
  BY DEF IInv, Types, TypeOK, DispatcherTypeOK, LocalTypeOK, FlashTypeOK, DdrTypeOK, InTypes, AxiTypes

\* Every variable of the dispatcher, the registers, the flash path and the waveform
\* writer keeps its type: the beat counts stay within the packet and pacc_fifo within its
\* depth, whatever comes in whatever rhythm.
THEOREM BoardTypes == Spec => []TypeOK
  BY Kernel, IInvTypes, PTL

\* A pulse of local_reg_handler.v carries the values of one whole packet, each
\* taken from its own beat, and a T_BOARD_ID_ASSIGN carries this board's values exactly when
\* it came by USB.  au_reply_wr stands beside one whole answer, though the board's own answers
\* are written past the packets: only a debug trigger between the beats of a report mixes two.
THEOREM BoardFiresWhole == Spec => []FiredWhole
  <1>1. IInv => FiredWhole  BY DEF IInv, Locally, Replying, FiredWhole
  <1> QED  BY <1>1, Kernel, PTL

\* A block that flash_payload_cdc.v has completed holds the payload words of one
\* packet in the order of the host, however USB and the ring took turns.
THEOREM BoardBlockWhole == Spec => []BlockWhole
  <1>1. IInv => BlockWhole  BY FlashIs DEF IInv
  <1> QED  BY <1>1, Kernel, PTL

\* When ddr_writer.v has its last write response, the memory holds the packet's words
\* in their order, and no beat of it is left in pacc_fifo or half_buf, whatever the length of
\* the waveform, of a burst and of the FIFO, and however the controller makes it wait.
THEOREM BoardWaveStored == Spec => []WaveStored
  <1>1. IInv => WaveStored
    <2> SUFFICES ASSUME IInv PROVE WaveStored  OBVIOUS
    <2>1. PICK t : t = taken["ddr"]  OBVIOUS
    <2>2. t = NoBeat \/ For("ddr", t)  BY <2>1, PutOutIs DEF IInv, Ports
    <2>3. DdrTypes /\ Taking /\ Writing  BY DEF IInv, Types, DdrTypes
    <2> QED  BY <2>1, <2>2, <2>3, Stores
  <1> QED  BY <1>1, Kernel, PTL

\* What an output hands over in a cycle follows what it handed over before.
LEMMA HandsWhole ==
    ASSUME IInv, NEW see, NEW outside, NEW debug, Clock(see, outside, debug), NEW p \in Ports, Handed(p)
    PROVE  LET a == taken[p]  b == taken'[p] IN
           /\ IF a.i = a.h.len THEN b.i = 1 ELSE b.no = a.no /\ b.i = a.i + 1
           /\ p = "tx" => (tlast <=> b.i = b.h.len)
  <1>1. PICK ready : Dispatch(see, ready)  BY DEF Clock
  <1>2. taken'[p] = port[p] /\ port[p] # NoBeat  BY <1>1, TakenIs DEF Handed
  <1>3. Honest(p)  BY DEF Handed, Honest
  <1>4. InStep(p)  BY <1>3, PutOutIs DEF IInv
  <1>5. Meets(taken[p], port[p]) /\ (p = "tx" => (tlast <=> port[p].i = port[p].h.len))  BY <1>2, <1>4 DEF InStep
  <1> QED  BY <1>2, <1>5 DEF Meets, Follows

\* Each output of pkt_dispatcher.v hands over whole packets one after the other, and
\* the ring's ends with tlast, until a beat has been dropped there: the order of the beats
\* survives every pause of a source and of an output.
THEOREM BoardWholePackets == Spec => WholePackets
  <1> DEFINE Whole == \A p \in Ports : Handed(p) =>
        LET a == taken[p]  b == taken'[p] IN
        /\ IF a.i = a.h.len THEN b.i = 1 ELSE b.no = a.no /\ b.i = a.i + 1
        /\ p = "tx" => (tlast <=> b.i = b.h.len)
  <1>1. IInv /\ [Next]_vars => [Whole]_taken
    <2> SUFFICES ASSUME IInv, Next, taken' # taken PROVE Whole  BY DEF vars, dispatcherVars
    <2>1. PICK see \in SUBSET Waiting, outside \in SUBSET Offered, debug \in BOOLEAN : Clock(see, outside, debug)
      BY DEF Next, Send, Link, dispatcherVars
    <2> QED  BY <2>1, HandsWhole
  <1> QED  BY <1>1, Kernel, PTL DEF Spec, WholePackets

=============================================================================
