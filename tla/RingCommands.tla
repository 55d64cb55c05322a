----------------------------- MODULE RingCommands -----------------------------
(***************************************************************************)
(* The way of a host's command round the ring, frame by frame: the USB     *)
(* queue and dispatcher.v of the board it is given to, the data channel    *)
(* (aurora_data_channel_relayfifo.v) of every board it passes, and the     *)
(* dispatcher of every board it is delivered to.  A broadcast is passed on *)
(* twice by each board: by the data channel, and again by the dispatcher   *)
(* to which the data channel has given its copy.  The gate refuses a frame *)
(* for a board that is not there beat by beat: the receiver takes the      *)
(* second beat for a frame of its own, and passes it on without an end.    *)
(***************************************************************************)
EXTENDS Naturals, Sequences, FiniteSets, SequencesExt

CONSTANTS
    N,        \* boards in the ring, numbered by T_BOARD_ID_ASSIGN
    Hosts,    \* the boards that have a host
    Dests,    \* destinations the hosts use
    All,      \* 0xFFFF
    Budget,   \* Budget[h]: commands of host h
    Strays    \* frames the second beat of a command can read as; their no is 0

Boards == 0..(N - 1)
After(b) == (b + 1) % N

ASSUME RingAssumption == /\ N \in Nat \ {0, 1} /\ Hosts \subseteq Boards
                         /\ All \in Nat /\ All > N
                         /\ Dests \subseteq Nat /\ Budget \in [Hosts -> Nat]
                         /\ Strays # {}
                         /\ Strays \subseteq [src : Nat, dest : Nat, no : {0}]

Numbers == UNION {0..Budget[h] : h \in Hosts}
Command == [src : Hosts, dest : Dests, no : Numbers \ {0}]
IsCommand(f) == f.no # 0

VARIABLES
    fp,       \* fp[b]: the USB queue of board b, fp_input_wr and fp_input_rd
    rx,       \* rx[b]: async_fifo_aurora_rx, frames for the dispatcher of b
    tx,       \* tx[b]: async_fifo_aurora_tx, frames from the dispatcher of b
    relay,    \* relay[b]: relay_fifo_0
    local,    \* local[b]: async_fifo_local, frames for the registers of b
    holding,  \* holding[b]: the transmitter of b waits in TX_RELAY for a beat with tlast
    sent,     \* history: the commands the hosts have written
    applied,  \* history: applied[b], the commands board b has carried out
    last,     \* history: last[b][h], number of the last one of host h
    unpaced   \* history: a host has sent while some transmitter was holding

queues == <<fp, rx, tx, relay, local>>
carried == <<applied, last>>
vars == <<queues, holding, sent, carried, unpaced>>

Init ==
    /\ fp = [b \in Boards |-> <<>>] /\ rx = fp /\ tx = fp /\ relay = fp /\ local = fp
    /\ holding = [b \in Boards |-> FALSE]
    /\ sent = {} /\ unpaced = FALSE
    /\ applied = [b \in Boards |-> {}]
    /\ last = [b \in Boards |-> [h \in Hosts |-> 0]]

Push(queue, b, f) == [queue EXCEPT ![b] = Append(@, f)]
Pop(queue, b) == [queue EXCEPT ![b] = Tail(@)]
-----------------------------------------------------------------------------
\* send_pkt: the host writes a command into its board's queue.  Before and after a
\* broadcast it waits 10 ms, in which every copy of what it sent has arrived, unless a
\* transmitter is holding what waits behind it.
\* (Variant: it does not wait.)
Everywhere == {f \in UNION {ToSet(q[b]) : q \in {fp, rx, tx, relay, local}, b \in Boards} :
                  IsCommand(f)}
Held == \E b \in Boards : holding[b]
Written(h, d) ==
    LET mine == {c \in sent : c.src = h}
        c == [src |-> h, dest |-> d, no |-> Cardinality(mine) + 1]
    IN /\ Cardinality(mine) < Budget[h]
       /\ fp' = Push(fp, h, c) /\ sent' = sent \cup {c}
       /\ unpaced' = (unpaced \/ Held)
       /\ UNCHANGED <<rx, tx, relay, local, holding, carried>>
MaySendAtOnce(h, d) == TRUE
MaySend(h, d) ==
    ~Held /\ (d = All \/ \E c \in Everywhere : c.src = h /\ c.dest = All)
        => \A c \in Everywhere : c.src # h
Send(h) == \E d \in Dests : MaySend(h, d) /\ Written(h, d)

\* dispatcher.v, idle_route: a frame for this board goes to its registers, a broadcast
\* there and on to the ring, any other frame on to the ring.
\* (Variant: a broadcast goes to the registers only.)
RoutedHere(b, f) ==
    /\ local' = IF f.dest \in {b, All} THEN Push(local, b, f) ELSE local
    /\ tx' = IF f.dest \notin {b, All} THEN Push(tx, b, f) ELSE tx
Routed(b, f) ==
    /\ local' = IF f.dest \in {b, All} THEN Push(local, b, f) ELSE local
    /\ tx' = IF f.dest # b THEN Push(tx, b, f) ELSE tx

\* Frames from the ring come first.  The header of a host's frame gets this board's id
\* as its source; the model has it there from the start.
DispatchRx(b) ==
    /\ rx[b] # <<>>
    /\ Routed(b, Head(rx[b])) /\ rx' = Pop(rx, b)
    /\ UNCHANGED <<fp, relay, holding, sent, carried, unpaced>>
DispatchFp(b) ==
    /\ rx[b] = <<>> /\ fp[b] # <<>>
    /\ Routed(b, Head(fp[b])) /\ fp' = Pop(fp, b)
    /\ UNCHANGED <<rx, relay, holding, sent, carried, unpaced>>

\* local_reg_handler.v carries the command out.
Apply(b) == LET f == Head(local[b]) IN
    /\ local[b] # <<>>
    /\ local' = Pop(local, b)
    /\ applied' = [applied EXCEPT ![b] = @ \cup {f}]
    /\ last' = [last EXCEPT ![b][f.src] = f.no]
    /\ UNCHANGED <<fp, rx, tx, relay, holding, sent, unpaced>>

\* The receiver of the data channel.  (total_boards is N on a numbered ring.)
\* (Variant: the gate lets every destination pass.)
GateOkAll(f) == f.src < N
GateOk(f) == f.src < N /\ (f.dest = All \/ f.dest < N)
RingReturn(b, f) == f.dest = All /\ f.src = b
ToLocal(b, f) == GateOk(f) /\ (f.dest = b \/ (f.dest = All /\ ~RingReturn(b, f)))
ToRelay(b, f) == GateOk(f) /\ f.dest # b /\ ~RingReturn(b, f)

\* What the receiver takes in: a command whose header is refused leaves it idle, so that
\* the second beat is read as the header of a frame.  The dispatcher drops such a frame,
\* whose length is zero, as padding.
Reads(f) == IF GateOk(f) THEN {f} ELSE Strays
Received(b, f) == rx' = IF ToLocal(b, f) /\ IsCommand(f) THEN Push(rx, b, f) ELSE rx

\* The transmitter of board b, and with it the receiver of the next board.  Which of
\* its two queues has its turn DataChannel models; here either may.  A frame of length
\* zero has no last beat: after it the transmitter takes only from the relay FIFO until a
\* command has passed.  (A lock of the local queue is a delay here.)
TransmitRelay(b) ==
    /\ relay[b] # <<>>
    /\ \E f \in Reads(Head(relay[b])) :
         /\ Received(After(b), f)
         /\ relay' = IF ToRelay(After(b), f) THEN Push(Pop(relay, b), After(b), f)
                                             ELSE Pop(relay, b)
    /\ holding' = [holding EXCEPT ![b] = ~IsCommand(Head(relay[b]))]
    /\ UNCHANGED <<fp, tx, local, sent, carried, unpaced>>
TransmitLocal(b) ==
    /\ ~holding[b] /\ tx[b] # <<>> /\ tx' = Pop(tx, b)
    /\ \E f \in Reads(Head(tx[b])) :
         /\ Received(After(b), f)
         /\ relay' = IF ToRelay(After(b), f) THEN Push(relay, After(b), f) ELSE relay
    /\ UNCHANGED <<fp, local, holding, sent, carried, unpaced>>

Dispatch(b) == DispatchRx(b) \/ DispatchFp(b)

Next == \/ \E h \in Hosts : Send(h)
        \/ \E b \in Boards : Dispatch(b) \/ Apply(b) \/ TransmitRelay(b) \/ TransmitLocal(b)

\* The clocks run on every board; the two queues of a transmitter take turns.
Fairness == \A b \in Boards : /\ WF_vars(Dispatch(b)) /\ WF_vars(Apply(b))
                              /\ WF_vars(TransmitRelay(b)) /\ WF_vars(TransmitLocal(b))

Spec == Init /\ [][Next]_vars
LiveSpec == Spec /\ Fairness
-----------------------------------------------------------------------------
Addressed(c) == IF c.dest = All THEN Boards ELSE Boards \cap {c.dest}
Quiet == \A b \in Boards : <<>> = fp[b] \o rx[b] \o tx[b] \o relay[b] \o local[b]

TypeOK ==
    /\ \A q \in {fp, rx, tx, local} : q \in [Boards -> Seq(Command)]
    /\ relay \in [Boards -> Seq(Command \cup Strays)]
    /\ holding \in [Boards -> BOOLEAN] /\ unpaced \in BOOLEAN
    /\ sent \subseteq Command
    /\ applied \in [Boards -> SUBSET Command]
    /\ last \in [Boards -> [Hosts -> Numbers]]

\* A board carries out the commands of one host in the order the host gave them, repeats
\* included, although broadcasts and single commands travel through different queues: no
\* setting is overwritten by a late copy of an earlier one.  It rests on the 10 ms, and
\* so on every command having been sent while no transmitter was holding.
InOrder ==
    [][~unpaced => \A b \in Boards, h \in Hosts : last'[b][h] >= last[b][h]]_last

\* A frame without an end is followed, sooner or later, by a command on the same port.
PortsFree == \A b \in Boards : []<>~holding[b]

\* Every command is carried out by every board it is addressed to, and by no other: again
\* and again there is nothing sent that has not been carried out everywhere.  This is so
\* also when commands for boards that are not there leave beats behind that are read as
\* frames, as long as none of these holds a port for ever.
EveryoneHears ==
    PortsFree => []<>(\A c \in sent : Addressed(c) = {b \in Boards : c \in applied[b]})

\* The ring comes to rest: neither a broadcast that is passed on twice by every board
\* nor a command for a board that is not there goes round for ever, nor what its second
\* beat is taken for.
ComesToRest == PortsFree => <>[]Quiet
=============================================================================
