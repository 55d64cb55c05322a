------------------------------ MODULE Dispatcher ------------------------------
(***************************************************************************)
(* dispatcher.v: packets from the ring and from USB, each to the output    *)
(* its header asks for.  One register per output; a packet that has begun  *)
(* keeps its source and its outputs to its last beat, as the header has    *)
(* counted it.  One step is one cycle of sys_clk.                          *)
(***************************************************************************)
EXTENDS Packets

CONSTANTS
    All,         \* 0xFFFF
    TxTimeout    \* TX_TIMEOUT_CYCLES

Sources == {"rx", "fp"}
Ports == {"local", "ddr", "flash", "tx"}

ASSUME DispatcherAssumption == All \in Nat /\ TxTimeout \in Nat \ {0}

VARIABLES
    me,         \* board_id
    source,     \* source[s]: beats waiting in async_fifo_aurora_rx and fp_input_rd
    state,      \* "idle" or "data"
    remaining,
    route,      \* route: the outputs of the packet
    from,       \* src_fp: its source
    subst,      \* subst_beat1_pending
    port,       \* port[p]: tx, lrh, ddr, flash: tdata, NoBeat when tvalid is low
    tlast,      \* tx_tlast
    stall,      \* tx_stall_cnt
    up,         \* channel_up_1
    taken,      \* history: taken[p], the last beat output p has handed over
    lossy       \* history: a beat for the ring has been dropped

dispatcherVars == <<source, state, remaining, route, from, subst, port, tlast, stall, taken, lossy>>

DispatcherInit ==
    /\ source = [s \in Sources |-> <<>>]
    /\ state = "idle" /\ remaining = 0 /\ route = {"local"} /\ from = "rx" /\ subst = FALSE
    /\ port = [p \in Ports |-> NoBeat] /\ tlast = FALSE /\ stall = 0
    /\ taken = port /\ lossy = FALSE
-----------------------------------------------------------------------------
\* idle_route.
RouteOf(h) ==
    IF h.dest = me THEN {CASE h.kind = "wave" -> "ddr" [] h.kind = "flash" -> "flash"
                           [] OTHER -> "local"}
    ELSE IF h.dest = All THEN {"local", "tx"} ELSE {"tx"}

Stalled(ready) == port["tx"] # NoBeat /\ "tx" \notin ready /\ up
TimedOut(ready) == Stalled(ready) /\ stall >= TxTimeout
\* (Variant: nothing is given up.)
CanAcceptNever(p, ready) == port[p] = NoBeat \/ p \in ready
CanAccept(p, ready) ==
    \/ port[p] = NoBeat \/ p \in ready
    \/ p = "tx" /\ (~up \/ TimedOut(ready))

\* The source that is served and what its next beat is for; padding is for nobody.
\* (Variants: the ring comes first even inside a packet; the outputs are asked for again
\* with every beat.)
ChosenAnew(see) == IF "rx" \in see THEN "rx" ELSE "fp"
Chosen(see) == IF state = "data" THEN from ELSE IF "rx" \in see THEN "rx" ELSE "fp"
OutputsAnew(b) == IF state = "idle" /\ b.h.len = 0 THEN {} ELSE RouteOf(b.h)
Outputs(b) == IF state = "data" THEN route ELSE IF b.h.len = 0 THEN {} ELSE RouteOf(b.h)
Fires(see, ready) == LET s == Chosen(see) IN
    s \in see /\ \A p \in Outputs(source[s][1]) : CanAccept(p, ready)

\* The output registers: a beat taken, or given up, makes room for the next.
Put(outs, b, last, ready) ==
    /\ port' = [p \in Ports |->
                  IF p \in outs /\ (p = "tx" => up) THEN b
                  ELSE IF p \in ready \/ (p = "tx" /\ TimedOut(ready)) THEN NoBeat ELSE port[p]]
    /\ tlast' = IF "tx" \in outs /\ up THEN last
                ELSE tlast /\ "tx" \notin ready /\ ~TimedOut(ready)
    /\ stall' = IF ~Stalled(ready) THEN 0 ELSE IF TimedOut(ready) THEN stall ELSE stall + 1
    /\ taken' = [p \in Ports |-> IF p \in ready /\ port[p] # NoBeat THEN port[p] ELSE taken[p]]
    /\ lossy' = (lossy \/ TimedOut(ready) \/ ("tx" \in outs /\ ~up))

Consume(s) == source' = [source EXCEPT ![s] = Tail(@)]

\* ST_IDLE: a header.  One from USB gets this board's id as its source.
DispatchHeader(see, ready) == LET s == Chosen(see)  b == source[s][1] IN
    /\ state = "idle" /\ Fires(see, ready)
    /\ Consume(s)
    /\ route' = RouteOf(b.h) /\ from' = s
    /\ subst' = (s = "fp" /\ b.h.kind = "assign" /\ b.h.len > 1)
    /\ IF b.h.len > 1 THEN state' = "data" /\ remaining' = b.h.len - 1
                      ELSE UNCHANGED <<state, remaining>>
    /\ Put(Outputs(b), [b EXCEPT !.own = (s = "fp")], b.h.len = 1, ready)

\* ST_DATA: a beat after it.  The first one of an ASSIGN from USB is replaced.
DispatchData(see, ready) == LET s == Chosen(see)  b == source[s][1] IN
    /\ state = "data" /\ Fires(see, ready)
    /\ Consume(s)
    /\ remaining' = remaining - 1
    /\ state' = IF remaining = 1 THEN "idle" ELSE "data"
    /\ subst' = FALSE
    /\ Put(Outputs(b), [b EXCEPT !.own = subst], remaining = 1, ready)
    /\ UNCHANGED <<route, from>>

DispatchNothing(see, ready) ==
    /\ ~Fires(see, ready)
    /\ Put({}, NoBeat, FALSE, ready)
    /\ UNCHANGED <<source, state, remaining, route, from, subst>>

\* A cycle in which the sources in see show their next beat and the outputs in ready are
\* taken.
Dispatch(see, ready) ==
    DispatchHeader(see, ready) \/ DispatchData(see, ready) \/ DispatchNothing(see, ready)
-----------------------------------------------------------------------------
DispatcherTypeOK ==
    /\ source \in [Sources -> Seq(Beat)]
    /\ state \in {"idle", "data"} /\ remaining \in Nat
    /\ route \subseteq Ports /\ from \in Sources /\ subst \in BOOLEAN
    /\ port \in [Ports -> Beat] /\ tlast \in BOOLEAN /\ stall \in 0..TxTimeout
    /\ taken \in [Ports -> Beat] /\ lossy \in BOOLEAN

\* Each output hands over whole packets, one after the other and each from its header to
\* its last beat, the ring with tlast on the last beat only; to the ring as long as no
\* beat has been dropped there.
Handed(p) == taken'[p] # taken[p] /\ (p = "tx" => ~lossy)
WholePackets == [][\A p \in Ports : Handed(p) =>
    LET a == taken[p]  b == taken'[p] IN
    /\ IF a.i = a.h.len THEN b.i = 1 ELSE b.no = a.no /\ b.i = a.i + 1
    /\ p = "tx" => (tlast <=> b.i = b.h.len)]_taken
=============================================================================
