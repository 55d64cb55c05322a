----------------------------- MODULE Tx1Arbiter -----------------------------
(***************************************************************************)
(* aurora_tx1_arbiter.v: three sources share the tx1 port of a board, the  *)
(* control channel, status replies and data.  A granted source keeps the   *)
(* port until the last beat of its frame; a watchdog takes it from control *)
(* or reply, locks that source out and closes the open frame with a poison *)
(* beat.  A Clock step is one cycle of aurora_clk; Offer, Stop and Resume  *)
(* are what the sources do to their valid lines between two cycles.        *)
(***************************************************************************)
EXTENDS Naturals

CONSTANTS
    Limit,   \* WATCHDOG_LIMIT, 4095 in the code
    MaxLen,  \* beats of the longest frame offered
    Offers,  \* how many frames each source offers
    Stuck    \* sources whose frames may never end (the FIFO reset race)

Watched == {"ctrl", "reply"}
Source == Watched \cup {"data"}
None == "none"
Endless == MaxLen + 1

ASSUME ArbiterAssumption == /\ Limit \in Nat /\ MaxLen \in Nat \ {0}
                            /\ Offers \in [Source -> Nat] /\ Stuck \subseteq Source

VARIABLES
    state,    \* None for ST_IDLE, or the source served
    wd,       \* ctrl_watchdog_cnt, reply_watchdog_cnt
    lockout,  \* ctrl_lockout, reply_lockout
    aborts,   \* abort_ctrl_pending, abort_reply_pending
    left,     \* beats each source has yet to hand over of its frame
    size,     \* beats that frame had, so that left = size before its first
    valid,    \* the sources' tvalid
    offers,   \* frames each source still has to offer
    took,     \* history: the source that handed over a beat in the last cycle
    tx1,      \* history: what tx1 carried in the last cycle
    open      \* history: the source of the frame open on tx1

arbiter == <<state, wd, lockout, aborts>>
sources == <<left, size, valid, offers>>
wire == <<took, tx1, open>>
arbiterVars == <<arbiter, sources, wire>>

ArbiterInit ==
    /\ state = None
    /\ wd = [s \in Watched |-> 0]
    /\ lockout = [s \in Watched |-> FALSE]
    /\ aborts = [s \in Watched |-> FALSE]
    /\ left = [s \in Source |-> 0] /\ size = [s \in Source |-> 0]
    /\ valid = [s \in Source |-> FALSE]
    /\ offers = Offers
    /\ took = None /\ tx1 = None /\ open = None

-----------------------------------------------------------------------------
(* The sources.                                                            *)

Lengths(s) == IF s = "ctrl" THEN {2}
              ELSE (1..MaxLen) \cup (IF s \in Stuck THEN {Endless} ELSE {})

Offer(s) ==
    /\ left[s] = 0 /\ offers[s] > 0
    /\ offers' = [offers EXCEPT ![s] = @ - 1]
    /\ \E n \in Lengths(s) : left' = [left EXCEPT ![s] = n] /\ size' = [size EXCEPT ![s] = n]
    /\ valid' = [valid EXCEPT ![s] = TRUE]
    /\ UNCHANGED <<arbiter, wire>>

\* A FIFO that ran empty in the middle of a frame gets its next beat.
Resume(s) ==
    /\ left[s] # 0 /\ ~valid[s]
    /\ valid' = [valid EXCEPT ![s] = TRUE]
    /\ UNCHANGED <<arbiter, wire, left, size, offers>>

\* The beat is taken: the control channel always has its next one, a FIFO may not.
HandOver(s) ==
    /\ left' = [left EXCEPT ![s] = IF @ = Endless THEN @ ELSE @ - 1]
    /\ \E more \in IF left'[s] = 0 THEN {FALSE}
                   ELSE IF s = "ctrl" THEN {TRUE} ELSE BOOLEAN :
          valid' = [valid EXCEPT ![s] = more]
    /\ UNCHANGED <<size, offers>>

-----------------------------------------------------------------------------
(* One cycle; ready is tx1_tready.                                         *)

AbortPending == \E s \in Watched : aborts[s]
Taken(s, ready) == state = s /\ ready /\ valid[s]
Last(s) == left[s] = 1

\* What the cycle puts on tx1: a pending poison beat, or the served source's beat.
Sent(ready) ==
    IF AbortPending THEN (IF ready THEN "poison" ELSE None)
    ELSE IF state # None /\ Taken(state, ready) THEN state ELSE None

Wire(ready) ==
    /\ took' = IF state # None /\ Taken(state, ready) THEN state ELSE None
    /\ tx1' = Sent(ready)
    /\ open' = CASE Sent(ready) = None -> open
                 [] Sent(ready) = "poison" -> None
                 [] OTHER -> IF Last(state) THEN None ELSE state

\* ST_IDLE: control first, then replies, then data; a locked-out source is passed
\* over until a frame of data, or an idle moment, lets it try again.
Eligible(s) == valid[s] /\ (s \in Watched => ~lockout[s])
Grant ==
    \/ Eligible("ctrl") /\ state' = "ctrl" /\ UNCHANGED lockout
    \/ ~Eligible("ctrl") /\ Eligible("reply") /\ state' = "reply" /\ UNCHANGED lockout
    \/ ~Eligible("ctrl") /\ ~Eligible("reply") /\ valid["data"]
       /\ state' = "data" /\ UNCHANGED lockout
    \/ /\ \A s \in Source : ~Eligible(s)
       /\ lockout' = [s \in Watched |-> FALSE] /\ UNCHANGED state

\* (Variant: the choice does not wait for the poison beat.)
IdleAtOnce == state = None /\ wd' = [s \in Watched |-> 0] /\ Grant
Idle ==
    /\ state = None
    /\ wd' = [s \in Watched |-> 0]
    /\ IF AbortPending THEN UNCHANGED <<state, lockout>> ELSE Grant

\* A pending poison beat goes out as soon as tx1 is ready.
Poisoned(ready) == IF ready THEN [s \in Watched |-> FALSE] ELSE aborts

\* The last beat of a frame.
Finish(s, ready) ==
    /\ state = s /\ Taken(s, ready) /\ Last(s)
    /\ state' = None
    /\ lockout' = IF s = "data" THEN [t \in Watched |-> FALSE]
                  ELSE [lockout EXCEPT ![s] = FALSE]
    /\ aborts' = Poisoned(ready)
    /\ UNCHANGED wd

\* The watchdog has counted the cycles since the grant, with or without progress.
\* (Variant: the source is not locked out.)
GiveUpNoLockout(s, ready) ==
    /\ state = s /\ s \in Watched /\ ~(Taken(s, ready) /\ Last(s))
    /\ wd[s] = Limit
    /\ state' = None
    /\ aborts' = [Poisoned(ready) EXCEPT ![s] = TRUE]
    /\ UNCHANGED <<wd, lockout>>
GiveUp(s, ready) ==
    /\ state = s /\ s \in Watched /\ ~(Taken(s, ready) /\ Last(s))
    /\ wd[s] = Limit
    /\ state' = None
    /\ lockout' = [lockout EXCEPT ![s] = TRUE]
    /\ aborts' = [Poisoned(ready) EXCEPT ![s] = TRUE]
    /\ UNCHANGED wd

\* A cycle inside a frame.
Serve(s, ready) ==
    /\ state = s /\ ~(Taken(s, ready) /\ Last(s))
    /\ s \in Watched => wd[s] # Limit
    /\ wd' = IF s \in Watched THEN [wd EXCEPT ![s] = @ + 1] ELSE wd
    /\ aborts' = Poisoned(ready)
    /\ UNCHANGED <<state, lockout>>

Clock(ready) ==
    /\ Wire(ready)
    /\ IF state # None /\ Taken(state, ready) THEN HandOver(state) ELSE UNCHANGED sources
    /\ \/ Idle /\ aborts' = Poisoned(ready)
       \/ \E s \in Source : Finish(s, ready) \/ GiveUp(s, ready) \/ Serve(s, ready)

ArbiterNext == \/ \E s \in Source : Offer(s) \/ Resume(s)
               \/ \E ready \in BOOLEAN : Clock(ready)

ArbiterSpec == ArbiterInit /\ [][ArbiterNext]_arbiterVars
-----------------------------------------------------------------------------
ArbiterTypeOK ==
    /\ state \in Source \cup {None}
    /\ wd \in [Watched -> 0..Limit]
    /\ lockout \in [Watched -> BOOLEAN] /\ aborts \in [Watched -> BOOLEAN]
    /\ left \in [Source -> 0..Endless] /\ size \in [Source -> 0..Endless]
    /\ valid \in [Source -> BOOLEAN]
    /\ offers \in [Source -> Nat]
    /\ took \in Source \cup {None} /\ open \in Source \cup {None}
    /\ tx1 \in Source \cup {None, "poison"}

\* A beat a source hands over is the beat tx1 carries, and it goes into that
\* source's own frame: no beat is swallowed while the poison beat goes out, none
\* lands in the frame of another source.
OneFrameAtATime ==
    [][/\ took' # None => tx1' = took'
       /\ tx1' \in Source => open \in {None, tx1'}]_arbiterVars

\* Every source that has a beat to send is served: control and replies when the
\* frame in progress ends, data although a stuck source never gives way itself.
EverySourceServed == \A s \in Source : valid[s] ~> state = s
=============================================================================
