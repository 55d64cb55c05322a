------------------------------- MODULE ClockChip -------------------------------
(***************************************************************************)
(* The Si5332 that clocks the boards, a USB device of its own: sessions of *)
(* host/si5332_usb_linux.py, the staged configuration of                   *)
(* host/si5332_configure_linux.py, the outputs of host/web/si5332_ctrl.py  *)
(* and the routes of app.py that use them.                                 *)
(*                                                                         *)
(* Two threads reach the chip: "init", Initialize System under _lock, and  *)
(* "web", one request at a time under _si5332_lock.  Neither lock keeps    *)
(* the other out.  A thread is the list of its sessions; a session is a    *)
(* Begin (open, handshake, _i2c_wake) and a Finish (what it does, close).  *)
(***************************************************************************)
EXTENDS Naturals, Sequences, FiniteSets

CONSTANTS Outputs,       \* NUM_OUTPUTS
          Project,       \* the outputs the project file switches on
          Nobody,        \* no thread, no saved file
          MaxWeb, MaxErrors   \* bounds: requests of browsers, USB errors

Outs == 0..(Outputs - 1)

ASSUME ClockAssumption == /\ Outputs \in Nat /\ Project \subseteq Outs
                          /\ MaxWeb \in Nat /\ MaxErrors \in Nat

Threads == {"init", "web"}

VARIABLES
    regs,       \* the configuration registers but for OE: "blank", "partly", "target"
    active,     \* USYS_STAT = ACTIVE
    oe,         \* the outputs that are on
    aux,        \* the GPIO expanders: aux[p], the pins of port p that are high
    latched,    \* a session was left without the transfer that closes it
    saved,      \* OUTPUT_STATE_FILE: outputs, or Nobody
    claim,      \* the thread whose session has the interface
    todo,       \* todo[t]: the sessions t still has to go through, first one perhaps begun
    seen,       \* seen[t]: the outputs t has read
    phase0,     \* result of run_init's si5332 and si5332_outputs: "none", "ok", "failed", "raised"
    webs, errors,
    disturbed   \* history: saved and chip have been set apart by an error or an overlap

chip == <<regs, active, oe, aux, latched>>
clockVars == <<chip, saved, claim, todo, seen, phase0, webs, errors, disturbed>>

\* _AUX_SEQ, the writes only: each clears one pin of the port's value as last read.
_AUX_SEQ == << <<"A",4>>, <<"A",5>>, <<"A",1>>, <<"A",2>>, <<"A",7>>, <<"B",7>>, <<"B",5>>, <<"B",4>>,
               <<"B",2>>, <<"B",1>>, <<"C",0>>, <<"C",1>>, <<"C",3>>, <<"C",4>>, <<"C",6>>, <<"C",7>> >>
_AUX_SETTLED == [A |-> {0, 3, 6}, B |-> {0, 3, 6}, C |-> {2, 5}, D |-> 0..7]
_i2c_wake(ports, n) ==       \* after the first n of them
    [p \in DOMAIN ports |-> ports[p] \ {_AUX_SEQ[i][2] : i \in {j \in 1..n : _AUX_SEQ[j][1] = p}}]

ClockInit ==
    /\ regs = "blank" /\ active = FALSE /\ oe = {} /\ aux = [p \in {"A", "B", "C", "D"} |-> 0..7]
    /\ latched = FALSE /\ saved = Nobody /\ claim = Nobody
    /\ todo = [t \in Threads |-> <<>>] /\ seen = [t \in Threads |-> {}] /\ phase0 = "none"
    /\ webs = 0 /\ errors = 0 /\ disturbed = FALSE

\* A Set or a read that is kept has its on; the loop over the saved outputs is at from.
Session(what) == [do |-> what, ch |-> 0, on |-> FALSE]
Kept == [do |-> "read", ch |-> 0, on |-> TRUE]
Set(c, enabled) == [do |-> "set", ch |-> c, on |-> enabled]
Differ(want, from) == [do |-> "differ", want |-> want, from |-> from]
Stages == <<Session("preamble"), Session("config"), Session("postamble")>>
Free(t) == todo[t] = <<>>
This_(t) == Head(todo[t])
Rest(t) == [todo EXCEPT ![t] = Tail(@)]
Drop(t) == [todo EXCEPT ![t] = <<>>]
\* The sessions of si5332_configure run in a process of their own, which dies of any error.
Configures(t) == ~Free(t) /\ This_(t).do \in {"check", "preamble", "config", "postamble"}

\* How a thread goes on when a session fails.  si5332_ctrl turns a Si5332USBError into
\* {"ok": False}; a usb.core.USBError, a timeout or a busy interface, it lets through.
Fails(t, caught) ==
    CASE t = "init" /\ Configures(t) -> todo' = Drop(t) /\ phase0' = "failed"
      [] t = "init" /\ ~Configures(t) -> todo' = Drop(t) /\ phase0' = (IF caught THEN "ok" ELSE "raised")
      [] t = "web" /\ (Configures(t) \/ ~caught) -> todo' = Drop(t) /\ UNCHANGED phase0
      [] t = "web" /\ ~Configures(t) /\ caught ->   \* a set that failed is followed by its read all the same
            /\ todo' = IF This_(t).do = "set" THEN Rest(t) ELSE Drop(t)
            /\ UNCHANGED phase0
Succeeds(t) ==
    /\ todo' = Rest(t)
    /\ phase0' = IF t = "init" /\ Len(todo[t]) = 1 /\ ~Configures(t) THEN "ok" ELSE phase0

\* open: another handle has the interface; the device does not answer; or it does, and the
\* pins are walked to where they belong.  An open that raises is not followed by close, and
\* what the device makes of that is not known: close says it hangs until its power goes.
Begin(t) ==
    /\ ~Free(t) /\ claim # t /\ This_(t).do \notin {"apply", "differ", "end"}
    /\ \/ claim # Nobody /\ Fails(t, FALSE) /\ disturbed' = TRUE
          /\ UNCHANGED <<chip, claim, errors>>
       \/ /\ claim = Nobody /\ errors < MaxErrors /\ errors' = errors + 1 /\ disturbed' = TRUE
          /\ \E caught \in BOOLEAN, n \in {0, 1, Len(_AUX_SEQ)} :   \* at the start, on the way, at DEVICE_REV
                Fails(t, caught) /\ aux' = _i2c_wake(aux, n)
          /\ latched' \in BOOLEAN /\ UNCHANGED <<regs, active, oe, claim>>
       \/ /\ claim = Nobody /\ latched /\ Fails(t, FALSE) /\ disturbed' = TRUE
          /\ UNCHANGED <<chip, claim, errors>>
       \/ /\ claim = Nobody /\ ~latched /\ claim' = t /\ aux' = _i2c_wake(aux, Len(_AUX_SEQ))
          /\ UNCHANGED <<regs, active, oe, latched, todo, phase0, errors, disturbed>>
    /\ UNCHANGED <<saved, seen, webs>>

\* close, in __exit__, whatever became of the body.
Finish(t, what) == ~Free(t) /\ claim = t /\ This_(t).do = what /\ claim' = Nobody
Quietly == UNCHANGED <<aux, latched, webs>>

\* The body stops at a bad acknowledgement, a write half done.
Breaks(t) ==
    /\ ~Free(t) /\ claim = t /\ claim' = Nobody /\ errors < MaxErrors /\ errors' = errors + 1
    /\ disturbed' = TRUE /\ \E caught \in BOOLEAN : Fails(t, caught)
    /\ regs' = IF This_(t).do = "config" THEN "partly" ELSE regs
    /\ active' = (active /\ This_(t).do # "preamble")
    /\ UNCHANGED <<oe, saved, seen>> /\ Quietly
-----------------------------------------------------------------------------
\* already_configured compares every configuration register, OE among them, and USYS_STAT.
already_configured(t) ==
    /\ Finish(t, "check")
    /\ todo' = [todo EXCEPT ![t] =
           (IF regs = "target" /\ oe = Project /\ active THEN <<>> ELSE Stages) \o Tail(@)]
    /\ UNCHANGED <<regs, active, oe, saved, seen, phase0, errors, disturbed>> /\ Quietly

\* The three stages, each a session of its own.
run_stage(t) ==
    /\ \/ Finish(t, "preamble") /\ active' = FALSE /\ UNCHANGED <<regs, oe>>
       \/ Finish(t, "config") /\ regs' = "target" /\ oe' = Project /\ UNCHANGED active
       \/ Finish(t, "postamble") /\ active' = TRUE /\ UNCHANGED <<regs, oe>>
    /\ Succeeds(t)
    /\ disturbed' = (disturbed \/ t = "web" \/ ~Free("web"))
    /\ UNCHANGED <<saved, seen, errors>> /\ Quietly

read_outputs(t) ==
    /\ Finish(t, "read") /\ seen' = [seen EXCEPT ![t] = oe]
    \* save_output_state, after the read that follows a set, and before _si5332_lock goes
    /\ saved' = IF t = "web" /\ This_(t).on THEN oe ELSE saved
    /\ disturbed' = (disturbed \/ (t = "web" /\ This_(t).on /\ ~Free("init")))
    /\ Succeeds(t)
    /\ UNCHANGED <<regs, active, oe, errors>> /\ Quietly

\* One bit of 0xB6 or 0xB7, read and written back in one session.
set_output_enable(t) ==
    /\ Finish(t, "set")
    /\ oe' = IF This_(t).on THEN oe \cup {This_(t).ch} ELSE oe \ {This_(t).ch}
    /\ Succeeds(t)
    /\ disturbed' = (disturbed \/ (t = "web" /\ ~Free("init")))
    /\ UNCHANGED <<regs, active, saved, seen, errors>> /\ Quietly

\* apply_saved_output_state: the file, then what the chip has, then one output after the
\* other that differs from the file as it was.
apply_saved_output_state ==
    /\ ~Free("init") /\ claim # "init" /\ This_("init").do = "apply"
    /\ IF saved = Nobody THEN Succeeds("init")
       ELSE /\ todo' = [todo EXCEPT !["init"] = <<Session("read"), Differ(saved, 0)>>]
            /\ UNCHANGED phase0
    /\ UNCHANGED <<chip, saved, claim, seen, webs, errors, disturbed>>
\* (Variant: only what is off is switched on.)
differing_off ==
    /\ ~Free("init") /\ This_("init").do = "differ"
    /\ LET want == This_("init").want
           left == {c \in Outs : c >= This_("init").from /\ c \in want \ seen["init"]} IN
       \/ left = {} /\ Succeeds("init")
       \/ \E c \in left :
              /\ \A d \in left : c <= d
              /\ todo' = [todo EXCEPT !["init"] = <<Set(c, c \in want), Differ(want, c + 1)>>]
              /\ UNCHANGED phase0
    /\ UNCHANGED <<chip, saved, claim, seen, webs, errors, disturbed>>
differing ==
    /\ ~Free("init") /\ This_("init").do = "differ"
    /\ LET want == This_("init").want
           left == {c \in Outs : c >= This_("init").from /\ (c \in want) # (c \in seen["init"])} IN
       \/ left = {} /\ Succeeds("init")
       \/ \E c \in left :
              /\ \A d \in left : c <= d
              /\ todo' = [todo EXCEPT !["init"] = <<Set(c, c \in want), Differ(want, c + 1)>>]
              /\ UNCHANGED phase0
    /\ UNCHANGED <<chip, saved, claim, seen, webs, errors, disturbed>>

\* Phase 0 of run_init, and what the checklist does with the chip.
configure(withOutputs) ==
    /\ Free("init") /\ phase0' = "none"
    /\ todo' = [todo EXCEPT !["init"] = <<Session("check")>> \o (IF withOutputs THEN <<Session("apply")>> ELSE <<Session("end")>>)]
    /\ disturbed' = (~withOutputs \/ ~Free("web"))
    /\ UNCHANGED <<chip, saved, claim, seen, webs, errors>>
configured == /\ ~Free("init") /\ This_("init").do = "end" /\ Succeeds("init")
              /\ UNCHANGED <<chip, saved, claim, seen, webs, errors, disturbed>>
-----------------------------------------------------------------------------
(***************************************************************************)
(* The routes of app.py, one at a time under _si5332_lock.  On Linux       *)
(* api_si5332_status and api_si5332_reconfigure call tools that are not    *)
(* there, and change nothing.                                              *)
(***************************************************************************)
WebRequest ==
    /\ Free("web") /\ webs < MaxWeb /\ webs' = webs + 1
    /\ UNCHANGED <<chip, saved, claim, seen, phase0, errors>>
api_si5332_outputs ==
    WebRequest /\ todo' = [todo EXCEPT !["web"] = <<Session("read")>>] /\ UNCHANGED disturbed
api_si5332_output_set == \E c \in Outs, enabled \in BOOLEAN :
    /\ WebRequest
    /\ todo' = [todo EXCEPT !["web"] = <<Set(c, enabled), Kept>>]
    /\ disturbed' = (disturbed \/ ~Free("init"))

\* The evaluation board loses its power: the chip comes up blank, its pins high.
ChipPowerCycle ==
    /\ regs' = "blank" /\ active' = FALSE /\ oe' = {} /\ aux' = [p \in DOMAIN aux |-> 0..7] /\ latched' = FALSE
    /\ \A t \in Threads : Free(t)
    /\ phase0' = "none" /\ UNCHANGED <<saved, claim, todo, seen, webs, errors, disturbed>>

ClockWork == \/ \E t \in Threads : Begin(t) \/ Breaks(t) \/ already_configured(t) \/ run_stage(t)
                                   \/ read_outputs(t) \/ set_output_enable(t)
             \/ apply_saved_output_state \/ differing \/ configured
ClockRoutes == api_si5332_outputs \/ api_si5332_output_set
-----------------------------------------------------------------------------
ClockTypeOK ==
    /\ regs \in {"blank", "partly", "target"} /\ active \in BOOLEAN /\ oe \subseteq Outs
    /\ \A p \in DOMAIN aux : aux[p] \subseteq 0..7
    /\ latched \in BOOLEAN /\ (saved = Nobody \/ saved \subseteq Outs) /\ claim \in Threads \cup {Nobody}
    /\ phase0 \in {"none", "ok", "failed", "raised"} /\ webs \in 0..MaxWeb /\ errors \in 0..MaxErrors

\* Every session works on settled pins, also the one after a walk that was broken off.  And
\* the outputs the operator has switched by hand outlive a reconfiguration and a loss of
\* power: after the next Initialize System the chip has those of the file, if no USB error
\* came between and no browser's request overlapped with it.
ChipInOrder ==
    /\ claim # Nobody => aux = _AUX_SETTLED
    /\ phase0 = "ok" /\ Free("init") /\ Free("web") /\ saved # Nobody /\ ~disturbed => oe = saved
=============================================================================
