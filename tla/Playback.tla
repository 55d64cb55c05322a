-------------------------------- MODULE Playback --------------------------------
(***************************************************************************)
(* Waveforms from the console to the DAC of one board: the arm functions   *)
(* of src/host/web/board_ctrl.py and the panels of app.py that use them,   *)
(* the players of the modules (waveform_controller.v), the scheduler that  *)
(* rotates them (group_trig_scheduler.v) and the two sides of the mode     *)
(* register (sine_ctrl_regs.v).                                            *)
(*                                                                         *)
(* A request is the list of packets its route sends, one at a time, while  *)
(* the players refill, the scheduler counts and triggers come from other   *)
(* boards.  A waveform is the request, module and slot it was made for.    *)
(* Settings, mode, group and trigger requests repeat without bound.        *)
(***************************************************************************)
EXTENDS Integers, Sequences, SequencesExt, FiniteSets

CONSTANTS M,             \* modules of a board
          MaxSlots,      \* MAX_SLOTS, as many as the depth field has values
          Region,        \* MODULE_ADDR_STRIDE, in bursts
          Margin,        \* SLOT_MARGIN, in bursts
          Covers,        \* the modules a request may cover
          Layouts,       \* the lengths of the waveforms of one module, in bursts
          None,
          MaxArms, MaxTells, MaxErrors   \* bounds of the model

Modules == 0..(M - 1)
Slots == 0..(MaxSlots - 1)
Addresses == 0..((M + 1) * Region - 1)
Lens == (UNION {Range(lens) : lens \in Layouts}) \cup {1}
Groups == {0, 1}         \* trigger groups: 0 from reset, 1 the one of the rotation panel
Entry == [addr : Addresses, len : Lens]

\* A rotation has MaxSlots - 1 sets, two at least.
ASSUME PlaybackAssumption ==
    /\ {M, Region} \subseteq Nat \ {0} /\ MaxSlots \in Nat /\ MaxSlots >= 3
    /\ {Margin, MaxArms, MaxTells, MaxErrors} \subseteq Nat /\ None \notin Entry
    /\ Covers \subseteq (SUBSET Modules) \ {{}}
    /\ Layouts \subseteq Seq(Nat \ {0}) /\ \A lens \in Layouts : Len(lens) \in 2..MaxSlots

VARIABLES
    isMaster,    \* this board's registers say so; only then does its scheduler reach the ring
    mem,         \* DDR4: the waveform each burst belongs to
    list,        \* list[m][i]: address and length of slot i
    on, depth,   \* T_PLAY_CTRL: play_en and list_depth
    fsm,         \* "idle", "starting", "running", "refill"
    cur, next,   \* current_idx, next_idx
    shows, loads,   \* what the active and the standby reader were given
    play_pos,
    active, idle,   \* mode register, the side in use and the side that is written
    gid,         \* group_id of each module
    sched,       \* group_trig_scheduler
    job,         \* packets the request still has to send
    req,         \* the last request
    armed,       \* history: the request a module's play_en comes from, and its slots
    rot,         \* history: the modules of the rotation that counts, if nothing has disturbed it, and
                 \* whether its durations leave the players time to refill
    tells, errors

player == <<on, depth, fsm, cur, next, shows, loads, play_pos>>
modes == <<active, idle>>
store == <<mem, list>>
history == <<armed, rot>>
bounds == <<tells, errors>>
vars == <<isMaster, store, player, modes, gid, sched, job, req, history, bounds>>

NotArmed == [serial |-> 0, n |-> 0]
NoRotation == [modules |-> {}, long |-> FALSE]

Init ==
    /\ isMaster \in BOOLEAN
    /\ mem = [a \in Addresses |-> None] /\ list = [m \in Modules |-> [i \in Slots |-> None]]
    /\ on = [m \in Modules |-> FALSE] /\ depth = [m \in Modules |-> 0]
    /\ fsm = [m \in Modules |-> "idle"] /\ cur = [m \in Modules |-> 0] /\ next = [m \in Modules |-> 0]
    /\ shows = [m \in Modules |-> None] /\ loads = [m \in Modules |-> None]
    /\ play_pos = [m \in Modules |-> -1]
    /\ active = [m \in Modules |-> "ddr"] /\ idle = [m \in Modules |-> "ddr"]
    /\ gid = [m \in Modules |-> 0]
    /\ sched = [intv |-> [i \in Slots |-> None], group |-> [i \in Slots |-> {}],
                depth |-> 0, running |-> FALSE, idx |-> 0, left |-> None]
    /\ job = <<>> /\ req = [name |-> "none", serial |-> 0, failed |-> FALSE, joined |-> FALSE]
    /\ armed = [m \in Modules |-> NotArmed] /\ rot = NoRotation
    /\ tells = 0 /\ errors = 0
-----------------------------------------------------------------------------
(***************************************************************************)
(* The board: players, scheduler and triggers.                             *)
(***************************************************************************)
\* The depth field has no room for MaxSlots: it holds 0, and so does the 3-bit difference.
inc_idx(i, d) == IF i >= (d + MaxSlots - 1) % MaxSlots THEN 0 ELSE i + 1

Hit(groups) == {m \in Modules : gid[m] \in groups}

\* A trigger swaps the mode registers of every module it hits.  A player takes it only when
\* it is running; one that refills, or waits for its flush, lets it pass.
Trigger(groups) ==
    LET taken == {m \in Hit(groups) : fsm[m] = "running"} IN
    /\ active' = [m \in Modules |-> IF m \in Hit(groups) THEN idle[m] ELSE active[m]]
    /\ idle' = [m \in Modules |-> IF m \in Hit(groups) THEN active[m] ELSE idle[m]]
    /\ shows' = [m \in Modules |-> IF m \in taken THEN loads[m] ELSE shows[m]]
    /\ cur' = [m \in Modules |-> IF m \in taken THEN next[m] ELSE cur[m]]
    /\ next' = [m \in Modules |-> IF m \in taken THEN inc_idx(next[m], depth[m]) ELSE next[m]]
    /\ play_pos' = [m \in Modules |-> IF m \notin taken THEN play_pos[m]
                                      ELSE IF play_pos[m] + 1 >= depth[m] THEN 0 ELSE play_pos[m] + 1]
    /\ fsm' = [m \in Modules |-> IF m \in taken THEN "refill" ELSE fsm[m]]
    /\ UNCHANGED <<on, depth, loads>>

\* ST_CFG_INIT, and the end of ST_FLUSH_SWAP: the standby reader is given slot current_idx.
Refill(m) ==
    /\ fsm[m] \in {"starting", "refill"}
    /\ fsm' = [fsm EXCEPT ![m] = "running"] /\ loads' = [loads EXCEPT ![m] = list[m][cur[m]]]
    /\ UNCHANGED <<isMaster, store, on, depth, cur, next, shows, play_pos, modes, gid, sched, job, req, history, bounds>>

\* The countdown has ended: the group of this entry, and the interval of the next.  What the
\* scheduler fires is a T_TRIG_START of this board, and the ring heeds the master's only.
Fire ==
    /\ sched.running /\ (sched.left.long => \A m \in Modules : fsm[m] \in {"idle", "running"})
    /\ LET i == IF sched.idx + 1 < sched.depth THEN sched.idx + 1 ELSE 0 IN
       sched' = [sched EXCEPT !.idx = i, !.left = sched.intv[i]]
    /\ IF isMaster THEN Trigger(sched.group[sched.idx]) ELSE UNCHANGED <<player, modes>>
    /\ UNCHANGED <<isMaster, store, gid, job, req, armed, rot, bounds>>

\* A broadcast that is not of this board's doing: a panel of another board ends in a trigger
\* of all groups, and the master rotates its group on every board.
Elsewhere ==
    /\ \E groups \in {Groups} \cup (IF isMaster THEN {} ELSE {{1}}) :
        /\ Trigger(groups) /\ rot' = NoRotation
    /\ req' = [req EXCEPT !.joined = req.name = "stop"]
    /\ UNCHANGED <<isMaster, store, gid, sched, job, armed, bounds>>
-----------------------------------------------------------------------------
(***************************************************************************)
(* The packets, in the order the steps of a request send them.             *)
(***************************************************************************)
Do(step) == job # <<>> /\ Head(job).do = step
This == Head(job)
Sent == job' = Tail(job) /\ UNCHANGED <<isMaster, req, bounds>>

_module_base_addr(m) == m * Region
\* (Variant: nobody looks.)
fits_always(m, addr, len) == TRUE
_check_slot_fits(m, addr, len) == addr + len <= _module_base_addr(m) + Region

\* set_dac_mode: the idle side only.
set_dac_mode ==
    /\ Do("mode") /\ Sent
    /\ idle' = [m \in Modules |-> IF m \in This.modules THEN This.value ELSE idle[m]]
    /\ UNCHANGED <<store, player, active, gid, sched, history>>

\* T_PLAY_CTRL 0: no player plays, the output is silent, and what the players had loaded is
\* of no account any more.
play_off ==
    /\ Do("off") /\ Sent
    /\ on' = [m \in Modules |-> FALSE] /\ depth' = [m \in Modules |-> 0]
    /\ fsm' = [m \in Modules |-> "idle"] /\ play_pos' = [m \in Modules |-> -1]
    /\ cur' = [m \in Modules |-> 0] /\ next' = [m \in Modules |-> 0]
    /\ shows' = [m \in Modules |-> None] /\ loads' = [m \in Modules |-> None]
    /\ armed' = [m \in Modules |-> NotArmed] /\ rot' = NoRotation
    /\ UNCHANGED <<store, modes, gid, sched>>

\* _check_slot_fits raises before the write; write_wave fills the bursts of the slot.
Bursts(addr, len) == addr..(addr + len - 1)
write_wave ==
    /\ Do("wave") /\ UNCHANGED <<isMaster, list, player, modes, gid, sched, history, bounds>>
    /\ IF _check_slot_fits(This.m, This.addr, This.len)
       THEN /\ job' = Tail(job) /\ UNCHANGED req
            /\ mem' = [a \in Addresses |-> IF a \in Bursts(This.addr, This.len)
                                           THEN <<req.serial, This.m, This.slot>> ELSE mem[a]]
       ELSE job' = <<>> /\ req' = [req EXCEPT !.failed = TRUE] /\ UNCHANGED mem

send_list_write ==
    /\ Do("list") /\ Sent
    /\ list' = [list EXCEPT ![This.m][This.slot] = [addr |-> This.addr, len |-> This.len]]
    /\ UNCHANGED <<mem, player, modes, gid, sched, history>>

\* One register for all modules: those the request does not cover stay off.
play_on ==
    /\ Do("play") /\ Sent
    /\ on' = [m \in Modules |-> m \in This.modules]
    /\ depth' = [m \in Modules |-> IF m \in This.modules THEN This.n[m] % MaxSlots ELSE 0]
    /\ fsm' = [m \in Modules |-> IF m \in This.modules THEN "starting" ELSE "idle"]
    /\ next' = [m \in Modules |-> IF m \in This.modules THEN inc_idx(0, This.n[m] % MaxSlots) ELSE next[m]]
    /\ armed' = [m \in Modules |-> IF m \in This.modules THEN [serial |-> req.serial, n |-> This.n[m]]
                                   ELSE NotArmed]
    /\ UNCHANGED <<store, cur, shows, loads, play_pos, modes, gid, sched, rot>>

apply_trig_groups ==
    /\ Do("group") /\ Sent
    /\ gid' = [m \in Modules |-> IF m \in This.modules THEN This.group ELSE gid[m]]
    /\ rot' = NoRotation
    /\ UNCHANGED <<store, player, modes, sched, armed>>

\* T_GROUP_SCHED_CTRL writes one entry and says run or not run.  A rotation is undisturbed
\* if none of its players has been triggered when it begins to count.
send_group_sched_ctrl ==
    /\ Do("sched") /\ Sent
    /\ LET written == [sched EXCEPT !.intv[This.slot] = This.intv, !.group[This.slot] = This.groups,
                                    !.depth = This.depth, !.running = This.run]
           starts == This.run /\ ~sched.running IN
       /\ sched' = IF starts THEN [written EXCEPT !.idx = 0, !.left = sched.intv[0]] ELSE written
       /\ rot' = IF starts /\ \A m \in This.modules : play_pos[m] = -1
                 THEN [modules |-> This.modules, long |-> This.intv.long]
                 ELSE IF This.run /\ ~starts THEN rot ELSE NoRotation
    /\ UNCHANGED <<store, player, modes, gid, armed>>

\* trigger: 50 ms after the play packet.
trigger ==
    /\ Do("trigger") /\ \A m \in Modules : fsm[m] # "starting"
    /\ Trigger(This.groups) /\ Sent
    /\ rot' = NoRotation
    /\ UNCHANGED <<store, gid, sched, armed>>

\* The USB transfer raises: the route answers 400, and what was sent was sent.
Raise ==
    /\ job # <<>> /\ errors < MaxErrors /\ errors' = errors + 1
    /\ job' = <<>> /\ req' = [req EXCEPT !.failed = TRUE]
    /\ mem' \in {mem} \cup
           (IF Do("wave") /\ _check_slot_fits(This.m, This.addr, This.len)
            THEN {[mem EXCEPT ![This.addr] = <<req.serial, This.m, This.slot>>]} ELSE {})
    /\ UNCHANGED <<isMaster, list, player, modes, gid, sched, history, tells>>
-----------------------------------------------------------------------------
(***************************************************************************)
(* The arm functions: the addresses of a module's slots follow each other. *)
(***************************************************************************)
Begins(lens) ==
    LET begin[k \in 0..Len(lens)] == IF k = 0 THEN 0 ELSE begin[k - 1] + lens[k] + Margin IN begin
Step(what, m, lens, i) ==
    [do |-> what, m |-> m, slot |-> i, addr |-> _module_base_addr(m) + Begins(lens)[i], len |-> lens[i + 1]]
Each(what, m, lens) == [i \in 1..Len(lens) |-> Step(what, m, lens, i - 1)]
\* The steps of each module, one module after the other.
ForEach(steps) == FlattenSeq([k \in 1..M |-> IF k - 1 \in DOMAIN steps THEN steps[k - 1] ELSE <<>>])

Mode(S, v) == [do |-> "mode", modules |-> S, value |-> v]
Off == [do |-> "off"]
Play(S, lens) == [do |-> "play", modules |-> S, n |-> [m \in S |-> Len(lens[m])]]
All == [do |-> "trigger", groups |-> Groups]

\* Every waveform, then every list, then play: module m has as many slots as there are lengths
\* in lens[m].
arm(S, lens) ==
    <<Off>> \o ForEach([m \in S |-> Each("wave", m, lens[m])])
    \o ForEach([m \in S |-> Each("list", m, lens[m])]) \o <<Play(S, lens)>>
\* Files, two equal channels and frequencies send the same packets for 2 to MAX_SLOTS slots.
arm_waveform_from_files(S, lens) == arm(S, lens)
\* The test patterns: each module has two equal slots.
arm_test1_pattern(S, len) == arm(S, [m \in S |-> <<len[m], len[m]>>])
\* One waveform of one slot, as long for every module, each written and listed before the next;
\* the multitone panel's arm_multitone_pattern sends the same packets.
arm_stereo_staircase(S, len) ==
    <<Mode(S, "ddr"), Off>>
    \o ForEach([m \in S |-> <<Step("wave", m, <<len>>, 0), Step("list", m, <<len>>, 0)>>])
    \o <<Play(S, [m \in S |-> <<len>>])>>

\* ROTATION_MAX_GROUPS sets; entry (i + 1) % n holds the duration of set i.  (Variants: entry i
\* does; the group's number is taken for its bit; the schedule runs on.)
ScheduleSlotSame(i, n) == i
ScheduleSlot(i, n) == (i + 1) % n
group_bitmask_below(g) == {g - 1}
group_bitmask(g) == {g}
start_rotation_schedule(S, n, long) ==
    <<[do |-> "group", modules |-> S, group |-> 1]>>
    \o [k \in 1..n |-> [do |-> "sched", slot |-> k - 1, depth |-> n, run |-> k = n, modules |-> S,
                        groups |-> group_bitmask(1),
                        intv |-> [set |-> CHOOSE i \in 0..(n - 1) : ScheduleSlot(i, n) = k - 1, long |-> long]]]
stop_nothing == <<>>
stop_rotation_schedule ==
    <<[do |-> "sched", slot |-> 0, depth |-> 0, run |-> FALSE, modules |-> {}, groups |-> {},
       intv |-> None]>>
-----------------------------------------------------------------------------
(***************************************************************************)
(* The routes.                                                             *)
(***************************************************************************)
Arm(name) ==
    /\ job = <<>> /\ req.serial < MaxArms
    /\ req' = [name |-> name, serial |-> req.serial + 1, failed |-> FALSE, joined |-> FALSE]
    /\ UNCHANGED <<isMaster, store, player, modes, gid, sched, history, bounds>>

api_board_arm == \E S \in Covers : \E lens \in [S -> Layouts] :
    Arm("arm") /\ job' = arm_waveform_from_files(S, lens)
api_board_arm_stereo_staircase == \E S \in Covers, len \in Lens :
    Arm("staircase") /\ job' = arm_stereo_staircase(S, len)
api_board_arm_test1 == \E S \in Covers : \E len \in [S -> Lens] :
    /\ Arm("test1")
    /\ job' = stop_rotation_schedule \o <<Mode(Modules, "ddr")>> \o arm_test1_pattern(S, len) \o <<All>>
\* The panel has one set less than there are slots: every module has as many waveforms as
\* there are sets, each as long as it needs.
n_groups == MaxSlots - 1
Sets == {lens \in Layouts : Len(lens) = n_groups}
api_board_arm_rotation == \E S \in Covers, long \in BOOLEAN : \E lens \in [S -> Sets] :
    /\ Arm("rotation")
    /\ job' = <<Mode(Modules, "ddr")>> \o arm(S, lens) \o start_rotation_schedule(S, n_groups, long)
\* The panels' Stop: 0 V from all modules.
api_board_stop ==
    /\ Arm("stop")
    /\ job' = stop_rotation_schedule \o <<Mode(Modules, "ddr")>> \o arm_test1_pattern(Modules, [m \in Modules |-> 1])
              \o <<All>>

\* The routes of a single packet.
Tell == /\ job = <<>> /\ tells < MaxTells /\ tells' = tells + 1
        /\ req' = [req EXCEPT !.joined = req.name = "stop"]
        /\ UNCHANGED <<isMaster, store, player, modes, gid, sched, history, errors>>
api_trigger == \E groups \in (SUBSET Groups) \ {{}} : Tell /\ job' = <<[do |-> "trigger", groups |-> groups]>>
api_board_dac_mode_ramp_set == \E v \in {"ddr", "sine"} : Tell /\ job' = <<Mode(Modules, v)>>
api_board_trig_group_set == \E S \in Covers, g \in Groups :
    Tell /\ job' = <<[do |-> "group", modules |-> S, group |-> g]>>

Route == \/ api_board_arm \/ api_board_arm_stereo_staircase \/ api_board_arm_test1
         \/ api_board_arm_rotation \/ api_board_stop
         \/ api_trigger \/ api_board_dac_mode_ramp_set \/ api_board_trig_group_set
Packet == \/ set_dac_mode \/ play_off \/ write_wave \/ send_list_write \/ play_on
          \/ apply_trig_groups \/ send_group_sched_ctrl \/ trigger
Next == Route \/ Packet \/ Raise \/ Fire \/ Elsewhere \/ \E m \in Modules : Refill(m)
\* The players and the scheduler run on the board's clock.
Spec == Init /\ [][Next]_vars /\ WF_vars(Fire) /\ \A m \in Modules : WF_vars(Refill(m))
-----------------------------------------------------------------------------
TypeOK ==
    /\ isMaster \in BOOLEAN /\ \A m \in Modules, i \in Slots : list[m][i] = None \/ list[m][i] \in Entry
    /\ on \in [Modules -> BOOLEAN] /\ depth \in [Modules -> Slots]
    /\ fsm \in [Modules -> {"idle", "starting", "running", "refill"}]
    /\ cur \in [Modules -> Slots] /\ next \in [Modules -> Slots]
    /\ play_pos \in [Modules -> -1..(MaxSlots - 1)]
    /\ active \in [Modules -> {"ddr", "sine"}] /\ idle \in [Modules -> {"ddr", "sine"}]
    /\ gid \in [Modules -> Groups] /\ sched.idx \in Slots /\ sched.depth \in 0..MaxSlots

\* A module that plays has the waveforms of one request, whole, in every slot of its list,
\* whatever failed on the way and however long the waveforms of the other modules are; and
\* it shows the slots in their order, play_pos being the one it shows (with MaxSlots of them
\* it stays 0).
WhatPlaysIsWhole ==
    \A m \in Modules : on[m] =>
        /\ \A i \in 0..(armed[m].n - 1) :
            /\ list[m][i] # None
            /\ \A a \in Bursts(list[m][i].addr, list[m][i].len) : mem[a] = <<armed[m].serial, m, i>>
        /\ play_pos[m] >= 0 =>
            LET i == (cur[m] + armed[m].n - 1) % armed[m].n IN
            shows[m] = list[m][i] /\ (armed[m].n < MaxSlots => play_pos[m] = i)

\* While set i of a rotation plays, what is counted down is the duration of set i, if the
\* durations leave the players time to refill and no other trigger came between.
SetLastsItsTime ==
    isMaster /\ sched.running /\ rot.long => \A m \in rot.modules :
        IF play_pos[m] = -1 THEN sched.idx = 0 ELSE sched.left.set = play_pos[m]

\* After a Stop that did not fail every module plays the zeroes it armed, and, unless another
\* board's trigger came between, from DDR; nothing is left that counts.
StopIsQuiet ==
    job = <<>> /\ req.name = "stop" /\ ~req.failed =>
        /\ ~sched.running
        /\ \A m \in Modules : /\ on[m] /\ play_pos[m] >= 0 /\ mem[shows[m].addr][1] = req.serial
                              /\ ~req.joined => active[m] = "ddr"

\* A rotation of the master that is left alone plays each of its sets again and again.
RotationGoesRound ==
    \A m \in Modules, i \in 0..(MaxSlots - 2) :
        <>[](isMaster /\ sched.running /\ job = <<>> /\ m \in rot.modules) => []<>(play_pos[m] = i)
=============================================================================
