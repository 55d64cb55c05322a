--------------------------------- MODULE BringUp ---------------------------------
(***************************************************************************)
(* Bringing the ring up: run_init of host/web/init_flow.py, which has the  *)
(* master's USB only and asks every other board over the ring, and         *)
(* host/post_flash_checklist.py, which reads every board over its own USB. *)
(* Both are a list of phases, each a command followed by a look at every   *)
(* board; the first phase that is not satisfied ends it.                   *)
(*                                                                         *)
(* A command that misses a board and an answer that comes too late are     *)
(* faults, counted from the beginning of a bring-up.  A late answer is not *)
(* noticed: read_status_reply takes what the answer table holds, and what  *)
(* it holds is the answer of the board asked before.                       *)
(***************************************************************************)
EXTENDS Naturals, FiniteSets

CONSTANTS N,           \* boards of the ring, by position behind the master
          NoId,        \* board_id 0xFFFE, as after power-on
          MaxFaults    \* bound of the model

ASSUME BringUpAssumption == N \in Nat \ {0} /\ NoId \notin Nat /\ MaxFaults \in Nat

Boards == 0..(N - 1)
Ids == Boards \cup {NoId}
Master == 0

VARIABLES
    hw,        \* what each board has in its registers
    index,     \* board_index of the master (aurora_ctrl_channel.v)
    clocked,   \* clocked[d]: ext_clk of d is within EXT_CLK_TOLERANCE of EXT_CLK_EXPECT_HZ
    table,     \* the answer table of the master
    tool,      \* who brings up: "run_init" or "checklist"
    phase,     \* where it is; "idle", "done", "used" or "failed" between two of them
    at,        \* the board it looks at
    good,      \* nothing to complain about in this phase so far
    faults     \* faults of this bring-up

ringVars == <<hw, index, table, tool, phase, at, good, faults>>
vars == <<hw, index, clocked, table, tool, phase, at, good, faults>>

\* active and idle: the two sides of the mode and ramp_en registers (sine_ctrl_regs.v), of
\* one module for all; 0 is DDR.  A write goes to the idle side, a trigger swaps them.
Board == [id : Ids, master : BOOLEAN, ext : BOOLEAN, active : {0, 1}, idle : {0, 1}]
WithId(b, i) == [b EXCEPT !.id = i]
WithMaster(b) == [b EXCEPT !.master = TRUE]
WithExt(b) == [b EXCEPT !.ext = TRUE]
WithIdle(b, v) == [b EXCEPT !.idle = v]
Swapped(b) == [b EXCEPT !.active = b.idle, !.idle = b.active]
PowerOn == [id |-> NoId, master |-> FALSE, ext |-> FALSE, active |-> 0, idle |-> 0]

\* QT_BOARD_INFO, as far as bring-up looks at it.
decode_qt_board_info(b) == [info |-> TRUE, id |-> b.id, master |-> b.master, ext |-> b.ext,
                            active |-> b.active]
Answers == [info : BOOLEAN, id : Ids, master : BOOLEAN, ext : BOOLEAN, active : {0, 1}]
NoAnswer == [info |-> FALSE, id |-> NoId, master |-> FALSE, ext |-> FALSE, active |-> 0]

\* The ring as another master left it, q boards behind this one; off are the boards that
\* have been without power since.
Place(q, d) == IF d >= q THEN d - q ELSE d + N - q
Behind(q, ext, mode, off) ==
    [d \in Boards |-> IF d \in off THEN PowerOn
                      ELSE [id |-> Place(q, d), master |-> (d = q), ext |-> ext, active |-> mode, idle |-> 0]]

Init ==
    /\ \/ hw = [d \in Boards |-> PowerOn] /\ index = 0 /\ table = NoAnswer
       \/ \E q \in Boards, ext \in BOOLEAN, mode \in {0, 1}, off \in SUBSET (Boards \ {Master}) :
            /\ off \subseteq {q} /\ hw = Behind(q, ext, mode, off) /\ index = Place(q, Master)
            /\ table \in {NoAnswer, decode_qt_board_info(hw[q])}
    /\ clocked \in [Boards -> BOOLEAN]
    /\ tool = "run_init" /\ phase = "idle" /\ at = 0 /\ good = TRUE /\ faults = 0
-----------------------------------------------------------------------------
Resting == phase \in {"idle", "done", "used", "failed"}
Goto(p) == phase' = p /\ at' = 0 /\ good' = TRUE
Fault == faults < MaxFaults /\ faults' = faults + 1

\* A board that has the master's id besides the master takes what the master sends to
\* everyone for something of its own that has come round, and drops it.
Twin(d) == d # Master /\ hw[d].id = hw[Master].id
Heard == {d \in Boards : \A e \in 1..d : ~Twin(e)}

\* The boards that fire when the master triggers.  It waits for all to acknowledge the
\* pause, which a twin does; what is behind a twin does not hear of it.
Fires == IF Boards \ Heard \subseteq {N - 1} THEN Heard ELSE {}

\* The boards of R a broadcast gets to: all, or all but one.
Reaches(S, R) == \/ S = R /\ UNCHANGED faults
                 \/ Fault /\ \E d \in Boards : S = R \ {d}

\* The board a packet to the id i ends at, the first that has it (the master's own do not
\* leave the master), and the board whose answer comes back from there.
Addressed(i) == {d \in Boards : hw[d].id = i /\ \A e \in 0..(d - 1) : hw[e].id # i}
Answering(i) == {d \in Addressed(i) : d = Master \/ \A e \in (d + 1)..(N - 1) : ~Twin(e)}

\* T_QUERY(QT_BOARD_INFO) to d and the table after the wait: bi, and table' what it then
\* holds.  When no answer comes, nothing changes.
_query_board_info(d, bi) ==
    \/ \E e \in Answering(d) : bi = decode_qt_board_info(hw[e]) /\ table' = bi /\ UNCHANGED faults
    \/ \E e \in Answering(d) : /\ bi = table /\ Fault
                               /\ table' \in {table, decode_qt_board_info(hw[e])}
    \/ Answering(d) = {} /\ bi = table /\ UNCHANGED <<table, faults>>

\* The checklist reads WO_RT_BOARD_INFO of the board itself.
RtBoardInfo(d, bi) == bi = decode_qt_board_info(hw[d]) /\ UNCHANGED <<table, faults>>
-----------------------------------------------------------------------------
(***************************************************************************)
(* The commands.                                                           *)
(***************************************************************************)
StartInit(t) == /\ Resting /\ tool' = t /\ faults' = 0 /\ Goto("si5332")
                /\ UNCHANGED <<hw, index, clocked, table>>

\* The clock chip is a matter of another program; the checklist looks at links and clocks
\* before anything is sent.
si5332 ==
    /\ phase = "si5332" /\ (Goto("failed") \/ Goto(IF tool = "run_init" THEN "master_unlock" ELSE "channel_up"))
    /\ UNCHANGED <<hw, index, clocked, table, tool, faults>>

\* T_BOARD_ID_ASSIGN to the id the master has now, over its own loopback.  The id it gets
\* is its board_index, and what is read back is is_master.
master_unlock ==
    /\ phase = "master_unlock" /\ Goto("enum")
    /\ hw' = [hw EXCEPT ![Master] = WithMaster(WithId(hw[Master], index))]
    /\ UNCHANGED <<index, clocked, table, tool, faults>>

\* T_ENUM_START, and init_ok and total_boards of the master.  The boards it passes get their
\* board_index; the master keeps the one it had.  A twin keeps the count from coming back.
enum == /\ phase = "enum" /\ (Goto("failed") \/ (Heard = Boards /\ Goto("assign")))
        /\ UNCHANGED <<hw, index, clocked, table, tool, faults>>
Index(d) == IF d = Master THEN index ELSE d

\* The broadcast names the boards and leaves is_master alone (board_cfg_reg.v).
assign ==
    /\ phase = "assign" /\ Goto("board_id_assign")
    /\ \E S \in SUBSET Boards :
        Reaches(S, Heard) /\ hw' = [d \in Boards |-> IF d \in S THEN WithId(hw[d], Index(d)) ELSE hw[d]]
    /\ UNCHANGED <<index, clocked, table, tool>>

\* run_init addresses boards[0]["board_id"], which is 0 when the phase before has passed, the
\* checklist the id it has just read of the master.
assign_master ==
    /\ phase = "assign_master" /\ Goto("is_master_assign")
    /\ \/ LET S == Addressed(IF tool = "run_init" THEN 0 ELSE hw[Master].id) IN
          /\ hw' = [d \in Boards |-> IF d \in S THEN WithMaster(WithId(hw[d], Index(d))) ELSE hw[d]]
          /\ UNCHANGED faults
       \/ Fault /\ UNCHANGED hw
    /\ UNCHANGED <<index, clocked, table, tool>>

select ==
    /\ phase = "select" /\ Goto("ext_clk_sel")
    /\ \E S \in SUBSET Boards :
        Reaches(S, Heard) /\ hw' = [d \in Boards |-> IF d \in S THEN WithExt(hw[d]) ELSE hw[d]]
    /\ UNCHANGED <<index, clocked, table, tool>>

\* Twelve packets to the idle side, before and after a trigger of all groups.
_write_mode_ramp_zero(before, after) ==
    /\ phase = before /\ Goto(after)
    /\ \E S \in SUBSET Boards :
        Reaches(S, Heard) /\ hw' = [d \in Boards |-> IF d \in S THEN WithIdle(hw[d], 0) ELSE hw[d]]
    /\ UNCHANGED <<index, clocked, table, tool>>
\* (Variant: the other side is left as it is.)
swap_only ==
    /\ phase = "swap" /\ Goto("dac_mode_zero")
    /\ \E S \in SUBSET Boards :
        Reaches(S, Fires) /\ hw' = [d \in Boards |-> IF d \in S THEN Swapped(hw[d]) ELSE hw[d]]
    /\ UNCHANGED <<index, clocked, table, tool>>
swap ==
    /\ phase = "swap" /\ Goto("zero_again")
    /\ \E S \in SUBSET Boards :
        Reaches(S, Fires) /\ hw' = [d \in Boards |-> IF d \in S THEN Swapped(hw[d]) ELSE hw[d]]
    /\ UNCHANGED <<index, clocked, table, tool>>
-----------------------------------------------------------------------------
(***************************************************************************)
(* The looks: one board after the other, and on when all of them passed.   *)
(***************************************************************************)
Looks == {"board_id_assign", "is_master_assign", "ext_clk_sel", "dac_mode_zero"}
After(p) == IF p = "board_id_assign" THEN "assign_master"
            ELSE IF p = "is_master_assign" THEN IF tool = "run_init" THEN "channel_up" ELSE "select"
            ELSE IF p = "channel_up" THEN IF tool = "run_init" THEN "select" ELSE "ext_clk_freq"
            ELSE IF p = "ext_clk_sel" THEN IF tool = "run_init" THEN "ext_clk_freq" ELSE "zero"
            ELSE IF p = "ext_clk_freq" THEN IF tool = "run_init" THEN "zero" ELSE "master_unlock"
            ELSE "calib_report"

\* The checklist knows a named board by per_hop_value_eff, which the same packet loads.
\* (Variant: nobody looks at the clock selection.)
PassesUnselected(p, d, bi) ==
    /\ bi.info
    /\ CASE p = "board_id_assign" -> IF tool = "run_init" THEN bi.id = d ELSE bi.id # NoId
         [] p = "is_master_assign" -> bi.master = (d = Master)
         [] p = "ext_clk_sel" -> TRUE
         [] OTHER -> bi.active = 0
Passes(p, d, bi) ==
    /\ bi.info
    /\ CASE p = "board_id_assign" -> IF tool = "run_init" THEN bi.id = d ELSE bi.id # NoId
         [] p = "is_master_assign" -> bi.master = (d = Master)
         [] p = "ext_clk_sel" -> bi.ext
         [] OTHER -> bi.active = 0

Onward(ok) ==
    IF at + 1 < N THEN at' = at + 1 /\ good' = (good /\ ok) /\ UNCHANGED phase
    ELSE Goto(IF good /\ ok THEN After(phase) ELSE "failed")

look ==
    /\ phase \in Looks
    /\ \E bi \in {decode_qt_board_info(hw[e]) : e \in Boards} \cup {table} :
        /\ IF tool = "run_init" THEN _query_board_info(at, bi) ELSE RtBoardInfo(at, bi)
        /\ Onward(Passes(phase, at, bi))
    /\ UNCHANGED <<hw, index, clocked, tool>>

\* Two counts of ext_clk_freq_count: one that is late makes any frequency; two from a table
\* that does not change make none.
\* (Variant: the difference is not looked at.)
measure_any ==
    /\ phase = "ext_clk_freq" /\ Onward(TRUE)
    /\ UNCHANGED <<hw, index, clocked, table, tool, faults>>
measure_ext_clk_freq_remote ==
    /\ phase = "ext_clk_freq"
    /\ \/ tool = "checklist" /\ Onward(clocked[at]) /\ UNCHANGED faults
       \/ tool = "run_init" /\ (\E e \in Answering(at) : Onward(clocked[e])) /\ UNCHANGED faults
       \/ tool = "run_init" /\ Fault /\ \E ok \in BOOLEAN : Onward(ok)
       \/ tool = "run_init" /\ Answering(at) = {} /\ Onward(FALSE) /\ UNCHANGED faults
    /\ UNCHANGED <<hw, index, clocked, table, tool>>

channel_up ==
    /\ phase = "channel_up" /\ (Goto("failed") \/ Goto(After(phase)))
    /\ UNCHANGED <<hw, index, clocked, table, tool, faults>>

\* Compares and reports.  The checklist gives up when an answer is not of its type.
calib_report ==
    /\ phase = "calib_report"
    /\ \/ Goto("done") /\ UNCHANGED faults
       \/ tool = "checklist" /\ Fault /\ Goto("failed")
    /\ table' = NoAnswer
    /\ UNCHANGED <<hw, index, clocked, tool>>

BringingUp ==
    \/ si5332 \/ master_unlock \/ enum \/ assign \/ assign_master \/ select
    \/ _write_mode_ramp_zero("zero", "swap") \/ swap \/ _write_mode_ramp_zero("zero_again", "dac_mode_zero")
    \/ look \/ measure_ext_clk_freq_remote \/ channel_up \/ calib_report
-----------------------------------------------------------------------------
(***************************************************************************)
(* What happens to the boards otherwise.                                   *)
(***************************************************************************)
\* set_dac_mode_ramp writes the idle side; a trigger takes it over where a group fires.
set_dac_mode_ramp(d, v) ==
    /\ Resting /\ phase' = "idle" /\ hw' = [hw EXCEPT ![d] = WithIdle(hw[d], v)]
    /\ UNCHANGED <<index, clocked, table, tool, at, good, faults>>
trigger(S) ==
    /\ Resting /\ phase' = (IF phase = "done" THEN "used" ELSE phase)
    /\ (\A d \in Boards : hw[d].master = (d = Master)) => S \subseteq Fires
    /\ hw' = [d \in Boards |-> IF d \in S THEN Swapped(hw[d]) ELSE hw[d]]
    /\ UNCHANGED <<index, clocked, table, tool, at, good, faults>>

\* The boards lose their power; a bring-up under way ends in an exception.  (One that is
\* still with the clock chip does at its first word to the master.)
PowerCycle ==
    /\ phase # "si5332"
    /\ hw' = [d \in Boards |-> PowerOn] /\ index' = 0 /\ table' = NoAnswer
    /\ Goto(IF Resting THEN "idle" ELSE "failed")
    /\ UNCHANGED <<clocked, tool, faults>>

ClockChanges == clocked' \in [Boards -> BOOLEAN] /\ UNCHANGED ringVars

Operate == \/ \E t \in {"run_init", "checklist"} : StartInit(t)
           \/ \E d \in Boards, v \in {0, 1} : set_dac_mode_ramp(d, v)
           \/ \E S \in SUBSET Boards : trigger(S)
           \/ PowerCycle
Next == BringingUp \/ Operate \/ ClockChanges
Spec == Init /\ [][Next]_vars
-----------------------------------------------------------------------------
Phases == Looks \cup {"idle", "done", "used", "failed", "si5332", "master_unlock", "enum", "assign",
                      "assign_master", "channel_up", "select", "ext_clk_freq", "zero", "swap",
                      "zero_again", "calib_report"}
TypeOK ==
    /\ hw \in [Boards -> Board] /\ index \in Boards /\ clocked \in [Boards -> BOOLEAN] /\ table \in Answers
    /\ tool \in {"run_init", "checklist"} /\ phase \in Phases /\ at \in Boards /\ good \in BOOLEAN
    /\ faults \in 0..MaxFaults

\* When a bring-up says it is done, every board has the id of its place, runs from the
\* external clock and plays from DDR, whichever one command missed a board or whichever one
\* answer was late on the way: what the looks are for.  The ids are right only if the master
\* was first in the last enumeration too, or has been reset since: run_init finds out that it
\* was not, the checklist does not.  If nothing went wrong the master is the only one.
DoneMeansReady ==
    phase = "done" =>
        /\ faults <= 1 /\ index = 0 => \A d \in Boards : hw[d].id = d /\ hw[d].ext /\ hw[d].active = 0
        /\ tool = "checklist" => \A d \in Boards : hw[d].ext /\ hw[d].active = 0
        /\ faults = 0 => \A d \in Boards : hw[d].master = (d = Master)
        /\ faults = 0 /\ tool = "run_init" => index = 0

\* No trigger takes a board out of DDR mode after a bring-up that met no fault until someone
\* sets its mode: both sides of the registers are zero, which is why they are written twice.
ModeStaysZero == phase \in {"done", "used"} /\ faults = 0 => \A d \in Boards : hw[d].active = 0
=============================================================================
