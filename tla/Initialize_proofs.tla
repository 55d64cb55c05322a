--------------------------- MODULE Initialize_proofs ----------------------------
(***************************************************************************)
(* That a bring-up which says it is done leaves the boards ready, for a    *)
(* ring of any length: type correctness, DoneMeansReady and ModeStaysZero  *)
(* of BringUp; and that Initialize System, with the clock chip's sessions  *)
(* and the browsers, implements BringUp, so that the same holds there.     *)
(*                                                                         *)
(* The inductive invariant says, phase by phase, what the phases so far    *)
(* have established.  During a look it speaks of the boards looked at, and *)
(* only if there was nothing to complain about.  Where one fault is to be  *)
(* found out, it says that after the fault no other is left to hide it.    *)
(***************************************************************************)
EXTENDS Initialize, TLAPS, SequenceTheorems

-----------------------------------------------------------------------------
(* The inductive invariant.                                                *)

IdsRight == \A d \in Boards : hw[d].id = d
AllExt == \A d \in Boards : hw[d].ext = TRUE
PlayDDR == \A d \in Boards : hw[d].active = 0

\* Where the master's board_index is 0, no board has the name of another's place.
Residue == index = 0 => \A d \in Boards : hw[d].id \in {d, NoId}

Mastering == {"assign_master", "is_master_assign"}
Last == {"select", "ext_clk_sel", "zero", "swap", "zero_again", "dac_mode_zero", "calib_report", "done"}
Past == phase \in Last \/ (tool = "run_init" /\ phase \in {"channel_up", "ext_clk_freq"})
Begun == phase \in {"enum", "assign", "board_id_assign"} \/ phase \in Mastering \/ Past
Unlocked == Begun => hw[Master].id = index /\ hw[Master].master = TRUE

\* T_BOARD_ID_ASSIGN missed board m: its look finds the answer of the board before it.
Missing(m) == /\ m # Master /\ hw[m].id # m /\ \A d \in Boards : d # m => hw[d].id = d
              /\ m < at => good = FALSE
              /\ 0 < at /\ at <= m => table.id = at - 1
NamedSoFar == \A d \in Boards : d < at => hw[d].id # NoId
Naming ==
    phase = "board_id_assign" =>
        /\ tool = "run_init" /\ faults <= 1 /\ index = 0 => IdsRight \/ (faults = 1 /\ \E m \in Boards : Missing(m))
        /\ tool = "checklist" /\ good = TRUE => NamedSoFar

Named ==
    /\ tool = "run_init" /\ faults <= 1 /\ index = 0 /\ (phase \in Mastering \/ Past) => IdsRight
    /\ tool = "checklist" /\ (phase \in Mastering \/ Past) => \A d \in Boards : hw[d].id # NoId

\* A look sees the board it means; run_init, which asks by id, needs ids that are right.
OneMasterTo(n) == \A d \in Boards : d < n => hw[d].master = (d = Master)
Seen == tool = "checklist" \/ (faults = 0 /\ index = 0)
Mastered ==
    /\ Seen /\ phase = "is_master_assign" /\ good = TRUE => OneMasterTo(at)
    /\ Seen /\ Past => OneMasterTo(N)

\* Of a master that is not first by its board_index run_init sees that it is not another board.
Displaced ==
    tool = "run_init" /\ faults = 0 /\ index # 0 =>
        /\ phase = "is_master_assign" /\ good = TRUE => at <= index
        /\ ~Past

Zeroing == {"zero", "swap", "zero_again", "dac_mode_zero", "calib_report", "done"}
Selected ==
    /\ phase = "ext_clk_sel" /\ faults <= 1 /\ index = 0 =>
           AllExt \/ (faults = 1 /\ (good = TRUE => \A d \in Boards : d < at => hw[d].ext = TRUE))
    /\ phase = "ext_clk_sel" /\ tool = "checklist" /\ good = TRUE => \A d \in Boards : d < at => hw[d].ext = TRUE
    /\ faults <= 1 /\ index = 0 /\ (phase \in Zeroing \/ (tool = "run_init" /\ phase = "ext_clk_freq")) => AllExt
    /\ tool = "checklist" /\ phase \in Zeroing => AllExt

\* What a board that hears the master has on the idle side, and one that fires on the active one.
HeardIdle == \A d \in Heard : hw[d].idle = 0
FiresPlay == \A d \in Fires : hw[d].active = 0
Zeroed ==
    /\ phase = "swap" /\ faults = 0 => HeardIdle
    /\ phase = "zero_again" /\ faults = 0 => FiresPlay
    /\ phase \in {"dac_mode_zero", "calib_report", "done"} /\ faults = 0 => FiresPlay /\ HeardIdle
    /\ phase = "dac_mode_zero" /\ faults = 1 /\ index = 0 =>
           PlayDDR \/ (good = TRUE => \A d \in Boards : d < at => hw[d].active = 0)
    /\ phase = "dac_mode_zero" /\ tool = "checklist" /\ good = TRUE => \A d \in Boards : d < at => hw[d].active = 0
    /\ phase \in {"calib_report", "done"} /\ faults <= 1 /\ index = 0 => PlayDDR
    /\ phase \in {"calib_report", "done"} /\ tool = "checklist" => PlayDDR
    /\ phase = "used" /\ faults = 0 => PlayDDR /\ HeardIdle /\ OneMasterTo(N)

Phasewise == Residue /\ Unlocked /\ Naming /\ Named /\ Mastered /\ Displaced /\ Selected /\ Zeroed
IInv == TypeOK /\ Phasewise
-----------------------------------------------------------------------------
(* Types.                                                                  *)

LEMMA InBoards == Boards \subseteq Nat /\ Master \in Boards /\ \A d \in Boards : 0 <= d /\ d < N
BY BringUpAssumption DEF Boards, Master

LEMMA Answered == ASSUME NEW b \in Board PROVE decode_qt_board_info(b) \in Answers
BY DEF Board, decode_qt_board_info, Answers

LEMMA Powered == PowerOn \in Board /\ NoAnswer \in Answers
BY DEF PowerOn, Board, Ids, NoAnswer, Answers, decode_qt_board_info

\* What a packet changes of a board, and what it leaves.
LEMMA Updated ==
    ASSUME NEW b \in Board
    PROVE /\ \A i \in Ids : /\ WithId(b, i) \in Board /\ WithId(b, i).id = i
                            /\ WithId(b, i).master = b.master /\ WithId(b, i).ext = b.ext
                            /\ WithId(b, i).active = b.active /\ WithId(b, i).idle = b.idle
          /\ WithMaster(b) \in Board /\ WithMaster(b).id = b.id /\ WithMaster(b).master = TRUE
          /\ WithMaster(b).ext = b.ext /\ WithMaster(b).active = b.active /\ WithMaster(b).idle = b.idle
          /\ WithExt(b) \in Board /\ WithExt(b).id = b.id /\ WithExt(b).master = b.master
          /\ WithExt(b).ext = TRUE /\ WithExt(b).active = b.active /\ WithExt(b).idle = b.idle
          /\ \A v \in {0, 1} : /\ WithIdle(b, v) \in Board /\ WithIdle(b, v).id = b.id
                               /\ WithIdle(b, v).master = b.master /\ WithIdle(b, v).ext = b.ext
                               /\ WithIdle(b, v).active = b.active /\ WithIdle(b, v).idle = v
          /\ Swapped(b) \in Board /\ Swapped(b).id = b.id /\ Swapped(b).master = b.master
          /\ Swapped(b).ext = b.ext /\ Swapped(b).active = b.idle /\ Swapped(b).idle = b.active
BY DEF Board, WithId, WithMaster, WithExt, WithIdle, Swapped

LEMMA BoardIds == \A d \in Boards : d \in Ids
BY DEF Ids

LEMMA Indices == TypeOK => \A d \in Boards : Index(d) \in Ids
BY BoardIds DEF TypeOK, Index

LEMMA InitTyped == Init => TypeOK
<1> SUFFICES ASSUME Init PROVE TypeOK
  OBVIOUS
<1>1. hw \in [Boards -> Board] /\ index \in Boards /\ table \in Answers
  <2>1. CASE hw = [d \in Boards |-> PowerOn] /\ index = 0 /\ table = NoAnswer
    BY <2>1, Powered, InBoards DEF Master
  <2>2. CASE ~(hw = [d \in Boards |-> PowerOn] /\ index = 0 /\ table = NoAnswer)
    <3>1. PICK q \in Boards, ext \in BOOLEAN, mode \in {0, 1}, off \in SUBSET (Boards \ {Master}) :
              /\ off \subseteq {q} /\ hw = Behind(q, ext, mode, off) /\ index = Place(q, Master)
              /\ table \in {NoAnswer, decode_qt_board_info(hw[q])}
      BY <2>2 DEF Init
    <3>2. ASSUME NEW d \in Boards PROVE Place(q, d) \in Boards
      BY BringUpAssumption DEF Boards, Place
    <3>3. hw \in [Boards -> Board]
      BY <3>1, <3>2, Powered DEF Behind, Board, Ids
    <3>4. index \in Boards
      BY <3>1, <3>2, InBoards
    <3> QED BY <3>1, <3>3, <3>4, Answered, Powered
  <2> QED BY <2>1, <2>2
<1>2. QED
  BY <1>1, InBoards, BringUpAssumption DEF Init, TypeOK, Phases, Master

\* What the handlers share: where they go, whom a broadcast gets to, what a look sees.
LEMMA GotoTyped == ASSUME NEW p \in Phases, Goto(p) PROVE phase' \in Phases /\ at' \in Boards /\ good' \in BOOLEAN
BY InBoards DEF Goto, Master

LEMMA FaultTyped == ASSUME TypeOK, Fault \/ UNCHANGED faults PROVE faults' \in 0..MaxFaults
BY BringUpAssumption DEF TypeOK, Fault

LEMMA PhaseNames ==
    /\ Looks \subseteq Phases
    /\ {"idle", "done", "used", "failed", "si5332", "master_unlock", "enum", "assign",
        "assign_master", "channel_up", "select", "ext_clk_freq", "zero", "swap",
        "zero_again", "calib_report"} \subseteq Phases
    /\ {"board_id_assign", "is_master_assign", "ext_clk_sel", "dac_mode_zero"} \subseteq Phases
    /\ \A p \in Phases : After(p) \in Phases
<1>1. Looks \subseteq Phases
  BY DEF Phases
<1>2. {"idle", "done", "used", "failed", "si5332", "master_unlock", "enum", "assign",
       "assign_master", "channel_up", "select", "ext_clk_freq", "zero", "swap",
       "zero_again", "calib_report"} \subseteq Phases
  BY DEF Phases
<1>3. {"board_id_assign", "is_master_assign", "ext_clk_sel", "dac_mode_zero"} \subseteq Phases
  BY DEF Phases, Looks
<1> QED BY <1>1, <1>2, <1>3 DEF After

LEMMA OnwardTyped ==
    ASSUME TypeOK, NEW ok \in BOOLEAN, Onward(ok)
    PROVE phase' \in Phases /\ at' \in Boards /\ good' \in BOOLEAN
<1>1. After(phase) \in Phases /\ "failed" \in Phases
  BY PhaseNames DEF TypeOK
<1>2. CASE at + 1 < N
  <2>1. at' = at + 1 /\ good' = (good /\ ok) /\ phase' = phase
    BY <1>2 DEF Onward
  <2>2. at' \in Boards
    BY <1>2, <2>1, BringUpAssumption DEF TypeOK, Boards
  <2>3. good' \in BOOLEAN
    BY <2>1
  <2> QED BY <2>1, <2>2, <2>3 DEF TypeOK
<1>3. CASE ~(at + 1 < N)
  <2>1. Goto(IF good /\ ok THEN After(phase) ELSE "failed")
    BY <1>3 DEF Onward
  <2>2. (IF good /\ ok THEN After(phase) ELSE "failed") \in Phases
    BY <1>1
  <2> QED BY <2>1, <2>2, GotoTyped
<1> QED BY <1>2, <1>3

LEMMA Answerers == \A i : Answering(i) \subseteq Boards
BY DEF Answering, Addressed

LEMMA Measures == ASSUME TypeOK, measure_ext_clk_freq_remote PROVE \E ok \in BOOLEAN : Onward(ok)
<1>1. Answering(at) \subseteq Boards
  BY Answerers
<1>2. \A d \in Boards : clocked[d] \in BOOLEAN
  BY DEF TypeOK
<1>3. at \in Boards
  BY DEF TypeOK
<1> QED BY <1>1, <1>2, <1>3 DEF measure_ext_clk_freq_remote

LEMMA LookTyped ==
    ASSUME TypeOK, look
    PROVE /\ table' \in Answers /\ faults' \in 0..MaxFaults
          /\ phase' \in Phases /\ at' \in Boards /\ good' \in BOOLEAN
<1>1. PICK bi \in {decode_qt_board_info(hw[e]) : e \in Boards} \cup {table} :
          /\ IF tool = "run_init" THEN _query_board_info(at, bi) ELSE RtBoardInfo(at, bi)
          /\ Onward(Passes(phase, at, bi))
  BY DEF look
<1>2. \A e \in Boards : decode_qt_board_info(hw[e]) \in Answers
  BY Answered DEF TypeOK
<1>3. table \in Answers
  BY DEF TypeOK
<1>4. table' \in Answers
  BY <1>1, <1>2, <1>3, Answerers DEF _query_board_info, RtBoardInfo
<1>5. faults' \in 0..MaxFaults
  BY <1>1, FaultTyped DEF _query_board_info, RtBoardInfo
<1>6. Passes(phase, at, bi) \in BOOLEAN
  BY DEF Passes
<1>7. phase' \in Phases /\ at' \in Boards /\ good' \in BOOLEAN
  BY <1>1, <1>6, OnwardTyped
<1> QED BY <1>4, <1>5, <1>6, <1>7
LEMMA TypeStep == TypeOK /\ [Next]_vars => TypeOK'
<1> SUFFICES ASSUME TypeOK, [Next]_vars PROVE TypeOK'
  OBVIOUS
<1>0. \A d \in Boards : hw[d] \in Board
  BY DEF TypeOK
<1>1. CASE si5332
  <2>1. phase' \in Phases /\ at' \in Boards /\ good' \in BOOLEAN
    BY <1>1, GotoTyped, PhaseNames DEF si5332
  <2> QED BY <1>1, <2>1 DEF si5332, TypeOK
<1>2. CASE master_unlock
  <2>1. WithMaster(WithId(hw[Master], index)) \in Board
    BY <1>0, Updated, BoardIds, InBoards DEF TypeOK
  <2>2. phase' \in Phases /\ at' \in Boards /\ good' \in BOOLEAN
    BY <1>2, GotoTyped, PhaseNames DEF master_unlock
  <2>3. hw' \in [Boards -> Board]
    BY <1>2, <2>1 DEF master_unlock, TypeOK
  <2> QED BY <1>2, <2>2, <2>3 DEF master_unlock, TypeOK
<1>3. CASE enum
  <2>1. phase' \in Phases /\ at' \in Boards /\ good' \in BOOLEAN
    BY <1>3, GotoTyped, PhaseNames DEF enum
  <2> QED BY <1>3, <2>1 DEF enum, TypeOK
<1>4. CASE assign
  <2>1. PICK S \in SUBSET Boards :
            Reaches(S, Heard) /\ hw' = [d \in Boards |-> IF d \in S THEN WithId(hw[d], Index(d)) ELSE hw[d]]
    BY <1>4 DEF assign
  <2>2. \A d \in Boards : WithId(hw[d], Index(d)) \in Board
    BY <1>0, Updated, Indices
  <2>3. hw' \in [Boards -> Board]
    BY <1>0, <2>1, <2>2
  <2>4. faults' \in 0..MaxFaults
    BY <2>1, FaultTyped DEF Reaches
  <2>5. phase' \in Phases /\ at' \in Boards /\ good' \in BOOLEAN
    BY <1>4, GotoTyped, PhaseNames DEF assign
  <2>6. UNCHANGED <<index, clocked, table, tool>>
    BY <1>4 DEF assign
  <2> QED BY <2>3, <2>4, <2>5, <2>6 DEF TypeOK
<1>5. CASE assign_master
  <2>1. \A d \in Boards : WithMaster(WithId(hw[d], Index(d))) \in Board
    BY <1>0, Updated, Indices
  <2>2. \/ UNCHANGED hw
        \/ \E S : hw' = [d \in Boards |-> IF d \in S THEN WithMaster(WithId(hw[d], Index(d))) ELSE hw[d]]
    BY <1>5 DEF assign_master
  <2>3. hw' \in [Boards -> Board]
    BY <1>0, <2>1, <2>2 DEF TypeOK
  <2>4. faults' \in 0..MaxFaults
    BY <1>5, FaultTyped DEF assign_master
  <2>5. phase' \in Phases /\ at' \in Boards /\ good' \in BOOLEAN
    BY <1>5, GotoTyped, PhaseNames DEF assign_master
  <2>6. UNCHANGED <<index, clocked, table, tool>>
    BY <1>5 DEF assign_master
  <2> QED BY <2>3, <2>4, <2>5, <2>6 DEF TypeOK
<1>6. CASE select
  <2>1. PICK S \in SUBSET Boards :
            Reaches(S, Heard) /\ hw' = [d \in Boards |-> IF d \in S THEN WithExt(hw[d]) ELSE hw[d]]
    BY <1>6 DEF select
  <2>2. \A d \in Boards : WithExt(hw[d]) \in Board
    BY <1>0, Updated
  <2>3. hw' \in [Boards -> Board]
    BY <1>0, <2>1, <2>2
  <2>4. faults' \in 0..MaxFaults
    BY <2>1, FaultTyped DEF Reaches
  <2>5. phase' \in Phases /\ at' \in Boards /\ good' \in BOOLEAN
    BY <1>6, GotoTyped, PhaseNames DEF select
  <2>6. UNCHANGED <<index, clocked, table, tool>>
    BY <1>6 DEF select
  <2> QED BY <2>3, <2>4, <2>5, <2>6 DEF TypeOK
<1>7. ASSUME NEW before \in Phases, NEW after \in Phases, _write_mode_ramp_zero(before, after) PROVE TypeOK'
  <2>1. PICK S \in SUBSET Boards :
            Reaches(S, Heard) /\ hw' = [d \in Boards |-> IF d \in S THEN WithIdle(hw[d], 0) ELSE hw[d]]
    BY <1>7 DEF _write_mode_ramp_zero
  <2>2. \A d \in Boards : WithIdle(hw[d], 0) \in Board
    BY <1>0, Updated
  <2>3. hw' \in [Boards -> Board]
    BY <1>0, <2>1, <2>2
  <2>4. faults' \in 0..MaxFaults
    BY <2>1, FaultTyped DEF Reaches
  <2>5. phase' \in Phases /\ at' \in Boards /\ good' \in BOOLEAN
    BY <1>7, GotoTyped, PhaseNames DEF _write_mode_ramp_zero
  <2>6. UNCHANGED <<index, clocked, table, tool>>
    BY <1>7 DEF _write_mode_ramp_zero
  <2> QED BY <2>3, <2>4, <2>5, <2>6 DEF TypeOK
<1>8. CASE swap
  <2>1. PICK S \in SUBSET Boards :
            Reaches(S, Fires) /\ hw' = [d \in Boards |-> IF d \in S THEN Swapped(hw[d]) ELSE hw[d]]
    BY <1>8 DEF swap
  <2>2. \A d \in Boards : Swapped(hw[d]) \in Board
    BY <1>0, Updated
  <2>3. hw' \in [Boards -> Board]
    BY <1>0, <2>1, <2>2
  <2>4. faults' \in 0..MaxFaults
    BY <2>1, FaultTyped DEF Reaches
  <2>5. phase' \in Phases /\ at' \in Boards /\ good' \in BOOLEAN
    BY <1>8, GotoTyped, PhaseNames DEF swap
  <2>6. UNCHANGED <<index, clocked, table, tool>>
    BY <1>8 DEF swap
  <2> QED BY <2>3, <2>4, <2>5, <2>6 DEF TypeOK
<1>9. CASE look
  <2>1. UNCHANGED <<hw, index, clocked, tool>>
    BY <1>9 DEF look
  <2> QED BY <1>9, <2>1, LookTyped DEF TypeOK
<1>10. CASE measure_ext_clk_freq_remote
  <2>1. PICK ok \in BOOLEAN : Onward(ok)
    BY <1>10, Measures
  <2>2. phase' \in Phases /\ at' \in Boards /\ good' \in BOOLEAN
    BY <2>1, OnwardTyped
  <2>3. faults' \in 0..MaxFaults
    BY <1>10, FaultTyped DEF measure_ext_clk_freq_remote
  <2>4. UNCHANGED <<hw, index, clocked, table, tool>>
    BY <1>10 DEF measure_ext_clk_freq_remote
  <2> QED BY <2>2, <2>3, <2>4 DEF TypeOK
<1>11. CASE channel_up
  <2>1. phase' \in Phases /\ at' \in Boards /\ good' \in BOOLEAN
    BY <1>11, GotoTyped, PhaseNames DEF channel_up, TypeOK
  <2> QED BY <1>11, <2>1 DEF channel_up, TypeOK
<1>12. CASE calib_report
  <2>1. faults' \in 0..MaxFaults
    BY <1>12, FaultTyped DEF calib_report
  <2>2. phase' \in Phases /\ at' \in Boards /\ good' \in BOOLEAN
    BY <1>12, GotoTyped, PhaseNames DEF calib_report
  <2> QED BY <1>12, <2>1, <2>2, Powered DEF calib_report, TypeOK
<1>13. ASSUME NEW t \in {"run_init", "checklist"}, StartInit(t) PROVE TypeOK'
  <2>1. phase' \in Phases /\ at' \in Boards /\ good' \in BOOLEAN
    BY <1>13, GotoTyped, PhaseNames DEF StartInit
  <2> QED BY <1>13, <2>1, BringUpAssumption DEF StartInit, TypeOK
<1>14. ASSUME NEW d \in Boards, NEW v \in {0, 1}, set_dac_mode_ramp(d, v) PROVE TypeOK'
  <2>1. WithIdle(hw[d], v) \in Board
    BY <1>0, Updated
  <2>2. hw' \in [Boards -> Board]
    BY <1>14, <2>1 DEF set_dac_mode_ramp, TypeOK
  <2> QED BY <1>14, <2>2, PhaseNames DEF set_dac_mode_ramp, TypeOK
<1>15. ASSUME NEW S \in SUBSET Boards, trigger(S) PROVE TypeOK'
  <2>1. \A d \in Boards : Swapped(hw[d]) \in Board
    BY <1>0, Updated
  <2>2. hw' \in [Boards -> Board]
    BY <1>0, <1>15, <2>1 DEF trigger
  <2>3. phase' \in Phases
    BY <1>15, PhaseNames DEF trigger, TypeOK
  <2> QED BY <1>15, <2>2, <2>3 DEF trigger, TypeOK
<1>16. CASE PowerCycle
  <2>1. phase' \in Phases /\ at' \in Boards /\ good' \in BOOLEAN
    BY <1>16, GotoTyped, PhaseNames DEF PowerCycle
  <2> QED BY <1>16, <2>1, Powered, InBoards DEF PowerCycle, TypeOK, Master
<1>17. CASE ClockChanges
  BY <1>17 DEF ClockChanges, ringVars, TypeOK
<1>18. CASE UNCHANGED vars
  BY <1>18 DEF vars, TypeOK
<1> QED
  BY <1>1, <1>2, <1>3, <1>4, <1>5, <1>6, <1>7, <1>8, <1>9, <1>10, <1>11, <1>12, <1>13, <1>14, <1>15,
     <1>16, <1>17, <1>18, PhaseNames DEF Next, BringingUp, Operate

-----------------------------------------------------------------------------
(* One step, phase by phase.                                               *)

\* What a broadcast of the master gets to, and what a trigger of its fires.
LEMMA HeardIn == Heard \subseteq Boards /\ Fires \subseteq Heard
BY DEF Heard, Fires

\* The boards keep their names: the same boards hear the master.
LEMMA HeardKept == ASSUME \A d \in Boards : hw'[d].id = hw[d].id PROVE Heard' = Heard /\ Fires' = Fires
<1>1. \A e \in Boards : Twin(e)' <=> Twin(e)
  BY InBoards DEF Twin
<1>2. \A d \in Boards : \A e \in 1..d : e \in Boards
  BY BringUpAssumption DEF Boards
<1>3. Heard' = Heard
  BY <1>1, <1>2 DEF Heard
<1> QED BY <1>3 DEF Fires

\* Where the master is 0 and every name is that of the board's place, everybody hears the
\* master and the answer to a query is the board's own.
LEMMA HeardAll ==
    ASSUME TypeOK, Residue, index = 0, hw[Master].id = index
    PROVE /\ Heard = Boards /\ Fires = Boards
          /\ \A i \in Boards : \A e : e \in Answering(i) <=> e = i /\ hw[i].id = i
<1>1. \A d \in Boards : (hw[d].id = d \/ hw[d].id = NoId) /\ d \in Nat
  BY InBoards DEF Residue
<1>2. \A e \in Boards : ~Twin(e)
  BY <1>1, BringUpAssumption DEF Twin, Master
<1>3. \A d \in Boards : \A e \in 1..d : e \in Boards
  BY BringUpAssumption DEF Boards
<1>4. Heard = Boards
  BY <1>2, <1>3 DEF Heard
<1>5. Fires = Boards
  BY <1>4 DEF Fires
<1>6. ASSUME NEW i \in Boards, NEW e PROVE e \in Answering(i) <=> e = i /\ hw[i].id = i
  <2>1. \A d \in Boards : hw[d].id = i => d = i
    BY <1>1, BringUpAssumption
  <2>2. \A d \in 0..(i - 1) : d \in Boards /\ d # i
    BY BringUpAssumption DEF Boards
  <2>3. \A d \in (i + 1)..(N - 1) : d \in Boards
    BY BringUpAssumption DEF Boards
  <2>4. e \in Addressed(i) <=> e = i /\ hw[i].id = i
    BY <2>1, <2>2 DEF Addressed
  <2> QED BY <2>3, <2>4, <1>2 DEF Answering
<1> QED BY <1>4, <1>5, <1>6

LEMMA InitPhasewise == Init => Phasewise
<1> SUFFICES ASSUME Init PROVE Phasewise
  OBVIOUS
<1>1. Residue
  <2>1. CASE hw = [d \in Boards |-> PowerOn]
    BY <2>1 DEF Residue, PowerOn
  <2>2. CASE hw # [d \in Boards |-> PowerOn]
    <3>1. PICK q \in Boards, ext \in BOOLEAN, mode \in {0, 1}, off \in SUBSET (Boards \ {Master}) :
              off \subseteq {q} /\ hw = Behind(q, ext, mode, off) /\ index = Place(q, Master)
      BY <2>2 DEF Init
    <3>2. CASE q = Master
      <4>1. \A d \in Boards : Place(q, d) = d
        BY <3>2, BringUpAssumption DEF Place, Boards, Master
      <4> QED BY <3>1, <4>1 DEF Behind, Residue, PowerOn
    <3>3. CASE q # Master
      <4>1. Place(q, Master) # 0
        BY <3>3, BringUpAssumption DEF Place, Boards, Master
      <4> QED BY <3>1, <4>1 DEF Residue
    <3> QED BY <3>2, <3>3
  <2> QED BY <2>1, <2>2
<1> QED
  BY <1>1 DEF Init, Phasewise, Begun, Unlocked, Naming, Named, Mastering, Past, Last, Mastered, Displaced,
              Selected, Zeroing, Zeroed

\* No packet names a board by another's place, unless the master has another's board_index.
LEMMA ResidueKept ==
    ASSUME Residue, UNCHANGED index,
           index = 0 => \A d \in Boards : hw'[d].id = hw[d].id \/ hw'[d].id \in {d, NoId}
    PROVE Residue'
BY DEF Residue

LEMMA ResidueSame == ASSUME Residue, UNCHANGED <<hw, index>> PROVE Residue'
BY DEF Residue

\* The phases in which nothing is established yet.
Early(p, t) == p \in {"idle", "failed", "si5332", "master_unlock"}
               \/ (t = "checklist" /\ p \in {"channel_up", "ext_clk_freq"})
LEMMA EarlyPhasewise == ASSUME Residue', Early(phase', tool') PROVE Phasewise'
<1>1. ~Begun' /\ ~Past' /\ phase' \notin Mastering /\ phase' \notin Zeroing
  BY DEF Early, Begun, Mastering, Past, Last, Zeroing
<1>2. phase' \notin {"is_master_assign", "board_id_assign", "ext_clk_sel", "swap", "zero_again", "dac_mode_zero", "calib_report", "done", "used"}
  BY DEF Early
<1>3. ~(tool' = "run_init" /\ phase' = "ext_clk_freq")
  BY DEF Early
<1> QED BY <1>1, <1>2, <1>3 DEF Phasewise, Unlocked, Naming, Named, Mastered, Displaced, Selected, Zeroed

\* A fault more in a look costs what the look would have found out.
LEMMA FaultsGrow == ASSUME TypeOK, Fault \/ UNCHANGED faults
                    PROVE /\ faults \in Nat /\ faults' \in Nat /\ (faults' = faults \/ faults' = faults + 1)
                          /\ Fault => faults' = faults + 1
BY BringUpAssumption DEF TypeOK, Fault

\* A broadcast without a fault gets to all that hear the master.
LEMMA ReachesAll == ASSUME TypeOK, NEW R, NEW S \in SUBSET Boards, Reaches(S, R)
                    PROVE /\ faults \in Nat /\ faults' \in Nat /\ (faults' = faults \/ faults' = faults + 1)
                          /\ S \subseteq R
                          /\ \/ S = R /\ faults' = faults
                             \/ faults' = faults + 1 /\ \E m \in Boards : S = R \ {m}
<1>1. CASE S = R /\ UNCHANGED faults
  BY <1>1, FaultsGrow
<1>2. CASE Fault /\ \E d \in Boards : S = R \ {d}
  BY <1>2, FaultsGrow
<1> QED BY <1>1, <1>2 DEF Reaches

LEMMA UnlockStep == ASSUME TypeOK, Phasewise, master_unlock PROVE Phasewise'
<1>1. phase' = "enum" /\ UNCHANGED index
  BY DEF master_unlock, Goto
<1>2. hw' = [hw EXCEPT ![Master] = WithMaster(WithId(hw[Master], index))] /\ hw[Master] \in Board /\ index \in Ids /\ Master = 0
  BY InBoards, BoardIds DEF master_unlock, TypeOK, Master
<1>3. WithId(hw[Master], index) \in Board /\ WithId(hw[Master], index).id = index
  BY <1>2, Updated
<1>4. WithMaster(WithId(hw[Master], index)).id = index /\ WithMaster(WithId(hw[Master], index)).master = TRUE
  BY <1>3, Updated
<1>5. /\ hw'[Master].id = index /\ hw'[Master].master = TRUE
      /\ \A d \in Boards : d # Master => hw'[d] = hw[d]
  BY <1>2, <1>4, InBoards DEF TypeOK
<1>6. Residue'
  BY <1>1, <1>2, <1>5, ResidueKept DEF Phasewise
<1>7. Unlocked'
  BY <1>1, <1>5 DEF Unlocked
<1> QED
  BY <1>1, <1>6, <1>7 DEF Phasewise, Naming, Named, Mastering, Past, Last, Mastered, Displaced, Selected, Zeroing, Zeroed

LEMMA EnumStep == ASSUME TypeOK, Phasewise, enum PROVE Phasewise'
<1>1. phase = "enum" /\ phase' \in {"failed", "assign"} /\ UNCHANGED <<hw, index>>
  BY DEF enum, Goto
<1>2. Residue'
  BY <1>1, ResidueSame DEF Phasewise
<1>3. Unlocked'
  BY <1>1 DEF Phasewise, Unlocked, Begun
<1> QED
  BY <1>1, <1>2, <1>3 DEF Phasewise, Naming, Named, Mastering, Past, Last, Mastered, Displaced, Selected, Zeroing, Zeroed

LEMMA AssignStep == ASSUME TypeOK, Phasewise, assign PROVE Phasewise'
<1>1. phase = "assign" /\ phase' = "board_id_assign" /\ at' = 0 /\ UNCHANGED <<index, tool>>
  BY DEF assign, Goto
<1>2. PICK S \in SUBSET Boards :
          Reaches(S, Heard) /\ hw' = [d \in Boards |-> IF d \in S THEN WithId(hw[d], Index(d)) ELSE hw[d]]
  BY DEF assign
<1>3. \A d \in Boards : hw[d] \in Board
  BY DEF TypeOK
<1>4. \A d \in Boards : /\ d \in S => hw'[d].id = Index(d)
                        /\ d \notin S => hw'[d].id = hw[d].id
                        /\ hw'[d].master = hw[d].master
  <2> SUFFICES ASSUME NEW d \in Boards
               PROVE /\ d \in S => hw'[d].id = Index(d)
                     /\ d \notin S => hw'[d].id = hw[d].id
                     /\ hw'[d].master = hw[d].master
    OBVIOUS
  <2>1. WithId(hw[d], Index(d)).id = Index(d) /\ WithId(hw[d], Index(d)).master = hw[d].master
    BY <1>3, Updated, Indices
  <2> QED BY <1>2, <2>1
<1>5. index = 0 => \A d \in Boards : Index(d) = d
  BY DEF Index, Master
<1>6. Residue'
  BY <1>1, <1>4, <1>5, ResidueKept DEF Phasewise
<1>7. hw[Master].id = index /\ hw[Master].master = TRUE
  BY <1>1 DEF Phasewise, Unlocked, Begun
<1>8. Unlocked'
  BY <1>1, <1>4, <1>7, InBoards DEF Unlocked, Index
<1>9. Naming'
  <2>1. ASSUME faults' <= 1, index = 0 PROVE IdsRight' \/ (faults' = 1 /\ \E m \in Boards : Missing(m)')
    <3>0. Heard = Boards
      BY <2>1, <1>7, HeardAll DEF Phasewise
    <3>1. CASE S = Boards
      BY <3>1, <2>1, <1>4, <1>5 DEF IdsRight
    <3>2. CASE S # Boards
      <4>1. faults' = 1
        BY <3>0, <3>2, <2>1, <1>2, ReachesAll
      <4>2. PICK m \in Boards : S = Boards \ {m}
        BY <3>0, <3>2, <1>2, ReachesAll
      <4>3. hw[Master].id = Master
        BY <2>1, <1>7 DEF Master
      <4>4. CASE hw[m].id = m
        BY <2>1, <4>2, <4>4, <1>4, <1>5 DEF IdsRight
      <4>5. CASE hw[m].id # m
        BY <2>1, <1>1, <1>4, <1>5, <4>1, <4>2, <4>3, <4>5, InBoards DEF Missing
      <4> QED BY <4>4, <4>5
    <3> QED BY <3>1, <3>2
  <2>2. NamedSoFar'
    BY <1>1, InBoards DEF NamedSoFar
  <2> QED BY <1>1, <2>1, <2>2 DEF Naming
<1> QED
  BY <1>1, <1>6, <1>8, <1>9 DEF Phasewise, Named, Mastering, Past, Last, Mastered, Displaced, Selected, Zeroing, Zeroed

LEMMA AssignMasterStep == ASSUME TypeOK, Phasewise, assign_master PROVE Phasewise'
<1>1. phase = "assign_master" /\ phase' = "is_master_assign" /\ at' = 0 /\ UNCHANGED <<index, tool>>
  BY DEF assign_master, Goto
<1>2. \A d \in Boards : hw[d] \in Board
  BY DEF TypeOK
<1>3. \A d \in Boards : hw'[d] = hw[d] \/ (hw'[d].id = Index(d) /\ hw'[d].master = TRUE)
  <2>1. ASSUME NEW d \in Boards
        PROVE WithMaster(WithId(hw[d], Index(d))).id = Index(d) /\ WithMaster(WithId(hw[d], Index(d))).master = TRUE
    <3>1. WithId(hw[d], Index(d)) \in Board /\ WithId(hw[d], Index(d)).id = Index(d)
      BY <1>2, Updated, Indices
    <3> QED BY <3>1, Updated
  <2>2. \/ UNCHANGED hw
        \/ \E S : hw' = [d \in Boards |-> IF d \in S THEN WithMaster(WithId(hw[d], Index(d))) ELSE hw[d]]
    BY DEF assign_master
  <2> QED BY <2>1, <2>2
<1>4. faults' <= 1 => faults <= 1
  BY FaultsGrow DEF assign_master
<1>5. \A d \in Boards : Index(d) # NoId /\ (index = 0 => Index(d) = d)
  BY InBoards, BringUpAssumption DEF Index, TypeOK, Master
<1>6. Residue'
  <2>1. index = 0 => \A d \in Boards : hw'[d].id = hw[d].id \/ hw'[d].id \in {d, NoId}
    BY <1>3, <1>5
  <2> QED BY <2>1, <1>1, ResidueKept DEF Phasewise
<1>7. Unlocked'
  <2>1. hw[Master].id = index /\ hw[Master].master = TRUE
    BY <1>1 DEF Phasewise, Unlocked, Begun, Mastering
  <2> QED BY <2>1, <1>1, <1>3, InBoards DEF Unlocked, Index
<1>8. Named'
  <2>1. ASSUME tool = "run_init", faults' <= 1, index = 0 PROVE IdsRight'
    <3>1. IdsRight
      BY <2>1, <1>1, <1>4 DEF Phasewise, Named, Mastering
    <3> QED BY <3>1, <2>1, <1>3, <1>5 DEF IdsRight
  <2>2. ASSUME tool = "checklist" PROVE \A d \in Boards : hw'[d].id # NoId
    <3>1. \A d \in Boards : hw[d].id # NoId
      BY <2>2, <1>1 DEF Phasewise, Named, Mastering
    <3> QED BY <3>1, <1>3, <1>5
  <2> QED BY <2>1, <2>2, <1>1 DEF Named
<1>9. Mastered'
  BY <1>1, InBoards DEF Mastered, OneMasterTo, Past, Last
<1>10. Displaced'
  BY <1>1, InBoards DEF Displaced, Past, Last, TypeOK
<1> QED
  BY <1>1, <1>6, <1>7, <1>8, <1>9, <1>10 DEF Phasewise, Naming, Selected, Zeroing, Zeroed

\* The steps after the names that change no name and no master.
LEMMA Settled ==
    ASSUME Phasewise, Past, Past', phase' \notin Mastering, UNCHANGED <<index, tool>>,
           faults \in Nat, faults' \in Nat, faults' = faults \/ faults' = faults + 1,
           \A d \in Boards : hw'[d].id = hw[d].id /\ hw'[d].master = hw[d].master
    PROVE Residue' /\ Unlocked' /\ Named' /\ Mastered' /\ Displaced'
<1>1. (faults' <= 1 => faults <= 1) /\ (faults' = 0 => faults = 0)
  OBVIOUS
<1>2. Residue'
  BY ResidueKept DEF Phasewise
<1>3. Unlocked'
  BY InBoards DEF Phasewise, Unlocked, Begun
<1>4. Named'
  BY <1>1 DEF Phasewise, Named, IdsRight
<1>5. phase' # "is_master_assign"
  BY DEF Mastering
<1>6. Mastered'
  BY <1>1, <1>5 DEF Phasewise, Mastered, OneMasterTo, Seen
<1>7. Displaced'
  BY <1>1, <1>5 DEF Phasewise, Displaced
<1> QED BY <1>2, <1>3, <1>4, <1>6, <1>7

LEMMA SelectStep == ASSUME TypeOK, Phasewise, select PROVE Phasewise'
<1>1. phase = "select" /\ phase' = "ext_clk_sel" /\ at' = 0 /\ UNCHANGED <<index, tool>>
  BY DEF select, Goto
<1>2. PICK S \in SUBSET Boards :
          Reaches(S, Heard) /\ hw' = [d \in Boards |-> IF d \in S THEN WithExt(hw[d]) ELSE hw[d]]
  BY DEF select
<1>3. \A d \in Boards : hw[d] \in Board
  BY DEF TypeOK
<1>4. \A d \in Boards : /\ hw'[d].id = hw[d].id /\ hw'[d].master = hw[d].master
                        /\ d \in S => hw'[d].ext = TRUE
  BY <1>2, <1>3, Updated
<1>5. /\ faults \in Nat /\ faults' \in Nat /\ (faults' = faults \/ faults' = faults + 1)
      /\ index = 0 => (S = Boards \/ faults' = faults + 1)
  <2>1. index = 0 => Heard = Boards
    BY <1>1, HeardAll DEF Phasewise, Unlocked, Begun, Past, Last
  <2> QED BY <2>1, <1>2, ReachesAll
<1>6. Residue' /\ Unlocked' /\ Named' /\ Mastered' /\ Displaced'
  <2>1. Past /\ Past' /\ phase' \notin Mastering
    BY <1>1 DEF Past, Last, Mastering
  <2> QED BY <2>1, <1>1, <1>4, <1>5, Settled
<1>7. Selected'
  BY <1>1, <1>4, <1>5, InBoards DEF Selected, AllExt, Zeroing
<1> QED
  BY <1>1, <1>6, <1>7 DEF Phasewise, Naming, Zeroed

\* What the three steps that write the modes leave as it is.
LEMMA ModeStep ==
    ASSUME TypeOK, Phasewise, phase \in {"zero", "swap", "zero_again"}, UNCHANGED <<index, tool>>,
           phase' \in {"swap", "zero_again", "dac_mode_zero"},
           faults \in Nat, faults' \in Nat, faults' = faults \/ faults' = faults + 1,
           \A d \in Boards : hw'[d].id = hw[d].id /\ hw'[d].master = hw[d].master /\ hw'[d].ext = hw[d].ext
    PROVE Residue' /\ Unlocked' /\ Naming' /\ Named' /\ Mastered' /\ Displaced' /\ Selected'
<1>1. Past /\ Past' /\ phase' \notin Mastering
  BY DEF Past, Last, Mastering
<1>2. Residue' /\ Unlocked' /\ Named' /\ Mastered' /\ Displaced'
  BY <1>1, Settled
<1>3. Selected'
  BY DEF Phasewise, Selected, AllExt, Zeroing
<1> QED BY <1>2, <1>3 DEF Naming

LEMMA ZeroStep == ASSUME TypeOK, Phasewise, _write_mode_ramp_zero("zero", "swap") PROVE Phasewise'
<1>1. phase = "zero" /\ phase' = "swap" /\ UNCHANGED <<index, tool>>
  BY DEF _write_mode_ramp_zero, Goto
<1>2. PICK S \in SUBSET Boards :
          Reaches(S, Heard) /\ hw' = [d \in Boards |-> IF d \in S THEN WithIdle(hw[d], 0) ELSE hw[d]]
  BY DEF _write_mode_ramp_zero
<1>3. \A d \in Boards : hw[d] \in Board
  BY DEF TypeOK
<1>4. \A d \in Boards : /\ hw'[d].id = hw[d].id /\ hw'[d].master = hw[d].master /\ hw'[d].ext = hw[d].ext
                        /\ d \in S => hw'[d].idle = 0
  BY <1>2, <1>3, Updated
<1>5. Residue' /\ Unlocked' /\ Naming' /\ Named' /\ Mastered' /\ Displaced' /\ Selected'
  BY <1>1, <1>2, <1>4, ReachesAll, ModeStep
<1>6. Heard' = Heard /\ Heard \subseteq Boards
  BY <1>4, HeardKept, HeardIn
<1>7. faults' = 0 => HeardIdle'
  BY <1>2, <1>4, <1>6, ReachesAll DEF HeardIdle
<1>8. Zeroed'
  BY <1>1, <1>7 DEF Zeroed
<1> QED BY <1>5, <1>8 DEF Phasewise

LEMMA SwapStep == ASSUME TypeOK, Phasewise, swap PROVE Phasewise'
<1>1. phase = "swap" /\ phase' = "zero_again" /\ UNCHANGED <<index, tool>>
  BY DEF swap, Goto
<1>2. PICK S \in SUBSET Boards :
          Reaches(S, Fires) /\ hw' = [d \in Boards |-> IF d \in S THEN Swapped(hw[d]) ELSE hw[d]]
  BY DEF swap
<1>3. \A d \in Boards : hw[d] \in Board
  BY DEF TypeOK
<1>4. \A d \in Boards : /\ hw'[d].id = hw[d].id /\ hw'[d].master = hw[d].master /\ hw'[d].ext = hw[d].ext
                        /\ d \in S => hw'[d].active = hw[d].idle
  BY <1>2, <1>3, Updated
<1>5. Residue' /\ Unlocked' /\ Naming' /\ Named' /\ Mastered' /\ Displaced' /\ Selected'
  BY <1>1, <1>2, <1>4, ReachesAll, ModeStep
<1>6. Fires' = Fires /\ Fires \subseteq Heard /\ Heard \subseteq Boards
  BY <1>4, HeardKept, HeardIn
<1>7. faults' = 0 => FiresPlay'
  <2>1. faults' = 0 => HeardIdle /\ S = Fires
    BY <1>1, <1>2, ReachesAll DEF Phasewise, Zeroed
  <2> QED BY <2>1, <1>4, <1>6 DEF HeardIdle, FiresPlay
<1>8. Zeroed'
  BY <1>1, <1>7 DEF Zeroed
<1> QED BY <1>5, <1>8 DEF Phasewise

LEMMA ZeroAgainStep == ASSUME TypeOK, Phasewise, _write_mode_ramp_zero("zero_again", "dac_mode_zero") PROVE Phasewise'
<1>1. phase = "zero_again" /\ phase' = "dac_mode_zero" /\ at' = 0 /\ UNCHANGED <<index, tool>>
  BY DEF _write_mode_ramp_zero, Goto
<1>2. PICK S \in SUBSET Boards :
          Reaches(S, Heard) /\ hw' = [d \in Boards |-> IF d \in S THEN WithIdle(hw[d], 0) ELSE hw[d]]
  BY DEF _write_mode_ramp_zero
<1>3. \A d \in Boards : hw[d] \in Board
  BY DEF TypeOK
<1>4. \A d \in Boards : /\ hw'[d].id = hw[d].id /\ hw'[d].master = hw[d].master /\ hw'[d].ext = hw[d].ext
                        /\ hw'[d].active = hw[d].active /\ (d \in S => hw'[d].idle = 0)
  BY <1>2, <1>3, Updated
<1>5. Residue' /\ Unlocked' /\ Naming' /\ Named' /\ Mastered' /\ Displaced' /\ Selected'
  BY <1>1, <1>2, <1>4, ReachesAll, ModeStep
<1>6. Fires' = Fires /\ Heard' = Heard /\ Fires \subseteq Heard /\ Heard \subseteq Boards
  BY <1>4, HeardKept, HeardIn
<1>7. faults' = 0 => FiresPlay' /\ HeardIdle'
  <2>1. faults' = 0 => FiresPlay /\ S = Heard
    BY <1>1, <1>2, ReachesAll DEF Phasewise, Zeroed
  <2> QED BY <2>1, <1>4, <1>6 DEF HeardIdle, FiresPlay
<1>8. Zeroed'
  <2>1. \A d \in Boards : ~(d < at')
    BY <1>1, InBoards
  <2> QED BY <2>1, <1>1, <1>7 DEF Zeroed
<1> QED BY <1>5, <1>8 DEF Phasewise

-----------------------------------------------------------------------------
(* The looks.                                                              *)

\* A look at one board: what it sees, and whether it goes on to the next board or to the
\* next phase.
Going(ok) == at + 1 < N /\ at' = at + 1 /\ phase' = phase /\ (good' = TRUE => good = TRUE /\ ok)
                        /\ (good = FALSE \/ ~ok => good' = FALSE)
Leaving(ok) == at + 1 = N /\ at' = 0 /\ \/ phase' = "failed"
                                        \/ phase' = After(phase) /\ good = TRUE /\ ok

LEMMA Looked ==
    ASSUME TypeOK, look
    PROVE /\ UNCHANGED <<hw, index, tool>> /\ phase \in Looks
          /\ \E bi \in Answers :
                /\ IF tool = "run_init" THEN _query_board_info(at, bi) ELSE RtBoardInfo(at, bi)
                /\ Going(Passes(phase, at, bi)) \/ Leaving(Passes(phase, at, bi))
<1>1. PICK bi \in {decode_qt_board_info(hw[e]) : e \in Boards} \cup {table} :
          /\ IF tool = "run_init" THEN _query_board_info(at, bi) ELSE RtBoardInfo(at, bi)
          /\ Onward(Passes(phase, at, bi))
  BY DEF look
<1>2. bi \in Answers
  BY Answered DEF TypeOK
<1>3. Going(Passes(phase, at, bi)) \/ Leaving(Passes(phase, at, bi))
  <2> DEFINE ok == Passes(phase, at, bi)
  <2>0. ok \in BOOLEAN
    BY DEF Passes
  <2>1. CASE at + 1 < N
    <3>1. at' = at + 1 /\ phase' = phase /\ good' = (good /\ ok)
      BY <1>1, <2>1 DEF Onward
    <3>2. good \in BOOLEAN
      BY DEF TypeOK
    <3> HIDE DEF ok
    <3>3. (good' = TRUE => good = TRUE /\ ok) /\ (good = FALSE \/ ~ok => good' = FALSE)
      BY <2>0, <3>1, <3>2
    <3>4. Going(ok)
      BY <2>1, <3>1, <3>3 DEF Going
    <3> QED BY <3>4 DEF ok
  <2>2. CASE ~(at + 1 < N)
    <3>1. Goto(IF good /\ ok THEN After(phase) ELSE "failed")
      BY <1>1, <2>2 DEF Onward
    <3>2. at + 1 = N
      BY <2>2, BringUpAssumption DEF TypeOK, Boards
    <3>3. good \in BOOLEAN
      BY DEF TypeOK
    <3> HIDE DEF ok
    <3>4. phase' = "failed" \/ (phase' = After(phase) /\ good = TRUE /\ ok)
      BY <2>0, <3>1, <3>3 DEF Goto
    <3>5. Leaving(ok)
      BY <3>1, <3>2, <3>4 DEF Leaving, Goto
    <3> QED BY <3>5 DEF ok
  <2> QED BY <2>1, <2>2
<1>4. UNCHANGED <<hw, index, tool>> /\ phase \in Looks
  BY DEF look
<1> QED BY <1>2, <1>1, <1>3, <1>4

\* Nothing is wrong with an answer when the boards have their names and no fault is met.
Straight == index = 0 /\ hw[Master].id = index /\ Residue
LEMMA Sees ==
    ASSUME TypeOK, NEW bi \in Answers,
           IF tool = "run_init" THEN _query_board_info(at, bi) ELSE RtBoardInfo(at, bi)
    PROVE /\ Fault \/ UNCHANGED faults
          /\ tool = "checklist" => bi = decode_qt_board_info(hw[at]) /\ UNCHANGED faults
          /\ Straight /\ IdsRight /\ faults' = faults => bi = decode_qt_board_info(hw[at])
          /\ Straight /\ tool = "run_init" /\ faults' = faults =>
                \/ hw[at].id = at /\ bi = decode_qt_board_info(hw[at]) /\ table' = bi
                \/ hw[at].id # at /\ bi = table /\ UNCHANGED table
          /\ tool = "run_init" /\ faults' = faults /\ hw[Master].id = at => bi = decode_qt_board_info(hw[Master])
<1>1. Fault => faults' # faults
  BY FaultsGrow
<1>2. at \in Boards /\ (tool = "checklist" <=> tool # "run_init")
  BY DEF TypeOK
<1>3. CASE tool = "checklist"
  BY <1>2, <1>3 DEF RtBoardInfo
<1>4. CASE tool = "run_init"
  <2>1. Straight => \A e : e \in Answering(at) <=> e = at /\ hw[at].id = at
    BY <1>2, HeardAll DEF Straight
  <2>2. ASSUME hw[Master].id = at PROVE Answering(at) = {Master}
    <3>1. Addressed(at) = {Master}
      <4>1. ASSUME NEW d \in Boards, \A e \in 0..(d - 1) : hw[e].id # at PROVE d = Master
        <5>1. d \in Nat /\ Master = 0
          BY InBoards DEF Master
        <5>2. d > 0 => 0 \in 0..(d - 1)
          BY <5>1
        <5> QED BY <5>1, <5>2, <2>2, <4>1
      <4>2. \A e \in 0..(Master - 1) : FALSE
        BY DEF Master
      <4> QED BY <4>1, <4>2, <2>2, InBoards DEF Addressed
    <3> QED BY <3>1 DEF Answering
  <2> QED BY <1>1, <1>2, <1>4, <2>1, <2>2 DEF _query_board_info, IdsRight
<1> QED BY <1>2, <1>3, <1>4

LEMMA Shows == \A b : /\ decode_qt_board_info(b).id = b.id /\ decode_qt_board_info(b).master = b.master
                      /\ decode_qt_board_info(b).ext = b.ext /\ decode_qt_board_info(b).active = b.active
BY DEF decode_qt_board_info

LEMMA NamesStep == ASSUME TypeOK, Phasewise, look, phase = "board_id_assign" PROVE Phasewise'
<1>1. PICK bi \in Answers :
          /\ IF tool = "run_init" THEN _query_board_info(at, bi) ELSE RtBoardInfo(at, bi)
          /\ Going(Passes(phase, at, bi)) \/ Leaving(Passes(phase, at, bi))
  BY Looked
<1>2. UNCHANGED <<hw, index, tool>>
  BY Looked
<1>3. Passes(phase, at, bi) => IF tool = "run_init" THEN bi.id = at ELSE bi.id # NoId
  BY DEF Passes
<1>4. Residue' /\ Residue
  BY <1>2, ResidueSame DEF Phasewise
<1>5. /\ faults \in Nat /\ faults' \in Nat /\ (faults' = faults \/ faults' = faults + 1)
      /\ at \in Boards /\ at \in Nat /\ NoId \notin Nat /\ N \in Nat
  BY <1>1, Sees, FaultsGrow, InBoards, BringUpAssumption DEF TypeOK
<1>8. hw[Master].id = index /\ hw[Master].master = TRUE
  BY DEF Phasewise, Unlocked, Begun
<1>9. Unlocked'
  BY <1>2, <1>8 DEF Unlocked
<1>10. index = 0 => Straight
  BY <1>4, <1>8 DEF Straight
<1>6. CASE Going(Passes(phase, at, bi))
  <2>1. ASSUME tool = "run_init", faults' <= 1, index = 0 PROVE IdsRight' \/ (faults' = 1 /\ \E m \in Boards : Missing(m)')
    <3>1. CASE IdsRight
      BY <3>1, <1>2 DEF IdsRight
    <3>2. CASE ~IdsRight
      <4>1. faults = 1 /\ \E m \in Boards : Missing(m)
        BY <1>5, <2>1, <3>2 DEF Phasewise, Naming
      <4>2. PICK m \in Boards : Missing(m)
        BY <4>1
      <4>3. faults' = faults
        BY <1>5, <2>1, <4>1
      <4>4. \/ hw[at].id = at /\ bi = decode_qt_board_info(hw[at]) /\ table' = bi
            \/ hw[at].id # at /\ bi = table /\ UNCHANGED table
        BY <1>1, <1>10, <2>1, <4>3, Sees
      <4>5. m \in Nat /\ Master = 0
        BY InBoards DEF Master
      <4>6. ASSUME m < at' PROVE good' = FALSE
        <5>1. CASE m < at
          BY <5>1, <4>2, <1>6 DEF Missing, Going
        <5>2. CASE m = at
          <6>1. hw[at].id # at
            BY <5>2, <4>2 DEF Missing
          <6>2. bi.id = at - 1
            BY <6>1, <4>4, <4>2, <5>2, <1>5, <4>5 DEF Missing
          <6>3. bi.id # at
            BY <6>2, <1>5
          <6> QED BY <6>3, <1>3, <1>6, <2>1 DEF Going
        <5>3. m < at \/ m = at
          <6>1. at' = at + 1
            BY <1>6 DEF Going
          <6> QED BY <6>1, <4>6, <1>5, <4>5
        <5> QED BY <5>1, <5>2, <5>3
      <4>7. ASSUME at' <= m PROVE table'.id = at' - 1
        <5>1. at' = at + 1
          BY <1>6 DEF Going
        <5>2. hw[at].id = at
          BY <4>7, <5>1, <4>2, <1>5, <4>5 DEF Missing
        <5>3. table'.id = at
          BY <5>2, <4>4, <1>5, Shows
        <5> QED BY <5>1, <5>3, <1>5
      <4>8. Missing(m)'
        BY <4>2, <4>6, <4>7, <1>2 DEF Missing
      <4> QED BY <4>1, <4>3, <4>8
    <3> QED BY <3>1, <3>2
  <2>2. ASSUME tool = "checklist", good' = TRUE PROVE NamedSoFar'
    <3>1. good = TRUE /\ hw[at].id # NoId
      BY <2>2, <1>6, <1>1, <1>3, Sees, Shows DEF Going
    <3>2. NamedSoFar
      BY <2>2, <3>1 DEF Phasewise, Naming
    <3>3. at' = at + 1
      BY <1>6 DEF Going
    <3> QED BY <3>1, <3>2, <3>3, <1>2, <1>5, InBoards DEF NamedSoFar
  <2>3. Naming'
    BY <2>1, <2>2, <1>2 DEF Naming
  <2>4. phase' = "board_id_assign"
    BY <1>6 DEF Going
  <2> QED
    BY <1>4, <1>9, <2>3, <2>4 DEF Phasewise, Named, Mastering, Past, Last, Mastered, Displaced, Selected, Zeroing, Zeroed
<1>7. CASE Leaving(Passes(phase, at, bi))
  <2>1. CASE phase' = "failed"
    BY <2>1, <1>4, EarlyPhasewise DEF Early
  <2>2. CASE phase' # "failed"
    <3>1. phase' = "assign_master" /\ good = TRUE /\ Passes(phase, at, bi) /\ at + 1 = N
      BY <2>2, <1>7 DEF Leaving, After
    <3>2. ASSUME tool = "run_init", faults' <= 1, index = 0 PROVE IdsRight
      <4>1. SUFFICES ASSUME ~IdsRight PROVE FALSE
        OBVIOUS
      <4>2. faults = 1 /\ \E m \in Boards : Missing(m)
        BY <1>5, <3>2, <4>1 DEF Phasewise, Naming
      <4>3. PICK m \in Boards : Missing(m)
        BY <4>2
      <4>4. faults' = faults
        BY <1>5, <3>2, <4>2
      <4>5. m \in Nat /\ Master = 0 /\ m < N
        BY InBoards DEF Master
      <4>6. m = at
        BY <4>3, <4>5, <3>1, <1>5 DEF Missing
      <4>7. hw[at].id # at
        BY <4>6, <4>3 DEF Missing
      <4>8. bi = table
        BY <1>1, <1>10, <3>2, <4>4, <4>7, Sees
      <4>9. bi.id = at - 1
        BY <4>8, <4>3, <4>5, <4>6, <1>5 DEF Missing
      <4> QED BY <4>9, <1>3, <1>5, <3>1, <3>2
    <3>3. ASSUME tool = "checklist" PROVE \A d \in Boards : hw[d].id # NoId
      <4>1. hw[at].id # NoId /\ NamedSoFar
        BY <3>3, <3>1, <1>1, <1>3, Sees, Shows DEF Phasewise, Naming
      <4> QED BY <4>1, <3>1, <1>5, InBoards DEF NamedSoFar
    <3>4. Named'
      BY <3>1, <3>2, <3>3, <1>2 DEF Named, Past, Last, IdsRight
    <3> QED
      BY <1>4, <1>9, <3>1, <3>4 DEF Phasewise, Naming, Mastered, Displaced, Past, Last, Selected, Zeroing, Zeroed
  <2> QED BY <2>1, <2>2
<1> QED BY <1>1, <1>6, <1>7

LEMMA MastersStep == ASSUME TypeOK, Phasewise, look, phase = "is_master_assign" PROVE Phasewise'
<1>1. PICK bi \in Answers :
          /\ IF tool = "run_init" THEN _query_board_info(at, bi) ELSE RtBoardInfo(at, bi)
          /\ Going(Passes(phase, at, bi)) \/ Leaving(Passes(phase, at, bi))
  BY Looked
<1>2. UNCHANGED <<hw, index, tool>>
  BY Looked
<1>3. Passes(phase, at, bi) => bi.master = (at = Master)
  BY DEF Passes
<1>4. Residue' /\ Residue
  BY <1>2, ResidueSame DEF Phasewise
<1>5. /\ faults \in Nat /\ faults' \in Nat /\ (faults' = faults \/ faults' = faults + 1)
      /\ at \in Boards /\ at \in Nat /\ N \in Nat
  BY <1>1, Sees, FaultsGrow, InBoards, BringUpAssumption DEF TypeOK
<1>11. hw[Master].id = index /\ hw[Master].master = TRUE
  BY DEF Phasewise, Unlocked, Begun, Mastering
<1>12. Unlocked'
  BY <1>2, <1>11 DEF Unlocked
<1>13. index = 0 => Straight
  BY <1>4, <1>11 DEF Straight
<1>14. ASSUME tool = "run_init", faults' = 0, index # 0, good = TRUE, Passes(phase, at, bi) PROVE at + 1 <= index
  <2>1. at <= index /\ faults' = faults
    BY <1>5, <1>14 DEF Phasewise, Displaced
  <2>2. ASSUME at = index PROVE FALSE
    <3>1. bi = decode_qt_board_info(hw[Master])
      BY <1>1, <1>11, <1>14, <2>1, <2>2, Sees
    <3>2. bi.master = TRUE
      BY <3>1, <1>11, Shows
    <3>3. at # Master
      BY <1>14, <2>2 DEF Master
    <3> QED BY <3>2, <3>3, <1>3, <1>14
  <2>3. index \in Nat
    BY InBoards DEF TypeOK
  <2> QED BY <2>1, <2>2, <2>3, <1>5
<1>6. ASSUME Seen', Passes(phase, at, bi) PROVE hw[at].master = (at = Master)
  <2>1. bi = decode_qt_board_info(hw[at])
    <3>1. CASE tool = "checklist"
      BY <3>1, <1>1, Sees
    <3>2. CASE tool # "checklist"
      <4>1. faults' = 0 /\ faults = 0 /\ index = 0 /\ tool = "run_init"
        BY <3>2, <1>2, <1>5, <1>6 DEF Seen, TypeOK
      <4>2. IdsRight
        BY <4>1 DEF Phasewise, Named, Mastering
      <4> QED BY <4>1, <4>2, <1>1, <1>13, Sees
    <3> QED BY <3>1, <3>2
  <2> QED BY <2>1, <1>3, <1>6, Shows
<1>7. ASSUME Seen', Passes(phase, at, bi), good = TRUE PROVE OneMasterTo(at + 1)
  <2>1. OneMasterTo(at)
    BY <1>2, <1>5, <1>7 DEF Seen, Phasewise, Mastered
  <2> QED BY <2>1, <1>5, <1>6, <1>7, InBoards DEF OneMasterTo
<1>8. ASSUME faults' <= 1, index = 0 PROVE tool = "run_init" => IdsRight
  BY <1>5, <1>8 DEF Phasewise, Named, Mastering
<1>9. CASE Going(Passes(phase, at, bi))
  <2>1. phase' = "is_master_assign" /\ at' = at + 1 /\ (good' = TRUE => good = TRUE /\ Passes(phase, at, bi))
    BY <1>9 DEF Going
  <2>2. Named'
    BY <2>1, <1>2, <1>8 DEF Phasewise, Named, Mastering, Past, Last, IdsRight
  <2>3. Mastered'
    BY <2>1, <1>2, <1>7 DEF Mastered, OneMasterTo, Past, Last
  <2>4. Displaced'
    BY <2>1, <1>2, <1>14 DEF Displaced, Past, Last
  <2> QED BY <1>4, <1>12, <2>1, <2>2, <2>3, <2>4 DEF Phasewise, Naming, Selected, Zeroing, Zeroed
<1>10. CASE Leaving(Passes(phase, at, bi))
  <2>1. CASE phase' = "failed"
    BY <2>1, <1>4, EarlyPhasewise DEF Early
  <2>2. CASE phase' # "failed"
    <3>1. /\ phase' = (IF tool = "run_init" THEN "channel_up" ELSE "select")
          /\ good = TRUE /\ Passes(phase, at, bi) /\ at + 1 = N
      BY <2>2, <1>10 DEF Leaving, After
    <3>2. Seen' => OneMasterTo(N)
      BY <3>1, <1>7
    <3>3. Mastered'
      BY <3>1, <3>2, <1>2 DEF Mastered, OneMasterTo
    <3>4. tool = "checklist" => \A d \in Boards : hw[d].id # NoId
      BY DEF Phasewise, Named, Mastering
    <3>6. Displaced'
      <4>1. index < N
        BY BringUpAssumption DEF TypeOK, Boards
      <4>2. ~(tool = "run_init" /\ faults' = 0 /\ index # 0)
        BY <3>1, <4>1, <1>5, <1>14, InBoards DEF TypeOK
      <4> QED BY <4>2, <1>2 DEF Displaced
    <3>5. Named'
      BY <3>1, <3>4, <1>8, <1>2 DEF Named, Mastering, IdsRight
    <3> QED BY <1>4, <1>12, <3>1, <3>3, <3>5, <3>6 DEF Phasewise, Naming, Selected, Zeroing, Zeroed
  <2> QED BY <2>1, <2>2
<1> QED BY <1>1, <1>9, <1>10

\* The looks once the boards have their names.
LEMMA LastLook ==
    ASSUME TypeOK, Phasewise, look, phase \in {"ext_clk_sel", "dac_mode_zero"},
           phase' \in Last \/ (tool = "run_init" /\ phase' \in {"channel_up", "ext_clk_freq"}),
           phase' \notin Mastering
    PROVE Residue' /\ Unlocked' /\ Named' /\ Mastered' /\ Displaced'
<1>1. /\ UNCHANGED <<hw, index, tool>> /\ faults \in Nat /\ faults' \in Nat
      /\ (faults' = faults \/ faults' = faults + 1)
  <2>1. PICK bi \in Answers : IF tool = "run_init" THEN _query_board_info(at, bi) ELSE RtBoardInfo(at, bi)
    BY Looked
  <2>2. Fault \/ UNCHANGED faults
    BY <2>1, Sees
  <2>3. UNCHANGED <<hw, index, tool>>
    BY Looked
  <2> QED BY <2>2, <2>3, FaultsGrow
<1>2. Past /\ Past'
  BY <1>1 DEF Past, Last
<1> QED BY <1>1, <1>2, Settled

LEMMA SelectedLook == ASSUME TypeOK, Phasewise, look, phase = "ext_clk_sel" PROVE Phasewise'
<1>1. PICK bi \in Answers :
          /\ IF tool = "run_init" THEN _query_board_info(at, bi) ELSE RtBoardInfo(at, bi)
          /\ Going(Passes(phase, at, bi)) \/ Leaving(Passes(phase, at, bi))
  BY Looked
<1>2. UNCHANGED <<hw, index, tool>>
  BY Looked
<1>3. Passes(phase, at, bi) => bi.ext = TRUE
  <2>1. bi.ext \in BOOLEAN
    BY <1>1 DEF Answers
  <2>2. Passes(phase, at, bi) => bi.ext
    BY DEF Passes
  <2> QED BY <2>1, <2>2
<1>4. /\ faults \in Nat /\ faults' \in Nat /\ (faults' = faults \/ faults' = faults + 1)
      /\ at \in Boards /\ at \in Nat /\ N \in Nat
  BY <1>1, Sees, FaultsGrow, InBoards, BringUpAssumption DEF TypeOK
<1>5. ASSUME Passes(phase, at, bi), tool = "checklist" \/ (index = 0 /\ faults = 1 /\ faults' = 1)
      PROVE hw[at].ext = TRUE
  <2>1. CASE tool = "checklist"
    BY <2>1, <1>1, <1>3, <1>5, Sees, Shows
  <2>2. CASE tool # "checklist"
    <3>1. IdsRight /\ Straight
      BY <1>5, <2>2 DEF TypeOK, Phasewise, Named, Past, Last, Straight, Unlocked, Begun
    <3>2. bi = decode_qt_board_info(hw[at])
      BY <2>2, <3>1, <1>1, <1>5, Sees
    <3> QED BY <3>2, <1>3, <1>5, Shows
  <2> QED BY <2>1, <2>2
<1>6. ASSUME faults' <= 1, index = 0, ~AllExt PROVE faults = 1 /\ faults' = 1
  BY <1>4, <1>6 DEF Phasewise, Selected
<1>7. ASSUME tool = "checklist" \/ (faults' <= 1 /\ index = 0 /\ ~AllExt), good = TRUE, Passes(phase, at, bi)
      PROVE \A d \in Boards : d < at + 1 => hw[d].ext = TRUE
  <2>1. \A d \in Boards : d < at => hw[d].ext = TRUE
    BY <1>6, <1>7 DEF Phasewise, Selected
  <2>2. hw[at].ext = TRUE
    BY <1>5, <1>6, <1>7
  <2> QED BY <2>1, <2>2, <1>4, InBoards
<1>8. CASE Going(Passes(phase, at, bi))
  <2>1. phase' = "ext_clk_sel" /\ at' = at + 1 /\ (good' = TRUE => good = TRUE /\ Passes(phase, at, bi))
    BY <1>8 DEF Going
  <2>2. Residue' /\ Unlocked' /\ Named' /\ Mastered' /\ Displaced'
    BY <2>1, LastLook DEF Last, Mastering
  <2>3. Selected'
    <3>1. ASSUME faults' <= 1, index = 0
          PROVE AllExt \/ (faults' = 1 /\ (good' = TRUE => \A d \in Boards : d < at' => hw[d].ext = TRUE))
      BY <2>1, <3>1, <1>6, <1>7
    <3>2. tool = "checklist" /\ good' = TRUE => \A d \in Boards : d < at' => hw[d].ext = TRUE
      BY <2>1, <1>7
    <3> QED BY <3>1, <3>2, <2>1, <1>2 DEF Selected, AllExt, Zeroing
  <2> QED BY <2>1, <2>2, <2>3 DEF Phasewise, Naming, Zeroed
<1>9. CASE Leaving(Passes(phase, at, bi))
  <2>1. CASE phase' = "failed"
    <3>1. Residue'
      BY <1>2, ResidueSame DEF Phasewise
    <3> QED BY <2>1, <3>1, EarlyPhasewise DEF Early
  <2>2. CASE phase' # "failed"
    <3>1. /\ phase' = (IF tool = "run_init" THEN "ext_clk_freq" ELSE "zero")
          /\ good = TRUE /\ Passes(phase, at, bi) /\ at + 1 = N
      BY <2>2, <1>9 DEF Leaving, After
    <3>2. Residue' /\ Unlocked' /\ Named' /\ Mastered' /\ Displaced'
      BY <3>1, LastLook DEF Last, Mastering
    <3>3. tool = "checklist" \/ (faults' <= 1 /\ index = 0) => AllExt
      <4>1. \A d \in Boards : d < at + 1
        BY <3>1, InBoards
      <4> QED BY <3>1, <4>1, <1>7 DEF AllExt
    <3>4. Selected'
      BY <3>1, <3>3, <1>2 DEF Selected, AllExt
    <3> QED BY <3>1, <3>2, <3>4 DEF Phasewise, Naming, Zeroed
  <2> QED BY <2>1, <2>2
<1> QED BY <1>1, <1>8, <1>9

LEMMA ModesLook == ASSUME TypeOK, Phasewise, look, phase = "dac_mode_zero" PROVE Phasewise'
<1>1. PICK bi \in Answers :
          /\ IF tool = "run_init" THEN _query_board_info(at, bi) ELSE RtBoardInfo(at, bi)
          /\ Going(Passes(phase, at, bi)) \/ Leaving(Passes(phase, at, bi))
  BY Looked
<1>2. UNCHANGED <<hw, index, tool>>
  BY Looked
<1>3. Passes(phase, at, bi) => bi.active = 0
  BY DEF Passes
<1>4. /\ faults \in Nat /\ faults' \in Nat /\ (faults' = faults \/ faults' = faults + 1)
      /\ at \in Boards /\ at \in Nat /\ N \in Nat
  BY <1>1, Sees, FaultsGrow, InBoards, BringUpAssumption DEF TypeOK
<1>5. ASSUME Passes(phase, at, bi), tool = "checklist" \/ (index = 0 /\ faults = 1 /\ faults' = 1)
      PROVE hw[at].active = 0
  <2>1. CASE tool = "checklist"
    BY <2>1, <1>1, <1>3, <1>5, Sees, Shows
  <2>2. CASE tool # "checklist"
    <3>1. IdsRight /\ Straight
      BY <1>5, <2>2 DEF TypeOK, Phasewise, Named, Past, Last, Straight, Unlocked, Begun
    <3>2. bi = decode_qt_board_info(hw[at])
      BY <2>2, <3>1, <1>1, <1>5, Sees
    <3> QED BY <3>2, <1>3, <1>5, Shows
  <2> QED BY <2>1, <2>2
\* Without a fault all boards of a straight ring have fired.
<1>6. ASSUME faults' <= 1, index = 0, ~PlayDDR PROVE faults = 1 /\ faults' = 1
  <2>1. Fires = Boards
    BY <1>6, HeardAll DEF Phasewise, Past, Last, Unlocked, Begun
  <2>2. faults = 0 => PlayDDR
    BY <2>1 DEF Phasewise, Zeroed, FiresPlay, PlayDDR
  <2> QED BY <1>4, <1>6, <2>2
<1>7. ASSUME tool = "checklist" \/ (faults' <= 1 /\ index = 0 /\ ~PlayDDR), good = TRUE, Passes(phase, at, bi)
      PROVE \A d \in Boards : d < at + 1 => hw[d].active = 0
  <2>1. \A d \in Boards : d < at => hw[d].active = 0
    BY <1>6, <1>7 DEF Phasewise, Zeroed
  <2>2. hw[at].active = 0
    BY <1>5, <1>6, <1>7
  <2>3. \A d \in Boards : d < at + 1 => d < at \/ d = at
    BY <1>4, InBoards
  <2> QED BY <2>1, <2>2, <2>3
<1>8. (faults' <= 1 /\ index = 0 => AllExt) /\ (tool = "checklist" => AllExt)
  BY <1>4 DEF Phasewise, Selected, Zeroing
<1>9. faults' = 0 => FiresPlay' /\ HeardIdle'
  <2>1. Heard' = Heard /\ Fires' = Fires
    BY <1>2, HeardKept
  <2> QED BY <2>1, <1>2, <1>4 DEF Phasewise, Zeroed, FiresPlay, HeardIdle
<1>10. CASE Going(Passes(phase, at, bi))
  <2>1. phase' = "dac_mode_zero" /\ at' = at + 1 /\ (good' = TRUE => good = TRUE /\ Passes(phase, at, bi))
    BY <1>10 DEF Going
  <2>2. Residue' /\ Unlocked' /\ Named' /\ Mastered' /\ Displaced'
    BY <2>1, LastLook DEF Last, Mastering
  <2>3. Selected'
    BY <2>1, <1>2, <1>8 DEF Selected, AllExt
  <2>4. ASSUME faults' = 1, index = 0
        PROVE PlayDDR \/ (good' = TRUE => \A d \in Boards : d < at' => hw[d].active = 0)
    <3>1. faults' <= 1
      BY <2>4
    <3> QED BY <2>1, <2>4, <3>1, <1>7
  <2>5. tool = "checklist" /\ good' = TRUE => \A d \in Boards : d < at' => hw[d].active = 0
    BY <2>1, <1>7
  <2>6. Zeroed'
    BY <2>1, <2>4, <2>5, <1>2, <1>9 DEF Zeroed, PlayDDR
  <2> QED BY <2>1, <2>2, <2>3, <2>6 DEF Phasewise, Naming
<1>11. CASE Leaving(Passes(phase, at, bi))
  <2>1. CASE phase' = "failed"
    <3>1. Residue'
      BY <1>2, ResidueSame DEF Phasewise
    <3> QED BY <2>1, <3>1, EarlyPhasewise DEF Early
  <2>2. CASE phase' # "failed"
    <3>1. phase' = "calib_report" /\ good = TRUE /\ Passes(phase, at, bi) /\ at + 1 = N
      BY <2>2, <1>11 DEF Leaving, After
    <3>2. Residue' /\ Unlocked' /\ Named' /\ Mastered' /\ Displaced'
      BY <3>1, LastLook DEF Last, Mastering
    <3>3. Selected'
      BY <3>1, <1>2, <1>8 DEF Selected, AllExt
    <3>4. tool = "checklist" \/ (faults' <= 1 /\ index = 0) => PlayDDR
      <4>1. \A d \in Boards : d < at + 1
        BY <3>1, InBoards
      <4> QED BY <3>1, <4>1, <1>7 DEF PlayDDR
    <3>5. Zeroed'
      BY <3>1, <3>4, <1>2, <1>9 DEF Zeroed, PlayDDR
    <3> QED BY <3>1, <3>2, <3>3, <3>5 DEF Phasewise, Naming
  <2> QED BY <2>1, <2>2
<1> QED BY <1>1, <1>10, <1>11

-----------------------------------------------------------------------------
(* The other phases, and what happens between two bring-ups.               *)

\* The steps from a late phase to a later one that leave the boards alone.
LEMMA OnwardLate ==
    ASSUME TypeOK, Phasewise, UNCHANGED <<hw, index, tool>>, Fault \/ UNCHANGED faults,
           \/ phase = "calib_report" /\ phase' = "done"
           \/ tool = "run_init" /\ phase = "channel_up" /\ phase' = "select"
           \/ tool = "run_init" /\ phase = "ext_clk_freq" /\ phase' \in {"ext_clk_freq", "zero"}
    PROVE Phasewise'
<1>1. /\ faults \in Nat /\ faults' \in Nat /\ (faults' = faults \/ faults' = faults + 1)
      /\ (faults' <= 1 => faults <= 1) /\ (faults' = 0 => faults = 0)
  BY FaultsGrow
<1>2. Past /\ Past' /\ phase' \notin Mastering
  BY DEF Past, Last, Mastering
<1>3. Residue' /\ Unlocked' /\ Named' /\ Mastered' /\ Displaced'
  BY <1>1, <1>2, Settled
<1>4. Selected'
  BY <1>1 DEF Phasewise, Selected, AllExt, Zeroing
<1>5. Heard' = Heard /\ Fires' = Fires
  BY HeardKept
<1>6. Zeroed'
  BY <1>1, <1>5 DEF Phasewise, Zeroed, PlayDDR, HeardIdle, FiresPlay
<1> QED BY <1>3, <1>4, <1>6 DEF Phasewise, Naming

LEMMA EarlyStep ==
    ASSUME Phasewise, UNCHANGED <<hw, index>>, Early(phase', tool')
    PROVE Phasewise'
BY EarlyPhasewise, ResidueSame DEF Phasewise

LEMMA ClockStep == ASSUME TypeOK, Phasewise, measure_ext_clk_freq_remote PROVE Phasewise'
<1>1. UNCHANGED <<hw, index, tool>> /\ (Fault \/ UNCHANGED faults) /\ phase = "ext_clk_freq"
  BY DEF measure_ext_clk_freq_remote
<1>2. PICK ok \in BOOLEAN : Onward(ok)
  BY Measures
<1>3. After(phase) = (IF tool = "run_init" THEN "zero" ELSE "master_unlock")
  BY <1>1 DEF After
<1>4. phase' \in {"ext_clk_freq", "failed", After(phase)}
  BY <1>1, <1>2 DEF Onward, Goto
<1>5. CASE tool = "run_init"
  <2>1. CASE phase' = "failed"
    BY <1>1, <2>1, EarlyStep DEF Early
  <2>2. CASE phase' # "failed"
    BY <1>1, <1>3, <1>4, <1>5, <2>2, OnwardLate
  <2> QED BY <2>1, <2>2
<1>6. CASE tool # "run_init"
  <2>1. tool' = "checklist"
    BY <1>1, <1>6 DEF TypeOK
  <2> QED BY <1>1, <1>3, <1>4, <1>6, <2>1, EarlyStep DEF Early
<1> QED BY <1>5, <1>6

LEMMA ChannelStep == ASSUME TypeOK, Phasewise, channel_up PROVE Phasewise'
<1>1. UNCHANGED <<hw, index, tool, faults>> /\ phase = "channel_up"
  BY DEF channel_up
<1>2. phase' = "failed" \/ phase' = (IF tool = "run_init" THEN "select" ELSE "ext_clk_freq")
  BY <1>1 DEF channel_up, Goto, After
<1>3. CASE phase' = "failed" \/ tool # "run_init"
  <2>1. tool' = tool /\ (tool # "run_init" => tool = "checklist")
    BY <1>1 DEF TypeOK
  <2> QED BY <1>1, <1>2, <1>3, <2>1, EarlyStep DEF Early
<1>4. CASE phase' # "failed" /\ tool = "run_init"
  BY <1>1, <1>2, <1>4, OnwardLate
<1> QED BY <1>3, <1>4

LEMMA ReportStep == ASSUME TypeOK, Phasewise, calib_report PROVE Phasewise'
<1>1. UNCHANGED <<hw, index, tool>> /\ (Fault \/ UNCHANGED faults) /\ phase = "calib_report" /\ phase' \in {"done", "failed"}
  BY DEF calib_report, Goto
<1>2. CASE phase' = "failed"
  BY <1>1, <1>2, EarlyStep DEF Early
<1>3. CASE phase' = "done"
  BY <1>1, <1>3, OnwardLate
<1> QED BY <1>1, <1>2, <1>3

LEMMA ModeSetStep ==
    ASSUME TypeOK, Phasewise, NEW d \in Boards, NEW v \in {0, 1}, set_dac_mode_ramp(d, v)
    PROVE Phasewise'
<1>1. phase' = "idle" /\ UNCHANGED index /\ hw' = [hw EXCEPT ![d] = WithIdle(hw[d], v)] /\ hw \in [Boards -> Board]
  BY DEF set_dac_mode_ramp, TypeOK
<1>2. WithIdle(hw[d], v).id = hw[d].id
  BY <1>1, Updated
<1>3. \A e \in Boards : hw'[e].id = hw[e].id
  BY <1>1, <1>2
<1>4. Residue'
  BY <1>1, <1>3, ResidueKept DEF Phasewise
<1> QED BY <1>1, <1>4, EarlyPhasewise DEF Early

LEMMA TriggerStep == ASSUME TypeOK, Phasewise, NEW S \in SUBSET Boards, trigger(S) PROVE Phasewise'
<1>1. /\ phase \in {"idle", "done", "used", "failed"} /\ phase' = (IF phase = "done" THEN "used" ELSE phase)
      /\ UNCHANGED <<index, tool, faults>> /\ ((\A d \in Boards : hw[d].master = (d = Master)) => S \subseteq Fires)
  BY DEF trigger, Resting
<1>2. hw' = [d \in Boards |-> IF d \in S THEN Swapped(hw[d]) ELSE hw[d]] /\ \A d \in Boards : hw[d] \in Board
  BY DEF trigger, TypeOK
<1>3. \A d \in Boards : /\ Swapped(hw[d]).id = hw[d].id /\ Swapped(hw[d]).master = hw[d].master
                        /\ Swapped(hw[d]).active = hw[d].idle /\ Swapped(hw[d]).idle = hw[d].active
  BY <1>2, Updated
<1>4. \A d \in Boards : /\ hw'[d].id = hw[d].id /\ hw'[d].master = hw[d].master
                        /\ d \in S => hw'[d].active = hw[d].idle /\ hw'[d].idle = hw[d].active
                        /\ d \notin S => hw'[d] = hw[d]
  BY <1>2, <1>3
<1>5. Residue'
  BY <1>1, <1>4, ResidueKept DEF Phasewise
<1>6. CASE phase' \in {"idle", "failed"}
  BY <1>5, <1>6, EarlyPhasewise DEF Early
<1>7. CASE phase' = "used"
  <2>1. phase \in {"done", "used"}
    BY <1>1, <1>7
  <2>2. ASSUME faults = 0 PROVE PlayDDR' /\ HeardIdle' /\ OneMasterTo(N)'
    <3>1. PlayDDR /\ HeardIdle /\ OneMasterTo(N)
      <4>1. CASE phase = "used"
        BY <2>2, <4>1 DEF Phasewise, Zeroed
      <4>2. CASE phase = "done"
        <5>1. Past
          BY <4>2 DEF Past, Last
        <5>2. tool = "checklist" \/ index = 0
          BY <2>2, <5>1 DEF Phasewise, Displaced, TypeOK
        <5> QED BY <2>2, <4>2, <5>1, <5>2 DEF Phasewise, Zeroed, Mastered, Seen
      <4> QED BY <2>1, <4>1, <4>2
    <3>2. S \subseteq Fires /\ Fires \subseteq Heard /\ Heard \subseteq Boards
      BY <1>1, <3>1, HeardIn, InBoards DEF OneMasterTo
    <3>3. Heard' = Heard
      BY <1>4, HeardKept
    <3>4. PlayDDR'
      BY <1>4, <3>1, <3>2 DEF PlayDDR, HeardIdle
    <3>5. HeardIdle'
      BY <1>4, <3>1, <3>2, <3>3 DEF PlayDDR, HeardIdle
    <3>6. OneMasterTo(N)'
      BY <1>4, <3>1 DEF OneMasterTo
    <3> QED BY <3>4, <3>5, <3>6
  <2>3. Zeroed'
    BY <1>1, <1>7, <2>2 DEF Zeroed
  <2> QED
    BY <1>5, <1>7, <2>3 DEF Phasewise, Begun, Unlocked, Naming, Named, Mastering, Past, Last, Mastered, Displaced,
                            Selected, Zeroing
<1> QED BY <1>1, <1>6, <1>7

LEMMA PowerStep == ASSUME PowerCycle PROVE Phasewise'
<1>1. hw' = [d \in Boards |-> PowerOn] /\ phase' \in {"idle", "failed"}
  BY DEF PowerCycle, Goto
<1>2. Residue'
  BY <1>1 DEF Residue, PowerOn
<1> QED BY <1>1, <1>2, EarlyPhasewise DEF Early

LEMMA Unmoved == ASSUME Phasewise, UNCHANGED ringVars PROVE Phasewise'
<1>1. Heard' = Heard /\ Fires' = Fires
  BY HeardKept DEF ringVars
<1> QED
  BY <1>1 DEF Phasewise, Residue, Begun, Unlocked, Naming, IdsRight, Missing, NamedSoFar, Named, Mastering, Past, Last,
       Mastered, Displaced, OneMasterTo, Seen, Selected, AllExt, Zeroing, Zeroed, HeardIdle, FiresPlay, PlayDDR, ringVars

LEMMA PhasewiseStep == TypeOK /\ Phasewise /\ [Next]_vars => Phasewise'
<1> SUFFICES ASSUME TypeOK, Phasewise, [Next]_vars PROVE Phasewise'
  OBVIOUS
<1>1. CASE BringingUp
  <2>1. CASE si5332
    <3>1. UNCHANGED <<hw, index, tool>> /\ Early(phase', tool')
      BY <2>1 DEF si5332, Goto, Early, TypeOK
    <3> QED BY <3>1, EarlyStep
  <2>2. CASE look
    BY <2>2, NamesStep, MastersStep, SelectedLook, ModesLook, Looked DEF Looks
  <2> QED
    BY <1>1, <2>1, <2>2, UnlockStep, EnumStep, AssignStep, AssignMasterStep, SelectStep, ZeroStep, SwapStep,
       ZeroAgainStep, ClockStep, ChannelStep, ReportStep DEF BringingUp
<1>2. CASE Operate
  <2>1. ASSUME NEW t \in {"run_init", "checklist"}, StartInit(t) PROVE Phasewise'
    <3>1. UNCHANGED <<hw, index>> /\ Early(phase', tool')
      BY <2>1 DEF StartInit, Goto, Early
    <3> QED BY <3>1, EarlyStep
  <2> QED BY <1>2, <2>1, ModeSetStep, TriggerStep, PowerStep DEF Operate
<1>3. CASE ClockChanges \/ UNCHANGED vars
  BY <1>3, Unmoved DEF ClockChanges, vars, ringVars
<1> QED BY <1>1, <1>2, <1>3 DEF Next

LEMMA PhasewiseSuffices == TypeOK /\ Phasewise => DoneMeansReady /\ ModeStaysZero
<1> SUFFICES ASSUME TypeOK, Phasewise PROVE DoneMeansReady /\ ModeStaysZero
  OBVIOUS
<1>1. faults \in Nat /\ tool \in {"run_init", "checklist"}
  BY BringUpAssumption DEF TypeOK
<1>2. ASSUME phase = "done" PROVE Past /\ phase \in Zeroing
  BY <1>2 DEF Past, Last, Zeroing
<1>3. ASSUME phase = "done", tool = "checklist" \/ (faults <= 1 /\ index = 0)
      PROVE \A d \in Boards : hw[d].ext /\ hw[d].active = 0
  <2>1. AllExt /\ PlayDDR
    BY <1>1, <1>2, <1>3 DEF Phasewise, Selected, Zeroed
  <2>2. \A d \in Boards : hw[d].ext
    BY <2>1 DEF AllExt
  <2> QED BY <2>1, <2>2 DEF PlayDDR
<1>4. ASSUME phase = "done", faults <= 1, index = 0 PROVE \A d \in Boards : hw[d].id = d
  <2>1. tool = "checklist" => \A d \in Boards : hw[d].id # NoId
    BY <1>2, <1>4 DEF Phasewise, Named
  <2>2. tool = "run_init" => IdsRight
    BY <1>2, <1>4 DEF Phasewise, Named
  <2> QED BY <1>1, <1>4, <2>1, <2>2 DEF Phasewise, Residue, IdsRight
<1>5. ASSUME phase = "done", faults = 0
      PROVE (tool = "run_init" => index = 0) /\ \A d \in Boards : hw[d].master = (d = Master)
  <2>1. tool = "run_init" => index = 0
    BY <1>2, <1>5 DEF Phasewise, Displaced
  <2>2. OneMasterTo(N)
    BY <1>1, <1>2, <1>5, <2>1 DEF Phasewise, Mastered, Seen
  <2> QED BY <2>1, <2>2, InBoards DEF OneMasterTo
<1>6. DoneMeansReady
  BY <1>3, <1>4, <1>5 DEF DoneMeansReady
<1>7. ModeStaysZero
  <2>1. ASSUME phase = "done", faults = 0 PROVE PlayDDR
    BY <1>1, <1>5, <2>1 DEF Phasewise, Zeroed
  <2>2. ASSUME phase = "used", faults = 0 PROVE PlayDDR
    BY <2>2 DEF Phasewise, Zeroed
  <2> QED BY <2>1, <2>2 DEF PlayDDR, ModeStaysZero
<1> QED BY <1>6, <1>7

-----------------------------------------------------------------------------
(* The theorems.                                                           *)

\* Every register keeps its width and every phase is one of the list, for any number of boards.
THEOREM BringUpTypeCorrect == Spec => []TypeOK
  BY InitTyped, TypeStep, PTL DEF Spec

LEMMA Inductive == Spec => []IInv
<1>1. Init => IInv
  BY InitTyped, InitPhasewise DEF IInv
<1>2. IInv /\ [Next]_vars => IInv'
  BY TypeStep, PhasewiseStep DEF IInv
<1> QED BY <1>1, <1>2, PTL DEF Spec

\* A bring-up that says it is done has a ring that is ready, however many boards it has:
\* every look finds out whatever one lost command left undone, although the answer of the
\* board before is as good to it as the answer of the board it asked (init_flow.py,
\* post_flash_checklist.py).  The master names itself by its board_index, which another
\* master's enumeration may have left (board_cfg_reg.v): run_init does not say done then,
\* and of the ids the checklist leaves nothing is claimed.
THEOREM InitializedIsReady == Spec => []DoneMeansReady
<1>1. IInv => DoneMeansReady
  BY PhasewiseSuffices DEF IInv
<1> QED BY <1>1, Inductive, PTL

\* After a bring-up without faults no sequence of triggers takes a board out of DDR mode:
\* _write_mode_ramp_zero has been to both sides of the registers.
THEOREM InitializedPlaysDDR == Spec => []ModeStaysZero
<1>1. IInv => ModeStaysZero
  BY PhasewiseSuffices DEF IInv
<1> QED BY <1>1, Inductive, PTL
-----------------------------------------------------------------------------
(* Initialize System implements the bring-up.                              *)

LEMMA Fed == \A c, r, a : Feeds(c, r, a) \in [Boards -> BOOLEAN]
BY DEF Feeds

LEMMA SystemInit == InitSystem => Init
BY DEF InitSystem

LEMMA SystemStep == [NextSystem]_allVars => [Next]_vars
<1> SUFFICES ASSUME [NextSystem]_allVars PROVE [Next]_vars
  OBVIOUS
<1>1. CASE Start
  BY <1>1 DEF Start, Next, Operate
<1>2. CASE Chip
  <2>1. clocked' \in [Boards -> BOOLEAN]
    BY <1>2, Fed DEF Chip
  <2> QED BY <1>2, <2>1 DEF Chip, Next, ClockChanges
<1>3. CASE Configured
  BY <1>3 DEF Configured, Next, BringingUp
<1>4. CASE Bring
  BY <1>4 DEF Bring, Next
<1>5. CASE Use
  BY <1>5 DEF Use, Next, Operate
<1>6. CASE Power
  BY <1>6 DEF Power, Next, Operate
<1>7. CASE ChipPower
  <2>1. clocked' \in [Boards -> BOOLEAN]
    BY <1>7, Fed DEF ChipPower
  <2> QED BY <1>7, <2>1 DEF ChipPower, Next, ClockChanges
<1>8. CASE UNCHANGED allVars
  BY <1>8 DEF allVars
<1> QED BY <1>1, <1>2, <1>3, <1>4, <1>5, <1>6, <1>7, <1>8 DEF NextSystem

\* Initialize System with the clock chip and its browsers is a bring-up as BringUp has it:
\* what a browser's request does to the chip shows to the boards in their clocks only.
THEOREM SystemImplements == SpecSystem => Spec
BY SystemInit, SystemStep, PTL DEF SpecSystem, Spec

\* So "done" means a ready ring here too (init_flow.py run_init behind app.py api_init).
THEOREM SystemIsReady == SpecSystem => []DoneMeansReady /\ []ModeStaysZero
BY SystemImplements, InitializedIsReady, InitializedPlaysDDR, PTL
-----------------------------------------------------------------------------
(***************************************************************************)
(* The clock chip: ChipInOrder.  The invariant follows the pins, the two   *)
(* lists of sessions and, as long as nothing has set chip and file apart,  *)
(* how far the loop over the saved outputs has come.                       *)
(***************************************************************************)

(* The pins of the expanders.                                              *)
Ports == {"A", "B", "C", "D"}
Pins == /\ aux \in [Ports -> SUBSET (0..7)]
        /\ \A p \in Ports : _AUX_SETTLED[p] \subseteq aux[p]
        /\ aux["D"] = 0..7

LEMMA SequenceLength == Len(_AUX_SEQ) = 16
  BY DEF _AUX_SEQ

\* No write of _i2c_wake touches a pin that stays high, and each of the others has its write.
LEMMA Cleared == \A i \in 1..16 : /\ _AUX_SEQ[i][1] \in Ports /\ _AUX_SEQ[i][1] # "D"
                                  /\ _AUX_SEQ[i][2] \notin _AUX_SETTLED[_AUX_SEQ[i][1]]
  BY DEF _AUX_SEQ, _AUX_SETTLED, Ports

LEMMA Covered == ASSUME NEW p \in Ports, NEW x \in 0..7, x \notin _AUX_SETTLED[p]
                 PROVE  \E i \in 1..16 : _AUX_SEQ[i][1] = p /\ _AUX_SEQ[i][2] = x
  <1>1. CASE p = "A"
    <2>1. x \in {1, 2, 4, 5, 7}  BY <1>1 DEF _AUX_SETTLED
    <2>2. /\ _AUX_SEQ[1] = <<"A", 4>> /\ _AUX_SEQ[2] = <<"A", 5>> /\ _AUX_SEQ[3] = <<"A", 1>>
          /\ _AUX_SEQ[4] = <<"A", 2>> /\ _AUX_SEQ[5] = <<"A", 7>>  BY DEF _AUX_SEQ
    <2> QED  BY <1>1, <2>1, <2>2
  <1>2. CASE p = "B"
    <2>1. x \in {1, 2, 4, 5, 7}  BY <1>2 DEF _AUX_SETTLED
    <2>2. /\ _AUX_SEQ[6] = <<"B", 7>> /\ _AUX_SEQ[7] = <<"B", 5>> /\ _AUX_SEQ[8] = <<"B", 4>>
          /\ _AUX_SEQ[9] = <<"B", 2>> /\ _AUX_SEQ[10] = <<"B", 1>>  BY DEF _AUX_SEQ
    <2> QED  BY <1>2, <2>1, <2>2
  <1>3. CASE p = "C"
    <2>1. x \in {0, 1, 3, 4, 6, 7}  BY <1>3 DEF _AUX_SETTLED
    <2>2. /\ _AUX_SEQ[11] = <<"C", 0>> /\ _AUX_SEQ[12] = <<"C", 1>> /\ _AUX_SEQ[13] = <<"C", 3>>
          /\ _AUX_SEQ[14] = <<"C", 4>> /\ _AUX_SEQ[15] = <<"C", 6>> /\ _AUX_SEQ[16] = <<"C", 7>>  BY DEF _AUX_SEQ
    <2> QED  BY <1>3, <2>1, <2>2
  <1>4. CASE p = "D"
    BY <1>4 DEF _AUX_SETTLED
  <1> QED  BY <1>1, <1>2, <1>3, <1>4 DEF Ports

LEMMA WakesPins ==
    ASSUME Pins, NEW n \in 0..16
    PROVE  LET woken == _i2c_wake(aux, n) IN
           /\ woken \in [Ports -> SUBSET (0..7)]
           /\ \A p \in Ports : _AUX_SETTLED[p] \subseteq woken[p]
           /\ woken["D"] = 0..7
  <1> DEFINE woken == _i2c_wake(aux, n)
             gone(p) == {_AUX_SEQ[i][2] : i \in {j \in 1..n : _AUX_SEQ[j][1] = p}}
  <1>1. woken = [p \in Ports |-> aux[p] \ gone(p)]
    BY DEF _i2c_wake, Pins
  <1>2. ASSUME NEW p \in Ports PROVE gone(p) \cap _AUX_SETTLED[p] = {}
    BY Cleared
  <1>3. gone("D") = {}
    BY Cleared
  <1>4. "D" \in Ports  BY DEF Ports
  <1> HIDE DEF gone, woken
  <1>5. /\ woken \in [Ports -> SUBSET (0..7)]
        /\ \A p \in Ports : _AUX_SETTLED[p] \subseteq woken[p]
        /\ woken["D"] = 0..7
    BY <1>1, <1>2, <1>3, <1>4 DEF Pins
  <1> QED  BY <1>5 DEF woken

LEMMA WakeSettles == ASSUME Pins PROVE _i2c_wake(aux, 16) = _AUX_SETTLED
  <1> DEFINE gone(p) == {_AUX_SEQ[i][2] : i \in {j \in 1..16 : _AUX_SEQ[j][1] = p}}
  <1>1. _i2c_wake(aux, 16) = [p \in Ports |-> aux[p] \ gone(p)]
    BY DEF _i2c_wake, Pins
  <1>2. ASSUME NEW p \in Ports PROVE gone(p) \cap _AUX_SETTLED[p] = {}
    BY Cleared
  <1>3. ASSUME NEW p \in Ports, NEW x \in 0..7, x \notin _AUX_SETTLED[p] PROVE x \in gone(p)
    <2>1. PICK i \in 1..16 : _AUX_SEQ[i][1] = p /\ _AUX_SEQ[i][2] = x
      BY <1>3, Covered
    <2> QED  BY <2>1
  <1> HIDE DEF gone
  <1>4. ASSUME NEW p \in Ports PROVE aux[p] \ gone(p) = _AUX_SETTLED[p]
    BY <1>2, <1>3 DEF Pins
  <1>5. _AUX_SETTLED = [p \in Ports |-> _AUX_SETTLED[p]]
    BY DEF _AUX_SETTLED, Ports
  <1> QED  BY <1>1, <1>4, <1>5
-----------------------------------------------------------------------------
(* The lists of sessions, and what their first one says of the rest.       *)

Ends == {Session("apply"), Session("end")}
Staging(s, e) == \/ s = <<Session("check"), e>>
                 \/ s = <<Session("preamble"), Session("config"), Session("postamble"), e>>
                 \/ s = <<Session("config"), Session("postamble"), e>>
                 \/ s = <<Session("postamble"), e>>
                 \/ s = <<e>>
Restoring(s) == \E w, n : \/ s = <<Session("read"), Differ(w, n)>> \/ s = <<Differ(w, n)>>
                          \/ \E c \in Outs, b \in BOOLEAN : s = <<Set(c, b), Differ(w, n)>>
InitLine(s) == s = <<>> \/ (\E e \in Ends : Staging(s, e)) \/ Restoring(s)
Keeping(s) == s = <<Kept>> \/ \E c \in Outs, b \in BOOLEAN : s = <<Set(c, b), Kept>>
WebLine(s) == s = <<>> \/ s = <<Session("read")>> \/ Keeping(s)
Lines == DOMAIN todo = Threads /\ InitLine(todo["init"]) /\ WebLine(todo["web"])

LEMMA Line1 == \A a : Head(<<a>>) = a /\ Tail(<<a>>) = <<>> /\ Len(<<a>>) = 1 /\ <<a>> # <<>>
  OBVIOUS
LEMMA Line2 == \A a, b : Head(<<a, b>>) = a /\ Tail(<<a, b>>) = <<b>> /\ Len(<<a, b>>) = 2 /\ <<a, b>> # <<>>
  OBVIOUS
LEMMA Line3 == \A a, b, c : Head(<<a, b, c>>) = a /\ Tail(<<a, b, c>>) = <<b, c>> /\ Len(<<a, b, c>>) = 3
                            /\ <<a, b, c>> # <<>>
  OBVIOUS
LEMMA Line4 == \A a, b, c, d : Head(<<a, b, c, d>>) = a /\ Tail(<<a, b, c, d>>) = <<b, c, d>>
                               /\ Len(<<a, b, c, d>>) = 4 /\ <<a, b, c, d>> # <<>>
  OBVIOUS
LEMMA Joined ==
    ASSUME NEW a, NEW e
    PROVE  <<a>> \o <<e>> = <<a, e>>
  <1> DEFINE S == {a, e}
  <1>1. <<a>> \in Seq(S) /\ <<e>> \in Seq(S) /\ <<a, e>> \in Seq(S)
    OBVIOUS
  <1>2. /\ <<a>> \o <<e>> \in Seq(S) /\ Len(<<a>> \o <<e>>) = 2
        /\ (<<a>> \o <<e>>)[1] = a /\ (<<a>> \o <<e>>)[2] = e
    BY <1>1
  <1>3. \A i \in 1..2 : (<<a>> \o <<e>>)[i] = <<a, e>>[i]
    BY <1>2
  <1> HIDE DEF S
  <1> QED  BY <1>1, <1>2, <1>3, SeqEqual
LEMMA ThreeJoined ==
    ASSUME NEW a, NEW b, NEW c, NEW e
    PROVE  <<a, b, c>> \o <<e>> = <<a, b, c, e>>
  <1> DEFINE S == {a, b, c, e}
  <1>1. <<a, b, c>> \in Seq(S) /\ <<e>> \in Seq(S) /\ <<a, b, c, e>> \in Seq(S)
    OBVIOUS
  <1>2. /\ <<a, b, c>> \o <<e>> \in Seq(S) /\ Len(<<a, b, c>> \o <<e>>) = 4
        /\ (<<a, b, c>> \o <<e>>)[1] = a /\ (<<a, b, c>> \o <<e>>)[2] = b
        /\ (<<a, b, c>> \o <<e>>)[3] = c /\ (<<a, b, c>> \o <<e>>)[4] = e
    BY <1>1
  <1>3. \A i \in 1..4 : (<<a, b, c>> \o <<e>>)[i] = <<a, b, c, e>>[i]
    BY <1>2
  <1> HIDE DEF S
  <1> QED  BY <1>1, <1>2, <1>3, SeqEqual
LEMMA StagesOnto == \A e : Stages \o <<e>> = <<Session("preamble"), Session("config"), Session("postamble"), e>>
  BY ThreeJoined DEF Stages
LEMMA NothingOnto == \A e : <<>> \o <<e>> = <<e>>
  OBVIOUS
LEMMA CheckOnto == \A e : <<Session("check")>> \o <<e>> = <<Session("check"), e>>
  BY Joined

\* What the first session is tells what follows it.
LEMMA StagingHeads ==
    ASSUME NEW s, NEW e \in Ends, Staging(s, e)
    PROVE  /\ s # <<>>
           /\ \/ s = <<e>> /\ Head(s) = e /\ Len(s) = 1 /\ Tail(s) = <<>>
              \/ Head(s).do = "check" /\ Tail(s) = <<e>> /\ Len(s) # 1
              \/ Head(s).do \in {"preamble", "config", "postamble"} /\ Staging(Tail(s), e) /\ Len(s) # 1
  <1>1. CASE s = <<Session("check"), e>>
    BY <1>1, Line2 DEF Session
  <1>2. CASE s = <<Session("preamble"), Session("config"), Session("postamble"), e>>
    <2>1. PICK t : t = <<Session("config"), Session("postamble"), e>>
      OBVIOUS
    <2>2. Head(s) = Session("preamble") /\ Tail(s) = t /\ Len(s) = 4 /\ s # <<>>
      BY <1>2, <2>1, Line4
    <2>3. Staging(t, e)
      BY <2>1 DEF Staging
    <2>4. Head(s).do = "preamble"
      BY <2>2 DEF Session
    <2>5. Staging(Tail(s), e)
      BY <2>2, <2>3
    <2>6. Len(s) # 1
      BY <2>2
    <2> QED  BY <2>2, <2>4, <2>5, <2>6
  <1>3. CASE s = <<Session("config"), Session("postamble"), e>>
    <2>1. PICK t : t = <<Session("postamble"), e>>
      OBVIOUS
    <2>2. Head(s) = Session("config") /\ Tail(s) = t /\ Len(s) = 3 /\ s # <<>>
      BY <1>3, <2>1, Line3
    <2>3. Staging(t, e)
      BY <2>1 DEF Staging
    <2>4. Head(s).do = "config"
      BY <2>2 DEF Session
    <2>5. Staging(Tail(s), e)
      BY <2>2, <2>3
    <2>6. Len(s) # 1
      BY <2>2
    <2> QED  BY <2>2, <2>4, <2>5, <2>6
  <1>4. CASE s = <<Session("postamble"), e>>
    BY <1>4, Line2 DEF Session, Staging
  <1>5. CASE s = <<e>>
    BY <1>5, Line1
  <1> QED  BY <1>1, <1>2, <1>3, <1>4, <1>5 DEF Staging

LEMMA RestoringHeads ==
    ASSUME NEW s, Restoring(s)
    PROVE  /\ s # <<>>
           /\ \/ Head(s).do = "differ" /\ Tail(s) = <<>> /\ Len(s) = 1
              \/ Head(s).do = "read" /\ Restoring(Tail(s)) /\ Len(s) # 1
              \/ Head(s).do = "set" /\ Head(s).ch \in Outs /\ Restoring(Tail(s)) /\ Len(s) # 1
  <1>1. PICK w, n : \/ s = <<Session("read"), Differ(w, n)>> \/ s = <<Differ(w, n)>>
                    \/ \E c \in Outs, b \in BOOLEAN : s = <<Set(c, b), Differ(w, n)>>
    BY DEF Restoring
  <1>2. Restoring(<<Differ(w, n)>>)
    BY DEF Restoring
  <1>3. CASE s = <<Session("read"), Differ(w, n)>>
    BY <1>2, <1>3, Line2 DEF Session
  <1>4. CASE s = <<Differ(w, n)>>
    BY <1>4, Line1 DEF Differ
  <1>5. ASSUME NEW c \in Outs, NEW b \in BOOLEAN, s = <<Set(c, b), Differ(w, n)>>
        PROVE  Head(s).do = "set" /\ Head(s).ch \in Outs /\ Restoring(Tail(s)) /\ Len(s) # 1 /\ s # <<>>
    BY <1>2, <1>5, Line2 DEF Set
  <1> QED  BY <1>1, <1>3, <1>4, <1>5

LEMMA InitHeads ==
    ASSUME NEW s, InitLine(s), s # <<>>
    PROVE  /\ Head(s).do \in {"check", "preamble", "config", "postamble", "apply", "end", "read", "set", "differ"}
           /\ InitLine(Tail(s))
           /\ Head(s).do = "set" => Head(s).ch \in Outs
           /\ Head(s).do = "check" => \E e \in Ends : Tail(s) = <<e>>
           /\ Head(s).do = "apply" => s = <<Session("apply")>>
           /\ Head(s).do = "end" => s = <<Session("end")>>
           /\ Head(s).do \in {"apply", "end", "differ"} => Tail(s) = <<>>
  <1>1. ASSUME NEW e \in Ends, Staging(s, e)
        PROVE  InitLine(Tail(s)) /\ Head(s).do \notin {"read", "set", "differ"}
               /\ (Head(s).do = "check" => Tail(s) = <<e>>)
               /\ (Head(s).do = "apply" => s = <<Session("apply")>> /\ Tail(s) = <<>>)
               /\ (Head(s).do = "end" => s = <<Session("end")>> /\ Tail(s) = <<>>)
               /\ Head(s).do \in {"check", "preamble", "config", "postamble", "apply", "end"}
    <2>1. (e = Session("apply") /\ e.do = "apply") \/ (e = Session("end") /\ e.do = "end")
      BY DEF Ends, Session
    <2>2. Staging(<<e>>, e)
      BY DEF Staging
    <2> QED  BY <1>1, <2>1, <2>2, StagingHeads DEF InitLine
  <1>2. CASE Restoring(s)
    BY <1>2, RestoringHeads DEF InitLine
  <1> QED  BY <1>1, <1>2 DEF InitLine

LEMMA WebHeads ==
    ASSUME NEW s, WebLine(s), s # <<>>
    PROVE  /\ WebLine(Tail(s))
           /\ \/ /\ Head(s).do = "read" /\ Head(s).on = FALSE /\ Tail(s) = <<>>
                 /\ s = <<Session("read")>> /\ ~Keeping(s)
              \/ Head(s).do = "read" /\ Head(s).on = TRUE /\ Tail(s) = <<>> /\ s = <<Kept>> /\ Keeping(s)
              \/ Head(s).do = "set" /\ Head(s).ch \in Outs /\ Tail(s) = <<Kept>> /\ Keeping(s)
  <1>1. CASE s = <<Session("read")>>
    <2>1. Head(s).do = "read" /\ Head(s).on = FALSE /\ Tail(s) = <<>> /\ s[1] = Session("read")
      BY <1>1, Line1 DEF Session
    <2>2. s # <<Kept>>
      BY <2>1 DEF Session, Kept
    <2>3. ASSUME NEW c \in Outs, NEW b \in BOOLEAN PROVE s # <<Set(c, b), Kept>>
      BY <2>1 DEF Session, Set
    <2> QED  BY <1>1, <2>1, <2>2, <2>3 DEF Keeping, WebLine
  <1>2. CASE s = <<Kept>>
    BY <1>2, Line1 DEF Kept, Keeping, WebLine
  <1>3. ASSUME NEW c \in Outs, NEW b \in BOOLEAN, s = <<Set(c, b), Kept>>
        PROVE  Head(s).do = "set" /\ Head(s).ch \in Outs /\ Tail(s) = <<Kept>> /\ Keeping(s) /\ WebLine(Tail(s))
    BY <1>3, Line2 DEF Set, Keeping, WebLine
  <1> QED  BY <1>1, <1>2, <1>3 DEF WebLine, Keeping
-----------------------------------------------------------------------------
(* The inductive invariant.                                                *)

OutputTypes == DOMAIN seen = Threads /\ oe \subseteq Outs /\ (saved = Nobody \/ saved \subseteq Outs)
Holding == claim # Nobody =>
    /\ claim \in Threads /\ ~Free(claim) /\ This_(claim).do \notin {"apply", "differ", "end"}
    /\ aux = _AUX_SETTLED

\* What apply_saved_output_state has done of its loop: before n as the file, the rest as read.
SetTo(c) == (c \in oe) = (c \in saved)
AsRead(c) == (c \in oe) = (c \in seen["init"])
Looping(s, n) == /\ s = <<Differ(saved, n)>>
                 /\ \A c \in Outs : IF c < n THEN SetTo(c) ELSE AsRead(c)
Setting(s, k) == /\ s = <<Set(k, k \in saved), Differ(saved, k + 1)>>
                 /\ \A c \in Outs : (c < k => SetTo(c)) /\ (c > k => AsRead(c))
Repairs(s) == \/ s = <<Session("read"), Differ(saved, 0)>>
              \/ \E n \in Nat : Looping(s, n)
              \/ \E k \in Outs : Setting(s, k)
Initializing == Staging(todo["init"], Session("apply")) \/ (saved # Nobody /\ Repairs(todo["init"]))
Reconciled == phase0 = "ok" /\ saved # Nobody => oe = saved \/ Keeping(todo["web"])
Untouched == todo["web"] = <<>> \/ todo["web"] = <<Session("read")>>
Truthful == ~disturbed => /\ Free("init") => Reconciled
                          /\ ~Free("init") => Untouched /\ Initializing
ClockInv == Lines /\ OutputTypes /\ Pins /\ Holding /\ Truthful

LEMMA ClockSuffices == ClockInv => ChipInOrder
  <1>1. ASSUME todo["web"] = <<>> PROVE ~Keeping(todo["web"])
    BY <1>1, Line1, Line2 DEF Keeping
  <1> QED  BY <1>1 DEF ClockInv, Truthful, Holding, ChipInOrder, Free, Reconciled

LEMMA ClockStarts == ClockInit => ClockInv
  <1> SUFFICES ASSUME ClockInit PROVE ClockInv  OBVIOUS
  <1>1. Lines /\ OutputTypes /\ Holding /\ Free("init") /\ phase0 = "none"
    BY DEF ClockInit, Lines, OutputTypes, Holding, Threads, InitLine, WebLine, Free
  <1>2. Pins
    BY DEF ClockInit, Pins, Ports, _AUX_SETTLED
  <1> QED  BY <1>1, <1>2 DEF ClockInv, Truthful, Reconciled

LEMMA TheThreads == Threads = {"init", "web"} /\ "init" # "web"
  BY DEF Threads

\* One thread goes on and the other stays: what becomes of the lists.
LEMMA Onwards ==
    ASSUME Lines, NEW t \in Threads, ~Free(t), todo' = Rest(t)
    PROVE  /\ Lines' /\ todo'[t] = Tail(todo[t])
           /\ \A u \in Threads : u # t => todo'[u] = todo[u]
  BY TheThreads, InitHeads, WebHeads DEF Lines, Free, Rest

LEMMA Dropped ==
    ASSUME Lines, NEW t \in Threads, todo' = Drop(t)
    PROVE  /\ Lines' /\ todo'[t] = <<>>
           /\ \A u \in Threads : u # t => todo'[u] = todo[u]
  BY TheThreads DEF Lines, Drop, InitLine, WebLine

LEMMA Failed ==
    ASSUME Lines, NEW t \in Threads, ~Free(t), NEW caught \in BOOLEAN, Fails(t, caught)
    PROVE  Lines' /\ \A u \in Threads : u # t => todo'[u] = todo[u]
  <1>1. todo' = Drop(t) \/ todo' = Rest(t)
    BY TheThreads DEF Fails
  <1> QED  BY <1>1, Onwards, Dropped

\* A step by t leaves the claim of the other thread as it was.
LEMMA StillHolds ==
    ASSUME Holding, NEW t \in Threads, \A u \in Threads : u # t => todo'[u] = todo[u],
           claim # t, UNCHANGED <<claim, aux>>
    PROVE  Holding'
  BY DEF Holding, Free, This_

LEMMA StillPins == ASSUME Pins, UNCHANGED aux PROVE Pins'
  BY DEF Pins

LEMMA BeginStep == ASSUME ClockInv, NEW t \in Threads, Begin(t) PROVE ClockInv'
  <1> USE DEF ClockInv
  <1>1. ~Free(t) /\ claim # t /\ This_(t).do \notin {"apply", "differ", "end"} /\ UNCHANGED <<oe, saved, seen>>
    BY DEF Begin, chip
  <1>2. OutputTypes'
    BY <1>1 DEF OutputTypes
  <1>3. CASE (claim # Nobody \/ (claim = Nobody /\ latched)) /\ Fails(t, FALSE) /\ disturbed' = TRUE /\ UNCHANGED <<chip, claim>>
    <2>1. UNCHANGED aux
      BY <1>3 DEF chip
    <2> QED  BY <1>1, <1>2, <1>3, <2>1, Failed, StillHolds, StillPins DEF Truthful
  <1>4. CASE claim = Nobody /\ disturbed' = TRUE /\ claim' = claim
             /\ \E caught \in BOOLEAN, n \in {0, 1, Len(_AUX_SEQ)} : Fails(t, caught) /\ aux' = _i2c_wake(aux, n)
    <2>1. PICK caught \in BOOLEAN, n \in 0..16 : Fails(t, caught) /\ aux' = _i2c_wake(aux, n)
      BY <1>4, SequenceLength
    <2>2. Pins'
      BY <2>1, WakesPins DEF Pins
    <2>3. Holding'
      BY <1>4 DEF Holding
    <2> QED  BY <1>1, <1>2, <1>4, <2>1, <2>2, <2>3, Failed DEF Truthful
  <1>5. CASE claim = Nobody /\ claim' = t /\ aux' = _i2c_wake(aux, Len(_AUX_SEQ)) /\ UNCHANGED <<todo, phase0, disturbed>>
    <2>1. aux' = _AUX_SETTLED
      BY <1>5, SequenceLength, WakeSettles
    <2>2. Pins'
      BY <2>1 DEF Pins, Ports, _AUX_SETTLED
    <2>3. Holding'
      BY <1>1, <1>5, <2>1 DEF Holding, Free, This_
    <2>4. Lines' /\ Truthful'
      BY <1>1, <1>5 DEF Lines, Truthful, Free, Reconciled, Untouched, Initializing, Repairs, Looping, Setting, SetTo, AsRead
    <2> QED  BY <1>2, <2>2, <2>3, <2>4
  <1> QED  BY <1>3, <1>4, <1>5 DEF Begin

LEMMA BreaksStep == ASSUME ClockInv, NEW t \in Threads, Breaks(t) PROVE ClockInv'
  <1> USE DEF ClockInv
  <1>1. ~Free(t) /\ claim' = Nobody /\ disturbed' = TRUE /\ UNCHANGED <<oe, saved, seen, aux>>
    BY DEF Breaks, Quietly
  <1>2. PICK caught \in BOOLEAN : Fails(t, caught)
    BY DEF Breaks
  <1>3. OutputTypes' /\ Holding' /\ Truthful'
    BY <1>1 DEF OutputTypes, Holding, Truthful
  <1> QED  BY <1>1, <1>2, <1>3, Failed, StillPins

\* A session that is finished gives the interface back.
LEMMA Given == ASSUME Pins, NEW t, NEW what, Finish(t, what), UNCHANGED aux
               PROVE  Holding' /\ Pins' /\ ~Free(t) /\ This_(t).do = what
  BY StillPins DEF Holding, Finish

\* The lists of the thread that does not go on stay what they are.
LEMMA InitHeadsNow ==
    ASSUME Lines, ~Free("init")
    PROVE  /\ This_("init").do \in {"check", "preamble", "config", "postamble", "apply", "end", "read", "set", "differ"}
           /\ InitLine(Tail(todo["init"]))
           /\ This_("init").do = "set" => This_("init").ch \in Outs
           /\ This_("init").do = "check" => \E e \in Ends : Tail(todo["init"]) = <<e>>
           /\ This_("init").do = "apply" => todo["init"] = <<Session("apply")>>
           /\ This_("init").do = "end" => todo["init"] = <<Session("end")>>
           /\ This_("init").do \in {"apply", "end", "differ"} => Tail(todo["init"]) = <<>>
  BY InitHeads DEF Lines, Free, This_

LEMMA WebHeadsNow ==
    ASSUME Lines, ~Free("web")
    PROVE  LET s == todo["web"] IN
           /\ WebLine(Tail(s))
           /\ \/ /\ This_("web").do = "read" /\ This_("web").on = FALSE /\ Tail(s) = <<>>
                 /\ s = <<Session("read")>> /\ ~Keeping(s)
              \/ This_("web").do = "read" /\ This_("web").on = TRUE /\ Tail(s) = <<>> /\ s = <<Kept>> /\ Keeping(s)
              \/ This_("web").do = "set" /\ This_("web").ch \in Outs /\ Tail(s) = <<Kept>> /\ Keeping(s)
  BY WebHeads DEF Lines, Free, This_

\* While Initialize works undisturbed, its first session tells where it is.
LEMMA InitializingNow ==
    ASSUME Lines, Initializing, ~Free("init")
    PROVE  LET s == todo["init"] IN
           \/ This_("init").do \in {"preamble", "config", "postamble"} /\ Staging(Tail(s), Session("apply")) /\ Len(s) # 1
           \/ This_("init").do = "check" /\ Tail(s) = <<Session("apply")>> /\ Len(s) # 1
           \/ This_("init").do = "apply" /\ s = <<Session("apply")>>
           \/ /\ This_("init").do = "read" /\ saved # Nobody /\ s = <<Session("read"), Differ(saved, 0)>>
              /\ Tail(s) = <<Differ(saved, 0)>> /\ Len(s) # 1
           \/ /\ This_("init").do = "differ" /\ saved # Nobody /\ \E n \in Nat : Looping(s, n)
           \/ /\ This_("init").do = "set" /\ saved # Nobody /\ \E k \in Outs : Setting(s, k)
  <1> DEFINE s == todo["init"]
  <1>1. Session("apply") \in Ends /\ Session("apply").do = "apply"
    BY DEF Ends, Session
  <1>2. CASE Staging(s, Session("apply"))
    BY <1>1, <1>2, StagingHeads DEF This_
  <1>3. CASE saved # Nobody /\ s = <<Session("read"), Differ(saved, 0)>>
    BY <1>3, Line2 DEF This_, Session
  <1>4. ASSUME saved # Nobody, NEW n \in Nat, Looping(s, n) PROVE This_("init").do = "differ"
    BY <1>4, Line1 DEF This_, Looping, Differ
  <1>5. ASSUME saved # Nobody, NEW k \in Outs, Setting(s, k) PROVE This_("init").do = "set"
    BY <1>5, Line2 DEF This_, Setting, Set
  <1> QED  BY <1>2, <1>3, <1>4, <1>5 DEF Initializing, Repairs

LEMMA SameInitializing ==
    ASSUME todo'["init"] = todo["init"], seen'["init"] = seen["init"], UNCHANGED <<oe, saved>>
    PROVE  Initializing' <=> Initializing
  BY DEF Initializing, Repairs, Looping, Setting, SetTo, AsRead

LEMMA CheckStep == ASSUME ClockInv, NEW t \in Threads, already_configured(t) PROVE ClockInv'
  <1> USE DEF ClockInv
  <1>1. /\ ~Free(t) /\ This_(t).do = "check" /\ Holding' /\ Pins' /\ UNCHANGED <<oe, saved, seen, phase0, disturbed>>
        /\ todo' = [todo EXCEPT ![t] = (IF regs = "target" /\ oe = Project /\ active THEN <<>> ELSE Stages) \o Tail(@)]
    BY Given DEF already_configured, Quietly
  <1>2. t = "init"
    BY <1>1, WebHeadsNow, TheThreads
  <1>3. PICK e \in Ends : Tail(todo["init"]) = <<e>>
    BY <1>1, <1>2, InitHeadsNow
  <1>4. todo'["web"] = todo["web"] /\ DOMAIN todo' = Threads /\ Staging(todo'["init"], e)
    BY <1>1, <1>2, <1>3, StagesOnto, NothingOnto, TheThreads DEF Lines, Staging
  <1>5. todo'["init"] # <<>>
    BY <1>4, StagingHeads
  <1>6. Lines'
    BY <1>4 DEF Lines, InitLine
  <1>7. ASSUME ~disturbed PROVE e = Session("apply") /\ Untouched
    <2>1. Initializing /\ Untouched /\ ~Free("init")
      BY <1>1, <1>2, <1>7 DEF Truthful
    <2>2. Tail(todo["init"]) = <<Session("apply")>>
      BY <1>1, <1>2, <2>1, InitializingNow
    <2> QED  BY <1>3, <2>1, <2>2, Line1
  <1>8. Truthful'
    BY <1>1, <1>4, <1>5, <1>7 DEF Truthful, Free, Untouched, Initializing
  <1>9. OutputTypes'
    BY <1>1 DEF OutputTypes
  <1> QED  BY <1>1, <1>6, <1>8, <1>9

LEMMA StageStep == ASSUME ClockInv, NEW t \in Threads, run_stage(t) PROVE ClockInv'
  <1> USE DEF ClockInv
  <1>1. /\ ~Free(t) /\ This_(t).do \in {"preamble", "config", "postamble"} /\ Holding' /\ Pins'
        /\ oe' \in {oe, Project} /\ UNCHANGED <<saved, seen>>
        /\ disturbed' = (disturbed \/ t = "web" \/ ~Free("web")) /\ todo' = Rest(t)
    BY Given DEF run_stage, Quietly, Succeeds
  <1>2. t = "init"
    BY <1>1, WebHeadsNow, TheThreads
  <1>3. Lines' /\ todo'["init"] = Tail(todo["init"]) /\ todo'["web"] = todo["web"]
    BY <1>1, <1>2, Onwards, TheThreads
  <1>4. OutputTypes'
    BY <1>1, ClockAssumption DEF OutputTypes
  <1>5. ASSUME ~disturbed' PROVE ~Free("init")' /\ Untouched' /\ Initializing'
    <2>1. ~disturbed /\ Free("web") /\ Initializing
      BY <1>1, <1>2, <1>5 DEF Truthful
    <2>2. Staging(todo'["init"], Session("apply"))
      BY <1>1, <1>2, <1>3, <2>1, InitializingNow
    <2>3. todo'["init"] # <<>>
      BY <2>2, StagingHeads DEF Ends
    <2> QED  BY <1>3, <2>1, <2>2, <2>3 DEF Free, Untouched, Initializing
  <1>6. Truthful'
    BY <1>5 DEF Truthful
  <1> QED  BY <1>1, <1>3, <1>4, <1>6

LEMMA ReadStep == ASSUME ClockInv, NEW t \in Threads, read_outputs(t) PROVE ClockInv'
  <1> USE DEF ClockInv
  <1>1. /\ ~Free(t) /\ This_(t).do = "read" /\ Holding' /\ Pins' /\ seen' = [seen EXCEPT ![t] = oe]
        /\ saved' = (IF t = "web" /\ This_(t).on THEN oe ELSE saved)
        /\ disturbed' = (disturbed \/ (t = "web" /\ This_(t).on /\ ~Free("init")))
        /\ Succeeds(t) /\ todo' = Rest(t) /\ oe' = oe
    BY Given DEF read_outputs, Quietly, Succeeds
  <1>2. OutputTypes'
    BY <1>1 DEF OutputTypes
  <1>3. Lines' /\ todo'[t] = Tail(todo[t]) /\ \A u \in Threads : u # t => todo'[u] = todo[u]
    BY <1>1, Onwards
  <1>4. CASE t = "init"
    <2>1. ASSUME ~disturbed' PROVE ~Free("init")' /\ Untouched' /\ Initializing'
      <3>1. ~disturbed /\ Untouched /\ Initializing /\ ~Free("init") /\ This_("init").do = "read"
        BY <1>1, <1>4, <2>1 DEF Truthful
      <3>2. saved # Nobody /\ todo'["init"] = <<Differ(saved, 0)>> /\ saved' = saved
        BY <1>1, <1>3, <1>4, <3>1, InitializingNow, TheThreads
      <3>3. seen'["init"] = oe
        BY <1>1, <1>4 DEF OutputTypes
      <3>4. Looping(todo["init"], 0)'
        BY <1>1, <3>2, <3>3, ClockAssumption DEF Looping, AsRead, SetTo, Outs
      <3> QED  BY <1>3, <1>4, <3>1, <3>2, <3>4, Line1, TheThreads DEF Free, Untouched, Initializing, Repairs
    <2> QED  BY <1>1, <1>2, <1>3, <2>1 DEF Truthful
  <1>5. CASE t = "web"
    <2>1. phase0' = phase0 /\ todo'["init"] = todo["init"] /\ seen'["init"] = seen["init"]
      BY <1>1, <1>3, <1>5, TheThreads DEF Succeeds, OutputTypes
    <2>2. todo'["web"] = <<>>
      BY <1>1, <1>3, <1>5, WebHeadsNow
    <2>3. CASE This_("web").on = TRUE
      BY <1>1, <1>2, <1>3, <1>5, <2>1, <2>3 DEF Truthful, Free, Reconciled
    <2>4. CASE This_("web").on = FALSE /\ saved' = saved
      <3>1. ~Keeping(todo["web"]) /\ (disturbed' <=> disturbed)
        BY <1>1, <1>5, <2>4, WebHeadsNow
      <3>2. Truthful'
        BY <1>1, <2>1, <2>2, <2>4, <3>1, SameInitializing DEF Truthful, Free, Reconciled, Untouched
      <3> QED  BY <1>1, <1>2, <1>3, <3>2
    <2>5. This_("web").on = FALSE => saved' = saved
      BY <1>1
    <2>6. This_("web").on \in BOOLEAN
      BY <1>1, <1>5, WebHeadsNow
    <2> QED  BY <2>3, <2>4, <2>5, <2>6
  <1> QED  BY <1>4, <1>5, TheThreads

LEMMA SetStep == ASSUME ClockInv, NEW t \in Threads, set_output_enable(t) PROVE ClockInv'
  <1> USE DEF ClockInv
  <1>1. /\ ~Free(t) /\ This_(t).do = "set" /\ Holding' /\ Pins'
        /\ oe' = (IF This_(t).on THEN oe \cup {This_(t).ch} ELSE oe \ {This_(t).ch})
        /\ disturbed' = (disturbed \/ (t = "web" /\ ~Free("init")))
        /\ Succeeds(t) /\ todo' = Rest(t) /\ saved' = saved /\ seen' = seen
    BY Given DEF set_output_enable, Quietly, Succeeds
  <1>2. This_(t).ch \in Outs
    BY <1>1, InitHeadsNow, WebHeadsNow, TheThreads
  <1>3. OutputTypes'
    BY <1>1, <1>2 DEF OutputTypes
  <1>4. Lines' /\ todo'[t] = Tail(todo[t]) /\ \A u \in Threads : u # t => todo'[u] = todo[u]
    BY <1>1, Onwards
  <1>5. CASE t = "init"
    <2>1. ASSUME ~disturbed' PROVE ~Free("init")' /\ Untouched' /\ Initializing'
      <3>1. ~disturbed /\ Untouched /\ Initializing /\ ~Free("init") /\ This_("init").do = "set"
        BY <1>1, <1>5, <2>1 DEF Truthful
      <3>2. PICK k \in Outs : Setting(todo["init"], k) /\ saved # Nobody
        BY <3>1, InitializingNow
      <3>3. todo["init"] = <<Set(k, k \in saved), Differ(saved, k + 1)>>
        BY <3>2 DEF Setting
      <3>4. todo'["init"] = <<Differ(saved, k + 1)>> /\ This_("init") = Set(k, k \in saved)
        BY <1>4, <1>5, <3>3, Line2 DEF This_
      <3>5. \A c \in Outs : (c \in oe') = (IF c = k THEN c \in saved ELSE c \in oe)
        <4>1. This_("init").ch = k /\ This_("init").on = (k \in saved)
          BY <3>4 DEF Set
        <4>2. k \in saved => oe' = oe \cup {k}
          BY <1>1, <1>5, <4>1
        <4>3. k \notin saved => oe' = oe \ {k}
          BY <1>1, <1>5, <4>1
        <4> QED  BY <4>2, <4>3
      <3>6. Looping(todo["init"], k + 1)' /\ k + 1 \in Nat
        BY <1>1, <3>2, <3>4, <3>5, ClockAssumption DEF Looping, Setting, AsRead, SetTo, Outs
      <3> QED  BY <1>1, <1>4, <1>5, <3>1, <3>2, <3>4, <3>6, Line1, TheThreads DEF Free, Untouched, Initializing, Repairs
    <2> QED  BY <1>1, <1>3, <1>4, <2>1 DEF Truthful
  <1>6. CASE t = "web"
    <2>1. todo'["web"] = <<Kept>> /\ todo'["init"] = todo["init"]
      BY <1>1, <1>4, <1>6, WebHeadsNow, TheThreads
    <2>2. Truthful'
      BY <1>1, <1>6, <2>1 DEF Truthful, Free, Reconciled, Keeping
    <2> QED  BY <1>1, <1>3, <1>4, <2>2
  <1> QED  BY <1>5, <1>6, TheThreads

LEMMA ApplyStep == ASSUME ClockInv, apply_saved_output_state PROVE ClockInv'
  <1> USE DEF ClockInv
  <1>1. /\ ~Free("init") /\ claim # "init" /\ This_("init").do = "apply"
        /\ UNCHANGED <<oe, aux, saved, claim, seen, disturbed>>
    BY DEF apply_saved_output_state, chip
  <1>2. todo["init"] = <<Session("apply")>>
    BY <1>1, InitHeadsNow
  <1>3. OutputTypes' /\ Pins'
    BY <1>1, StillPins DEF OutputTypes
  <1>4. CASE saved = Nobody
    <2>1. todo' = Rest("init")
      BY <1>4 DEF apply_saved_output_state, Succeeds
    <2>2. Lines' /\ todo'["web"] = todo["web"] /\ todo'["init"] = <<>>
      BY <1>1, <1>2, <2>1, Onwards, TheThreads, Line1
    <2>3. Holding'
      BY <1>1, <2>2, StillHolds, TheThreads
    <2> QED  BY <1>1, <1>3, <1>4, <2>2, <2>3 DEF Truthful, Free, Reconciled
  <1>5. CASE saved # Nobody
    <2>1. todo' = [todo EXCEPT !["init"] = <<Session("read"), Differ(saved, 0)>>]
      BY <1>5 DEF apply_saved_output_state
    <2>2. /\ DOMAIN todo' = Threads /\ todo'["web"] = todo["web"]
          /\ todo'["init"] = <<Session("read"), Differ(saved, 0)>>
      BY <2>1, TheThreads DEF Lines
    <2>3. Lines'
      BY <2>2 DEF Lines, InitLine, Restoring
    <2>4. Holding'
      BY <1>1, <2>2, StillHolds, TheThreads
    <2>5. Truthful'
      BY <1>1, <1>5, <2>2, Line2 DEF Truthful, Free, Untouched, Initializing, Repairs
    <2> QED  BY <1>3, <2>3, <2>4, <2>5
  <1> QED  BY <1>4, <1>5

LEMMA DifferStep == ASSUME ClockInv, differing PROVE ClockInv'
  <1> USE DEF ClockInv
  <1>1. ~Free("init") /\ This_("init").do = "differ" /\ UNCHANGED <<oe, aux, saved, claim, seen, disturbed>>
    BY DEF differing, chip
  <1>2. claim # "init" \/ claim = Nobody
    BY <1>1 DEF Holding
  <1>3. OutputTypes' /\ Pins'
    BY <1>1, StillPins DEF OutputTypes
  <1> DEFINE w == This_("init").want
             n == This_("init").from
             left == {c \in Outs : c >= n /\ (c \in w) # (c \in seen["init"])}
  <1>4. Tail(todo["init"]) = <<>>
    BY <1>1, InitHeadsNow
  <1>5. ASSUME ~disturbed PROVE /\ Untouched /\ saved # Nobody /\ n \in Nat /\ w = saved
                                /\ \A c \in Outs : IF c < n THEN SetTo(c) ELSE AsRead(c)
    <2>1. Untouched /\ saved # Nobody /\ \E m \in Nat : Looping(todo["init"], m)
      BY <1>1, <1>5, InitializingNow DEF Truthful
    <2>2. PICK m \in Nat : Looping(todo["init"], m)
      BY <2>1
    <2>3. This_("init") = Differ(saved, m)
      BY <2>2, Line1 DEF Looping, This_
    <2> QED  BY <2>1, <2>2, <2>3 DEF Looping, Differ
  <1>6. CASE left = {} /\ Succeeds("init")
    <2>1. Lines' /\ todo'["web"] = todo["web"] /\ todo'["init"] = <<>>
      BY <1>1, <1>4, <1>6, Onwards, TheThreads DEF Succeeds
    <2>2. Holding'
      BY <1>1, <1>2, <2>1, StillHolds, TheThreads DEF Holding
    <2>3. ASSUME ~disturbed PROVE oe = saved \/ saved = Nobody
      <3>1. \A c \in Outs : (c \in oe) = (c \in saved)
        BY <1>5, <1>6, <2>3, ClockAssumption DEF SetTo, AsRead, Outs
      <3> QED  BY <3>1 DEF OutputTypes
    <2>4. Truthful'
      BY <1>1, <2>1, <2>3 DEF Truthful, Free, Reconciled
    <2> QED  BY <1>3, <2>1, <2>2, <2>4
  <1>7. ASSUME NEW c \in left, \A d \in left : c <= d,
               todo' = [todo EXCEPT !["init"] = <<Set(c, c \in w), Differ(w, c + 1)>>]
        PROVE  ClockInv'
    <2>1. /\ DOMAIN todo' = Threads /\ todo'["web"] = todo["web"]
          /\ todo'["init"] = <<Set(c, c \in w), Differ(w, c + 1)>>
      BY <1>7, TheThreads DEF Lines
    <2>2. Lines'
      <3>1. c \in Outs /\ (c \in w) \in BOOLEAN
        OBVIOUS
      <3> HIDE DEF w
      <3> QED  BY <2>1, <3>1 DEF Lines, InitLine, Restoring
    <2>3. Holding'
      BY <1>1, <1>2, <2>1, StillHolds, TheThreads DEF Holding
    <2>4. ASSUME ~disturbed PROVE Setting(todo["init"], c)'
      <3>1. \A d \in Outs : (d < c => SetTo(d)) /\ (d > c => AsRead(d))
        BY <1>5, <1>7, <2>4, ClockAssumption DEF SetTo, AsRead, Outs
      <3> QED  BY <1>1, <1>5, <2>1, <2>4, <3>1 DEF Setting, SetTo, AsRead
    <2>5. Truthful'
      BY <1>1, <1>5, <2>1, <2>4, Line2 DEF Truthful, Free, Untouched, Initializing, Repairs
    <2> QED  BY <1>3, <2>2, <2>3, <2>5
  <1> QED  BY <1>6, <1>7 DEF differing

LEMMA ConfiguredStep == ASSUME ClockInv, configured PROVE ClockInv'
  <1> USE DEF ClockInv
  <1>1. /\ ~Free("init") /\ This_("init").do = "end" /\ todo' = Rest("init")
        /\ UNCHANGED <<oe, aux, saved, claim, seen, disturbed>>
    BY DEF configured, chip, Succeeds
  <1>2. claim # "init" \/ claim = Nobody
    BY <1>1 DEF Holding
  <1>3. OutputTypes' /\ Pins'
    BY <1>1, StillPins DEF OutputTypes
  <1>4. Lines' /\ todo'["web"] = todo["web"]
    BY <1>1, Onwards, TheThreads
  <1>5. Holding'
    BY <1>1, <1>2, <1>4, StillHolds, TheThreads DEF Holding
  <1>6. disturbed
    BY <1>1, InitializingNow DEF Truthful
  <1> QED  BY <1>1, <1>3, <1>4, <1>5, <1>6 DEF Truthful

LEMMA ConfigureStep == ASSUME ClockInv, NEW withOutputs \in BOOLEAN, configure(withOutputs) PROVE ClockInv'
  <1> USE DEF ClockInv
  <1> DEFINE e == IF withOutputs THEN Session("apply") ELSE Session("end")
  <1>1. /\ Free("init") /\ UNCHANGED <<oe, aux, saved, claim, seen>>
        /\ disturbed' = (~withOutputs \/ ~Free("web"))
        /\ todo' = [todo EXCEPT !["init"] = <<Session("check")>> \o (IF withOutputs THEN <<Session("apply")>> ELSE <<Session("end")>>)]
    BY DEF configure, chip
  <1>2. todo' = [todo EXCEPT !["init"] = <<Session("check"), e>>] /\ e \in Ends
    BY <1>1, CheckOnto DEF Ends
  <1>3. DOMAIN todo' = Threads /\ todo'["web"] = todo["web"] /\ Staging(todo'["init"], e) /\ todo'["init"] # <<>>
    BY <1>2, TheThreads, Line2 DEF Lines, Staging
  <1>4. Lines'
    BY <1>2, <1>3 DEF Lines, InitLine
  <1>5. OutputTypes' /\ Pins'
    BY <1>1, StillPins DEF OutputTypes
  <1>6. Holding'
    BY <1>1, <1>3, StillHolds, TheThreads DEF Holding
  <1>7. ASSUME ~disturbed' PROVE e = Session("apply") /\ todo["web"] = <<>>
    BY <1>1, <1>7 DEF Free
  <1>8. Truthful'
    BY <1>3, <1>7 DEF Truthful, Free, Untouched, Initializing
  <1> QED  BY <1>4, <1>5, <1>6, <1>8

LEMMA RoutesStep == ASSUME ClockInv, ClockRoutes PROVE ClockInv'
  <1> USE DEF ClockInv
  <1>1. Free("web") /\ UNCHANGED <<oe, aux, saved, claim, seen, phase0>>
    BY DEF ClockRoutes, api_si5332_outputs, api_si5332_output_set, WebRequest, chip
  <1>2. OutputTypes' /\ Pins'
    BY <1>1, StillPins DEF OutputTypes
  <1>3. ~Keeping(todo["web"])
    BY <1>1, Line1, Line2 DEF Free, Keeping
  <1>4. CASE api_si5332_outputs
    <2>1. /\ DOMAIN todo' = Threads /\ todo'["init"] = todo["init"] /\ todo'["web"] = <<Session("read")>>
          /\ disturbed' = disturbed
      BY <1>4, TheThreads DEF api_si5332_outputs, Lines
    <2>2. Lines' /\ Holding'
      BY <1>1, <2>1, StillHolds, TheThreads DEF Lines, WebLine, Holding
    <2>3. Truthful'
      BY <1>1, <1>3, <2>1, SameInitializing DEF Truthful, Free, Reconciled, Untouched
    <2> QED  BY <1>2, <2>2, <2>3
  <1>5. CASE api_si5332_output_set
    <2>1. PICK c \in Outs, enabled \in BOOLEAN :
              /\ todo' = [todo EXCEPT !["web"] = <<Set(c, enabled), Kept>>]
              /\ disturbed' = (disturbed \/ ~Free("init"))
      BY <1>5 DEF api_si5332_output_set
    <2>2. DOMAIN todo' = Threads /\ todo'["init"] = todo["init"] /\ todo'["web"] = <<Set(c, enabled), Kept>>
      BY <2>1, TheThreads DEF Lines
    <2>3. Lines' /\ Holding' /\ Keeping(todo'["web"])
      BY <1>1, <2>2, StillHolds, TheThreads DEF Lines, WebLine, Keeping, Holding
    <2>4. Truthful'
      BY <1>1, <2>1, <2>2, <2>3 DEF Truthful, Free, Reconciled
    <2> QED  BY <1>2, <2>3, <2>4
  <1> QED  BY <1>4, <1>5 DEF ClockRoutes

LEMMA ChipPowerStep == ASSUME ClockInv, ChipPowerCycle PROVE ClockInv'
  <1> USE DEF ClockInv
  <1>1. /\ oe' = {} /\ aux' = [p \in DOMAIN aux |-> 0..7] /\ \A t \in Threads : Free(t)
        /\ phase0' = "none" /\ UNCHANGED <<saved, claim, todo, seen>>
    BY DEF ChipPowerCycle
  <1>2. Pins'
    BY <1>1 DEF Pins, Ports, _AUX_SETTLED
  <1>3. Lines' /\ OutputTypes' /\ Holding'
    BY <1>1 DEF Lines, OutputTypes, Holding
  <1>4. Truthful'
    BY <1>1, TheThreads DEF Truthful, Free, Reconciled
  <1> QED  BY <1>2, <1>3, <1>4

LEMMA IdleChip == ASSUME ClockInv, UNCHANGED clockVars PROVE ClockInv'
  BY DEF ClockInv, clockVars, chip, Lines, OutputTypes, Pins, Holding, Truthful, Free, This_, Reconciled, Untouched,
         Initializing, Repairs, Looping, Setting, SetTo, AsRead

LEMMA ClockWorkStep == ASSUME ClockInv, ClockWork PROVE ClockInv'
  BY BeginStep, BreaksStep, CheckStep, StageStep, ReadStep, SetStep, ApplyStep, DifferStep, ConfiguredStep DEF ClockWork

LEMMA ClockMoves == [NextSystem]_allVars =>
    \/ ClockWork \/ ClockRoutes \/ ChipPowerCycle \/ UNCHANGED clockVars
    \/ \E withOutputs \in BOOLEAN : configure(withOutputs)
  BY DEF NextSystem, allVars, Start, Chip, Configured, Bring, Use, Power, ChipPower

LEMMA ClockInvStep == ClockInv /\ [NextSystem]_allVars => ClockInv'
  BY ClockMoves, ClockWorkStep, RoutesStep, ChipPowerStep, IdleChip, ConfigureStep

LEMMA ClockInductive == SpecSystem => []ClockInv
  <1>1. InitSystem => ClockInv
    BY ClockStarts DEF InitSystem
  <1> QED  BY <1>1, ClockInvStep, PTL DEF SpecSystem

\* A session with the chip finds its expanders' pins settled (_i2c_wake brings them there from
\* wherever a broken-off session left them), and between two requests the saved outputs are the
\* chip's (apply_saved_output_state after every reconfiguration), unless two sessions overlapped
\* or one broke off.
THEOREM SystemChipInOrder == SpecSystem => []ChipInOrder
  BY ClockInductive, ClockSuffices, PTL
-----------------------------------------------------------------------------
RunInitMeasured == {"zero", "swap", "zero_again", "dac_mode_zero", "calib_report", "done"}
ChecklistMeasured == {"master_unlock", "enum", "assign", "board_id_assign", "assign_master", "is_master_assign",
                      "select", "ext_clk_sel"} \cup RunInitMeasured
Measured ==
    faults = 0 /\ ~switched =>
        /\ phase = "ext_clk_freq" /\ good = TRUE => \A d \in Boards : d < at => clocked[d]
        /\ phase \in RunInitMeasured => \A d \in Boards : clocked[d]
        /\ tool = "checklist" /\ phase \in ChecklistMeasured => \A d \in Boards : clocked[d]

LEMMA MeasuredSuffices == Measured => DoneMeansClocked
  BY DEF Measured, DoneMeansClocked, RunInitMeasured

LEMMA MeasureStep ==
    ASSUME IInv, Measured, measure_ext_clk_freq_remote, switched' = IF at = 0 THEN FALSE ELSE switched
    PROVE  Measured'
  <1>0. TypeOK /\ Phasewise
    BY DEF IInv
  <1>1. N \in Nat /\ at \in 0..(N - 1) /\ good \in BOOLEAN /\ phase = "ext_clk_freq" /\ UNCHANGED <<clocked, tool>>
    BY <1>0, BringUpAssumption DEF TypeOK, Boards, measure_ext_clk_freq_remote
  <1>2. ASSUME faults' = 0, ~switched'
        PROVE  faults = 0 /\ (at # 0 => ~switched) /\ \E ok \in {clocked[at], FALSE} : Onward(ok)
    <2>1. faults \in Nat
      BY <1>0, BringUpAssumption DEF TypeOK
    <2>2. ~Fault
      BY <1>2, <2>1 DEF Fault
    <2>3. faults' = faults
      BY <2>2 DEF measure_ext_clk_freq_remote
    <2>4. ASSUME tool = "run_init" PROVE \A e \in Answering(at) : e = at
      <3>1. Past /\ faults = 0
        BY <1>1, <1>2, <2>3, <2>4 DEF Past
      <3>2. index = 0
        BY <1>0, <2>4, <3>1 DEF Phasewise, Displaced
      <3>3. hw[Master].id = index /\ Residue
        BY <1>0, <3>1 DEF Phasewise, Unlocked, Begun
      <3>4. at \in Boards
        BY <1>1 DEF Boards
      <3> QED BY <1>0, <3>2, <3>3, <3>4, HeardAll
    <2>5. Onward(clocked[at]) \/ Onward(FALSE)
      BY <2>2, <2>4 DEF measure_ext_clk_freq_remote
    <2> QED  BY <1>2, <2>3, <2>5
  <1>3. ASSUME faults' = 0, ~switched', NEW ok \in {clocked[at], FALSE}, Onward(ok)
        PROVE  Measured'
    <2>1. good = TRUE => \A d \in Boards : d < at => clocked[d]
      <3>1. CASE at = 0
        BY <3>1 DEF Boards
      <3>2. CASE at # 0
        <4>1. faults = 0 /\ ~switched
          BY <1>2, <1>3, <3>2
        <4> QED  BY <1>1, <4>1 DEF Measured
      <3> QED  BY <3>1, <3>2
    <2>2. CASE at + 1 < N
      <3>1. at' = at + 1 /\ phase' = "ext_clk_freq" /\ (good' = TRUE => good = TRUE /\ clocked[at])
        BY <1>1, <1>3, <2>2 DEF Onward
      <3>2. good' = TRUE => \A d \in Boards : d < at' => clocked[d]
        BY <1>1, <2>1, <3>1 DEF Boards
      <3> QED  BY <1>1, <3>1, <3>2 DEF Measured, RunInitMeasured, ChecklistMeasured
    <2>3. CASE ~(at + 1 < N)
      <3>1. at' = 0 /\ phase' = (IF good /\ ok THEN After(phase) ELSE "failed") /\ phase' # "ext_clk_freq"
        BY <1>1, <1>3, <2>3 DEF Onward, Goto, After
      <3>2. good /\ ok => \A d \in Boards : clocked[d]
        <4>1. \A d \in Boards : d < at \/ d = at
          BY <1>1, <2>3 DEF Boards
        <4>2. ok => clocked[at]
          BY <1>3
        <4>3. good => good = TRUE
          BY <1>1
        <4> QED  BY <2>1, <4>1, <4>2, <4>3
      <3> QED  BY <1>1, <3>1, <3>2 DEF Measured, RunInitMeasured, ChecklistMeasured
    <2> QED  BY <2>2, <2>3
  <1> QED  BY <1>2, <1>3 DEF Measured

\* No other step gets past the measuring, and none gets into the middle of it.
Elsewhere ==
    /\ UNCHANGED <<clocked, tool>> /\ (faults' = 0 => faults = 0)
    /\ phase' = "ext_clk_freq" => at' = 0
    /\ phase' \in RunInitMeasured =>
           phase \in RunInitMeasured \/ (tool = "checklist" /\ phase \in ChecklistMeasured)
    /\ tool = "checklist" /\ phase' \in ChecklistMeasured => phase \in ChecklistMeasured

LEMMA FaultLeft == ASSUME TypeOK, Fault \/ UNCHANGED faults PROVE faults' = 0 => faults = 0
  BY BringUpAssumption DEF TypeOK, Fault

LEMMA ElsewhereStep == ASSUME TypeOK, BringingUp, ~measure_ext_clk_freq_remote PROVE Elsewhere
  <1> USE DEF RunInitMeasured, ChecklistMeasured
  <1>1. tool \in {"run_init", "checklist"}
    BY DEF TypeOK
  <1>2. CASE si5332 \/ master_unlock \/ enum \/ channel_up
    BY <1>1, <1>2 DEF si5332, master_unlock, enum, channel_up, Elsewhere, Goto, After
  <1>3. CASE assign \/ select \/ _write_mode_ramp_zero("zero", "swap") \/ swap
             \/ _write_mode_ramp_zero("zero_again", "dac_mode_zero")
    <2>1. \E S \in SUBSET Boards : Reaches(S, Heard) \/ Reaches(S, Fires)
      BY <1>3 DEF assign, select, _write_mode_ramp_zero, swap
    <2>2. faults' = 0 => faults = 0
      BY <2>1, FaultLeft DEF Reaches
    <2> QED  BY <1>3, <2>2 DEF assign, select, _write_mode_ramp_zero, swap, Elsewhere, Goto
  <1>4. CASE assign_master \/ calib_report
    <2>1. faults' = 0 => faults = 0
      BY <1>4, FaultLeft DEF assign_master, calib_report
    <2> QED  BY <1>4, <2>1 DEF assign_master, calib_report, Elsewhere, Goto
  <1>5. CASE look
    <2>1. faults' = 0 => faults = 0
      BY <1>5, FaultLeft DEF look, _query_board_info, RtBoardInfo
    <2>2. \E ok : Onward(ok)
      BY <1>5 DEF look
    <2>3. phase \in Looks /\ UNCHANGED <<clocked, tool>>
      BY <1>5 DEF look
    <2>4. phase' = phase \/ (at' = 0 /\ phase' \in {After(phase), "failed"})
      BY <2>2 DEF Onward, Goto
    <2> QED  BY <1>1, <2>1, <2>3, <2>4 DEF Elsewhere, Looks, After
  <1> QED  BY <1>2, <1>3, <1>4, <1>5 DEF BringingUp

LEMMA ElsewhereKeeps ==
    ASSUME TypeOK, Measured, Elsewhere, switched' = switched
    PROVE  Measured'
  <1>1. ~\E d \in Boards : d < 0
    BY BringUpAssumption DEF Boards
  <1> QED  BY <1>1 DEF Measured, Elsewhere

LEMMA MeasuredStep == IInv /\ Measured /\ [NextSystem]_allVars => Measured'
  <1> SUFFICES ASSUME IInv, Measured, [NextSystem]_allVars PROVE Measured'
    OBVIOUS
  <1>0. TypeOK
    BY DEF IInv
  <1>1. CASE Start
    BY <1>1 DEF Start, StartInit, Goto, Measured, RunInitMeasured, ChecklistMeasured
  <1>2. CASE Chip
    BY <1>2 DEF Chip, Measured, ringVars
  <1>3. CASE Configured
    <2>1. BringingUp /\ ~measure_ext_clk_freq_remote
      BY <1>3 DEF Configured, BringingUp, si5332, measure_ext_clk_freq_remote
    <2> QED  BY <1>0, <1>3, <2>1, ElsewhereStep, ElsewhereKeeps DEF Configured
  <1>4. CASE Bring /\ measure_ext_clk_freq_remote
    BY <1>4, MeasureStep DEF Bring, measure_ext_clk_freq_remote
  <1>5. CASE Bring /\ ~measure_ext_clk_freq_remote
    <2>1. switched' = switched
      BY <1>5 DEF Bring, BringingUp, measure_ext_clk_freq_remote, si5332, master_unlock, enum, assign, assign_master, select,
              _write_mode_ramp_zero, swap, look, channel_up, calib_report, Looks
    <2> QED  BY <1>0, <1>5, <2>1, ElsewhereStep, ElsewhereKeeps DEF Bring
  <1>6. CASE Use
    BY <1>6 DEF Use, set_dac_mode_ramp, trigger, Resting, Measured, RunInitMeasured, ChecklistMeasured
  <1>7. CASE Power
    BY <1>7 DEF Power, PowerCycle, Goto, Resting, Measured, RunInitMeasured, ChecklistMeasured
  <1>8. CASE ChipPower
    BY <1>8 DEF ChipPower, Measured
  <1>9. CASE UNCHANGED allVars
    BY <1>9 DEF allVars, vars, Measured
  <1> QED  BY <1>1, <1>2, <1>3, <1>4, <1>5, <1>6, <1>7, <1>8, <1>9 DEF NextSystem

\* A bring-up that says done (init_flow.py) without a fault leaves every board with a clock,
\* unless an output was switched after the clocks were measured: what the chip gives is what the
\* phase ext_clk_freq has seen of each board.
THEOREM SystemDoneMeansClocked == SpecSystem => []DoneMeansClocked
  <1>1. InitSystem => Measured
    BY DEF InitSystem, Init, Measured, RunInitMeasured, ChecklistMeasured
  <1>2. SpecSystem => []IInv
    BY SystemImplements, Inductive, PTL
  <1> QED  BY <1>1, <1>2, MeasuredStep, MeasuredSuffices, PTL DEF SpecSystem
=============================================================================
