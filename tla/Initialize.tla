------------------------------- MODULE Initialize -------------------------------
(***************************************************************************)
(* Initialize System as a whole: the phases of BringUp, the first two of   *)
(* which run on the clock chip of ClockChip while browsers switch its      *)
(* outputs.  The clock a board has is the output that feeds it.            *)
(***************************************************************************)
EXTENDS BringUp, ClockChip

CONSTANTS Feed,            \* Feed[d]: the output board d is fed from
          MaxOperations    \* bound of the model

ASSUME InitializeAssumption == Feed \in [Boards -> Outs] /\ MaxOperations \in Nat

VARIABLES operations,      \* what the operator has done
          switched         \* history: outputs have been switched since the clocks were measured

allVars == <<vars, clockVars, operations, switched>>

Feeds(c, r, a) == [d \in Boards |-> r = "target" /\ a /\ Feed[d] \in c]
InitSystem ==
    /\ Init /\ ClockInit
    /\ clocked = Feeds(oe, regs, active) /\ operations = 0 /\ switched = FALSE

Operation == operations < MaxOperations /\ operations' = operations + 1

\* api_init, and post_flash_checklist.py, which leaves the saved outputs alone.
Start == /\ Operation /\ \E t \in {"run_init", "checklist"} : StartInit(t) /\ configure(t = "run_init")
         /\ switched' = FALSE
Chip == /\ ClockWork \/ ClockRoutes
        /\ clocked' = Feeds(oe', regs', active') /\ switched' = (switched \/ clocked' # clocked)
        /\ UNCHANGED <<ringVars, operations>>
Configured ==
    /\ phase0 # "none" /\ si5332 /\ (phase' # "failed") = (phase0 = "ok")
    /\ UNCHANGED <<clockVars, operations, switched>>
Bring == /\ phase # "si5332" /\ BringingUp /\ UNCHANGED <<clockVars, operations>>
         /\ switched' = (IF phase = "ext_clk_freq" /\ at = 0 THEN FALSE ELSE switched)
Use == /\ Operation /\ UNCHANGED <<clockVars, switched>>
       /\ \/ \E d \in Boards, v \in {0, 1} : set_dac_mode_ramp(d, v)
          \/ \E S \in SUBSET Boards : trigger(S)
Power == Operation /\ PowerCycle /\ UNCHANGED <<clockVars, switched>>
ChipPower == /\ Operation /\ Resting /\ ChipPowerCycle /\ clocked' = Feeds(oe', regs', active')
             /\ switched' = TRUE /\ UNCHANGED <<ringVars>>

NextSystem == Start \/ Chip \/ Configured \/ Bring \/ Use \/ Power \/ ChipPower
SpecSystem == InitSystem /\ [][NextSystem]_allVars
-----------------------------------------------------------------------------
\* A bring-up that is done and met no fault leaves every board with a clock, unless an
\* output was switched after the clocks were measured.
DoneMeansClocked == phase = "done" /\ faults = 0 /\ ~switched => \A d \in Boards : clocked[d]
=============================================================================
