------------------------------- MODULE Calibration -------------------------------
(***************************************************************************)
(* The AWG Scale/Calib tab: the routes of host/web/app.py that set, read   *)
(* and save the calibration (calib_ctrl.py, flash_ctrl.py), the registers  *)
(* they set, and the flash they save to (flash_config_writer.v,            *)
(* fpga_flash_ctrl.v, flash_startup_loader.v).                             *)
(*                                                                         *)
(* A request is the list of its packets and queries, under _lock; the      *)
(* boards erase, program, lose their power and load their flash meanwhile. *)
(* How a payload gets into words and back is FlashPayload's matter.        *)
(***************************************************************************)
EXTENDS Naturals, Sequences, FiniteSets

CONSTANTS Boards, Values,      \* 0 is the value after power-on
          Erased, Torn, None,
          MaxRequests, MaxFaults   \* bounds of the model

Index == {0, 1}                \* of the 32 coefficients, so many
Coefs == [Index -> Values]
Live == [scale : Values, amp : Values, coef : Coefs]
Default == [scale |-> 0, amp |-> 0, coef |-> [i \in Index |-> 0]]

ASSUME CalibrationAssumption ==
    /\ 0 \in Values /\ Values \subseteq Nat
    /\ MaxRequests \in Nat /\ MaxFaults \in Nat

\* The sectors, in the order the loader reads them.
Sectors == <<"identity", "scale", "amp", "coef">>
Group == {"scale", "amp", "coef"}
Payload(s, v) == [for |-> s, val |-> v]
Payloads == [for : {"scale", "amp"}, val : Values] \cup [for : {"coef"}, val : Coefs]

\* What a sector can be without a payload is none, and neither is what stands for nothing.
ASSUME ContentsAssumption ==
    /\ Erased \notin Payloads /\ Torn \notin Payloads /\ None \notin Boards
    /\ None \notin Values /\ None \notin Coefs

VARIABLES
    live,        \* scale_cfg, amp_ctrl and calib_coef of each board
    flash,       \* flash[d][s]: the payload a sector has
    boot,        \* init_*: what the loader found
    loading,     \* sectors the loader still has to read, Len(Sectors) after power-on
    sel,         \* target_sector_sel
    writer,      \* flash_config_writer: "idle", "erase", "program"
    wbuf,        \* the payload that came last
    done, err,   \* flash_status
    table,       \* the answer table of the master
    job,         \* what the request has still to do
    req,         \* the request that has _lock, or had it last
    shown,       \* the last "calib" event of each board
    requests, faults,
    kept,        \* history: what was saved last, None if that is not certain
    told,        \* history: a register was set after its sector was read, or the sector was not read
    strayed      \* history: sectors that were still selected when the selection of another save was lost

board == <<live, flash, boot, loading, sel, writer, wbuf, done, err>>
history == <<kept, told, strayed>>
vars == <<board, table, job, req, shown, requests, faults, history>>

\* Boards that have been on for a while, their flash as it was delivered.
NoAnswer == [qt |-> "none", live |-> Default, done |-> FALSE, err |-> FALSE]
Init ==
    /\ live = [d \in Boards |-> Default]
    /\ flash = [d \in Boards |-> [s \in Group \cup {"identity"} |-> IF s = "identity" THEN Payload(s, 0) ELSE Erased]]
    /\ boot = [d \in Boards |-> Default] /\ loading = [d \in Boards |-> 0]
    /\ sel = [d \in Boards |-> "identity"] /\ writer = [d \in Boards |-> "idle"]
    /\ wbuf = [d \in Boards |-> None] /\ done = [d \in Boards |-> FALSE] /\ err = [d \in Boards |-> FALSE]
    /\ table = NoAnswer /\ job = <<>>
    /\ req = [d |-> None, save |-> "none", val |-> None, clean |-> TRUE, ok |-> FALSE]
    /\ shown = [d \in Boards |-> None] /\ requests = 0 /\ faults = 0
    /\ kept = [d \in Boards |-> [s \in Group |-> None]]
    /\ told = [d \in Boards |-> [s \in Group |-> FALSE]]
    /\ strayed = [d \in Boards |-> {}]
-----------------------------------------------------------------------------
(***************************************************************************)
(* Packets and queries of the request.                                     *)
(***************************************************************************)
Do(step) == job # <<>> /\ Head(job).do = step
This == Head(job)
Fault == faults < MaxFaults /\ faults' = faults + 1
d0 == req.d

Unread(d, s) == \E j \in (Len(Sectors) + 1 - loading[d])..Len(Sectors) : Sectors[j] = s
Told(k) == told' = IF Unread(d0, k) THEN told ELSE [told EXCEPT ![d0][k] = TRUE]

\* send_pkt: the board takes the packet, or it is lost on the way.  Without its selection a
\* payload goes over the sector that is still selected.
Packet(effect) ==
    /\ job' = Tail(job)
    /\ \/ effect /\ UNCHANGED <<req, faults, strayed>>
       \/ /\ Fault /\ req' = [req EXCEPT !.clean = FALSE] /\ UNCHANGED <<board, told>>
          /\ strayed' = IF Do("select") THEN [strayed EXCEPT ![d0] = @ \cup {sel[d0]}] ELSE strayed
    /\ UNCHANGED <<table, shown, requests, kept>>

set_register ==      \* set_scale_cfg, set_amp_ctrl, set_calib_coef
    /\ Do("set")
    /\ Packet(/\ live' = IF This.k = "coef" THEN [live EXCEPT ![d0].coef[This.i] = This.v]
                         ELSE [live EXCEPT ![d0][This.k] = This.v]
              /\ Told(This.k)
              /\ UNCHANGED <<flash, boot, loading, sel, writer, wbuf, done, err>>)
reset_calib_coef ==
    /\ Do("reset")
    /\ Packet(/\ live' = [live EXCEPT ![d0].coef = Default.coef]
              /\ Told("coef")
              /\ UNCHANGED <<flash, boot, loading, sel, writer, wbuf, done, err>>)
set_flash_target_sel ==
    /\ Do("select")
    /\ Packet(/\ sel' = [sel EXCEPT ![d0] = req.save]
              /\ UNCHANGED <<live, flash, boot, loading, writer, wbuf, done, err, told>>)
\* The writer begins if it is idle and the loader has finished; the last outcome is forgotten.
\* (Variant: it is kept until the next.)
write_flash_payload_keeps ==
    /\ Do("write")
    /\ LET begins == writer[d0] = "idle" /\ loading[d0] = 0 IN
       Packet(/\ wbuf' = [wbuf EXCEPT ![d0] = Payload(req.save, req.val)]
              /\ writer' = IF begins THEN [writer EXCEPT ![d0] = "erase"] ELSE writer
              /\ UNCHANGED <<live, flash, boot, loading, sel, done, err, told>>)
write_flash_payload ==
    /\ Do("write")
    /\ LET begins == writer[d0] = "idle" /\ loading[d0] = 0 IN
       Packet(/\ wbuf' = [wbuf EXCEPT ![d0] = Payload(req.save, req.val)]
              /\ writer' = IF begins THEN [writer EXCEPT ![d0] = "erase"] ELSE writer
              /\ done' = [done EXCEPT ![d0] = @ /\ ~begins] /\ err' = [err EXCEPT ![d0] = @ /\ ~begins]
              /\ UNCHANGED <<live, flash, boot, loading, sel, told>>)

\* read_status_reply: the answer, or what the table held when the answer is late.
Answer(qt) == [qt |-> qt, live |-> IF qt = "calib" THEN live[d0] ELSE boot[d0],
               done |-> done[d0], err |-> err[d0]]
Query(qt, r) ==
    \/ r = Answer(qt) /\ table' = r /\ UNCHANGED faults
    \/ r = table /\ Fault /\ table' \in {table, Answer(qt)}
Late == faults' # faults

\* read_calib and the "calib" event, after a set or alone; an answer of another type is no event.
read_calib ==
    /\ Do("read") /\ job' = Tail(job)
    /\ \E r \in {Answer("calib"), table} :
        /\ Query("calib", r)
        /\ shown' = IF r.qt = "calib" THEN [shown EXCEPT ![d0] = r.live] ELSE shown
        /\ req' = [req EXCEPT !.clean = @ /\ ~Late, !.ok = r.qt = "calib"]
    /\ UNCHANGED <<board, requests, history>>

\* The live value, before it is saved.  An answer of another type ends the request.
read_live ==
    /\ Do("live")
    /\ \E r \in {Answer("calib"), table} :
        /\ Query("calib", r)
        /\ job' = IF r.qt = "calib" THEN Tail(job) ELSE <<>>
        /\ req' = [req EXCEPT !.clean = @ /\ ~Late, !.val = IF r.qt = "calib" THEN r.live[req.save] ELSE None]
    /\ UNCHANGED <<board, shown, requests, history>>

\* Asks until the board says done or err.  A late answer is one of this request, or not of
\* this type, and is passed over.
poll_flash_done ==
    /\ Do("poll")
    /\ \E r \in {Answer("flash"), table} :
        /\ Query("flash", r)
        /\ IF r.qt # "flash" \/ ~(r.err \/ r.done) THEN UNCHANGED <<job, req, kept, strayed>>
           ELSE /\ job' = <<>> /\ req' = [req EXCEPT !.ok = ~r.err]
                /\ IF r.err \/ ~req.clean THEN UNCHANGED <<kept, strayed>>
                   ELSE /\ kept' = [kept EXCEPT ![d0][req.save] = req.val]
                        /\ strayed' = [strayed EXCEPT ![d0] = @ \ {req.save}]
    /\ UNCHANGED <<board, shown, requests, told>>
\* TimeoutError.  Erasing and programming take less than the ten seconds.
Timeout ==
    /\ Do("poll") /\ writer[d0] = "idle" /\ ~done[d0] /\ ~err[d0] /\ job' = <<>>
    /\ UNCHANGED <<board, table, req, shown, requests, faults, history>>

\* A USB transfer raises, and the route answers 400.  What the board has begun it goes on with.
Raise ==
    /\ job # <<>> /\ Fault /\ job' = <<>> /\ req' = [req EXCEPT !.clean = FALSE]
    /\ UNCHANGED <<board, table, shown, requests, history>>
-----------------------------------------------------------------------------
(***************************************************************************)
(* The boards.                                                             *)
(***************************************************************************)
\* The address is looked up when the erase and when the program command is given.
Erase(d) ==
    /\ writer[d] = "erase" /\ writer' = [writer EXCEPT ![d] = "program"]
    /\ flash' = [flash EXCEPT ![d][sel[d]] = Erased]
    /\ UNCHANGED <<live, boot, loading, sel, wbuf, done, err, table, job, req, shown, requests, faults, history>>
Program(d) ==
    /\ writer[d] = "program" /\ writer' = [writer EXCEPT ![d] = "idle"]
    /\ flash' = [flash EXCEPT ![d][sel[d]] = IF @ = Erased THEN wbuf[d] ELSE Torn]
    /\ done' = [done EXCEPT ![d] = TRUE]
    /\ UNCHANGED <<live, boot, loading, sel, wbuf, err, table, job, req, shown, requests, faults, history>>
SpiError(d) ==
    /\ writer[d] # "idle" /\ Fault /\ writer' = [writer EXCEPT ![d] = "idle"]
    /\ flash' = [flash EXCEPT ![d][sel[d]] = Torn] /\ err' = [err EXCEPT ![d] = TRUE]
    /\ UNCHANGED <<live, boot, loading, sel, wbuf, done, table, job, req, shown, requests, history>>

\* Without power a sector being erased or programmed is left as it may.
PowerCycle(d) ==
    /\ Fault
    /\ flash' \in {flash} \cup (IF writer[d] = "idle" THEN {} ELSE {[flash EXCEPT ![d][sel[d]] = Torn]})
    /\ live' = [live EXCEPT ![d] = Default] /\ boot' = [boot EXCEPT ![d] = Default]
    /\ loading' = [loading EXCEPT ![d] = Len(Sectors)] /\ sel' = [sel EXCEPT ![d] = "identity"]
    /\ writer' = [writer EXCEPT ![d] = "idle"] /\ done' = [done EXCEPT ![d] = FALSE]
    /\ err' = [err EXCEPT ![d] = FALSE] /\ wbuf' = [wbuf EXCEPT ![d] = None]
    /\ told' = [told EXCEPT ![d] = [s \in Group |-> FALSE]]
    /\ req' = IF d = d0 THEN [req EXCEPT !.clean = FALSE] ELSE req
    /\ UNCHANGED <<table, job, shown, requests, kept, strayed>>

\* One sector after the other.  There is no checksum: what is left of a sector that was cut
\* off is loaded if its magic is there.  A scale or coefficients set before are replaced.
Read(d) == Sectors[Len(Sectors) + 1 - loading[d]]
\* (Variant: an empty sector ends the loading.)
RemainingIfFull(d) == IF Read(d) # "identity" /\ flash[d][Read(d)] = Erased THEN 0 ELSE loading[d] - 1
Remaining(d) == loading[d] - 1
Load(d) ==
    /\ loading[d] > 0 /\ loading' = [loading EXCEPT ![d] = Remaining(d)]
    /\ \E found \in (IF Read(d) = "identity" \/ flash[d][Read(d)] = Erased THEN {None}
                     ELSE IF flash[d][Read(d)] # Torn /\ flash[d][Read(d)].for = Read(d) THEN {flash[d][Read(d)].val}
                     ELSE {None} \cup (IF Read(d) = "coef" THEN Coefs ELSE Values)) :
        IF found = None THEN UNCHANGED <<live, boot>>
        ELSE live' = [live EXCEPT ![d][Read(d)] = found] /\ boot' = [boot EXCEPT ![d][Read(d)] = found]
    /\ UNCHANGED <<flash, sel, writer, wbuf, done, err, table, job, req, shown, requests, faults, history>>
\* A read that fails ends it; the sectors read before have been taken.  (One of the few loads
\* there are, so it is not counted among the faults.)
LoadFails(d) ==
    /\ loading[d] > 0 /\ loading' = [loading EXCEPT ![d] = 0]
    /\ told' = [told EXCEPT ![d] = [s \in Group |-> TRUE]]
    /\ UNCHANGED <<live, boot, flash, sel, writer, wbuf, done, err, table, job, req, shown, requests, faults, kept, strayed>>
-----------------------------------------------------------------------------
(***************************************************************************)
(* The routes.                                                             *)
(***************************************************************************)
Idle == job = <<>>
\* A request is clean if it meets no fault, and the board is at rest when it begins: a save
\* that raised may have left it erasing.
Request(d, s) ==
    /\ Idle /\ requests < MaxRequests /\ requests' = requests + 1
    /\ req' = [d |-> d, save |-> s, val |-> None, clean |-> writer[d] = "idle" /\ loading[d] = 0, ok |-> FALSE]
    /\ UNCHANGED <<board, table, shown, faults, told, strayed>>

Set(k, i, v) == [do |-> "set", k |-> k, i |-> i, v |-> v]
_reread_calib_and_broadcast == <<[do |-> "read"]>>
Sets(d) == Request(d, "none") /\ UNCHANGED kept

api_board_calib_get == \E d \in Boards : Sets(d) /\ job' = _reread_calib_and_broadcast
api_board_scale_cfg_set == \E d \in Boards, v \in Values :
    Sets(d) /\ job' = <<Set("scale", 0, v)>> \o _reread_calib_and_broadcast
api_board_amp_ctrl_set == \E d \in Boards, v \in Values :
    Sets(d) /\ job' = <<Set("amp", 0, v)>> \o _reread_calib_and_broadcast
\* Channels are set one by one; the model has one value for the eight.
api_board_amp_ctrl_bulk_set == \E d \in Boards, v \in Values :
    Sets(d) /\ job' = <<Set("amp", 0, v)>> \o _reread_calib_and_broadcast
api_board_calib_coef_set == \E d \in Boards, i \in Index, v \in Values :
    Sets(d) /\ job' = <<Set("coef", i, v)>> \o _reread_calib_and_broadcast
api_board_calib_coef_bulk_set == \E d \in Boards, values \in Coefs :
    Sets(d) /\ job' = <<Set("coef", 0, values[0]), Set("coef", 1, values[1])>> \o _reread_calib_and_broadcast
\* (Variant: it is read back first.)
api_board_calib_reset_read == \E d \in Boards : Sets(d) /\ job' = _reread_calib_and_broadcast \o <<[do |-> "reset"]>>
api_board_calib_reset == \E d \in Boards : Sets(d) /\ job' = <<[do |-> "reset"]>> \o _reread_calib_and_broadcast

Save(d, s) ==
    /\ Request(d, s) /\ kept' = [kept EXCEPT ![d][s] = None]
    /\ job' = <<[do |-> "live"], [do |-> "select"], [do |-> "write"], [do |-> "poll"]>>
api_board_scale_cfg_save_flash == \E d \in Boards : Save(d, "scale")
api_board_calib_coef_save_flash == \E d \in Boards : Save(d, "coef")

Route == \/ api_board_calib_get \/ api_board_scale_cfg_set \/ api_board_amp_ctrl_set
         \/ api_board_amp_ctrl_bulk_set \/ api_board_calib_coef_set \/ api_board_calib_coef_bulk_set
         \/ api_board_calib_reset \/ api_board_scale_cfg_save_flash \/ api_board_calib_coef_save_flash
Work == \/ set_register \/ reset_calib_coef \/ set_flash_target_sel \/ write_flash_payload
        \/ read_calib \/ read_live \/ poll_flash_done \/ Timeout
Hardware(d) == Erase(d) \/ Program(d) \/ Load(d)
Mishap(d) == SpiError(d) \/ PowerCycle(d) \/ LoadFails(d)
Next == Route \/ Work \/ Raise \/ \E d \in Boards : Hardware(d) \/ Mishap(d)
Spec == Init /\ [][Next]_vars
-----------------------------------------------------------------------------
TypeOK ==
    /\ live \in [Boards -> Live] /\ boot \in [Boards -> Live] /\ loading \in [Boards -> 0..Len(Sectors)]
    /\ sel \in [Boards -> Group \cup {"identity"}] /\ writer \in [Boards -> {"idle", "erase", "program"}]
    /\ done \in [Boards -> BOOLEAN] /\ err \in [Boards -> BOOLEAN]
    /\ strayed \in [Boards -> SUBSET (Group \cup {"identity"})]
    /\ requests \in 0..MaxRequests /\ faults \in 0..MaxFaults

\* What a save has reported as saved is in the flash of that board, in its sector, until that
\* sector is saved again: other saves, failures, lost packets and losses of power do not touch
\* it, with one exception.  If a later save loses its selection packet, the sector that is
\* still selected may be overwritten (strayed): it then has its payload yet, or is erased or
\* torn, or has what was meant for the other sector.  The sectors that were not selected are
\* safe in that case too.
Overwrote(d, s) == flash[d][s] \in {Erased, Torn} \/ flash[d][s].for # s
SavesSurvive == \A d \in Boards, s \in {"scale", "coef"} :
    kept[d][s] # None => flash[d][s] = Payload(s, kept[d][s]) \/ (s \in strayed[d] /\ Overwrote(d, s))

\* ... and after the next power-on the board has it again: whatever was set before its sector
\* was read is replaced by it, and whether a sector before it is empty does not matter.  (Not
\* if another save's lost selection put the sector at risk: the sectors have one magic, and
\* what is in it then is loaded.)
BootRestores == \A d \in Boards, s \in {"scale", "coef"} :
    kept[d][s] # None /\ s \notin strayed[d] /\ ~Unread(d, s) /\ ~told[d][s] => live[d][s] = kept[d][s]

\* What the tab shows after a request that met no fault is what the board has.
ShownIsLive == Idle /\ req.clean /\ req.ok /\ req.save = "none" => shown[d0] = live[d0]
=============================================================================
