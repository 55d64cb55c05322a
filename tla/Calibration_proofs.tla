--------------------------- MODULE Calibration_proofs ---------------------------
(***************************************************************************)
(* That a save which is certain stays: SavesSurvive, BootRestores and      *)
(* ShownIsLive, for any boards, values, requests and faults.               *)
(*                                                                         *)
(* The inductive invariant says how far a save has got by the number of    *)
(* steps it still has to go through.  Overwritten is what keeps the other  *)
(* sectors safe: whatever a writer may still erase is not counted as kept, *)
(* or has been noted as strayed, and then the payload is another's.        *)
(* Undisturbed is what makes the outcome that is polled for this save's.   *)
(***************************************************************************)
EXTENDS Calibration, TLAPS

-----------------------------------------------------------------------------
(* The inductive invariant.                                                *)

Fits(s, v) == IF s = "coef" THEN v \in Coefs ELSE v \in Values
Step == [do : {"read", "reset", "live", "select", "write", "poll"}]
        \cup [do : {"set"}, k : {"scale", "amp"}, i : Index, v : Values]
        \cup [do : {"set"}, k : {"coef"}, i : Index, v : Values]
AllSectors == Group \cup {"identity"}
BoardTypes ==
    /\ live \in [Boards -> Live] /\ boot \in [Boards -> Live] /\ loading \in [Boards -> 0..4]
    /\ flash \in [Boards -> [AllSectors -> {Erased, Torn, Payload("identity", 0)} \cup Payloads]]
    /\ sel \in [Boards -> AllSectors] /\ writer \in [Boards -> {"idle", "erase", "program"}]
    /\ wbuf \in [Boards -> {None} \cup Payloads]
    /\ \A d \in Boards : writer[d] # "idle" => wbuf[d] \in Payloads
    /\ done \in [Boards -> BOOLEAN] /\ err \in [Boards -> BOOLEAN]
HostTypes ==
    /\ table \in [qt : {"none", "calib", "flash"}, live : Live, done : BOOLEAN, err : BOOLEAN]
    /\ job \in Seq(Step) /\ faults \in Nat
    /\ req \in [d : Boards \cup {None}, save : {"none", "scale", "coef"}, val : {None} \cup Values \cup Coefs,
                clean : BOOLEAN, ok : BOOLEAN]
    /\ job # <<>> => req.d \in Boards
    /\ shown \in [Boards -> Live \cup {None}]
HistoryTypes ==
    /\ kept \in [Boards -> [Group -> {None} \cup Values \cup Coefs]] /\ told \in [Boards -> [Group -> BOOLEAN]]
    /\ \A d \in Boards, s \in {"scale", "coef"} : kept[d][s] = None \/ Fits(s, kept[d][s])
    /\ strayed \in [Boards -> SUBSET AllSectors]
Types == BoardTypes /\ HostTypes /\ HistoryTypes

\* The steps that are left of a save, and the last one of the other requests.
Saving == req.save # "none"
left == Len(job)
Jobs ==
    /\ Saving =>
        /\ left <= 4
        /\ left >= 1 => job[left].do = "poll"
        /\ left >= 2 => job[left - 1].do = "write"
        /\ left >= 3 => job[left - 2].do = "select"
        /\ left >= 4 => job[left - 3].do = "live"
        /\ left \in 1..3 => Fits(req.save, req.val)
    /\ ~Saving =>
        /\ left >= 1 => job[left].do = "read"
        /\ \A i \in 1..(left - 1) : job[i].do \in {"set", "reset"}

\* Where a writer is at work, or will be, nothing is kept, or the sector is known to be at risk.
AtRisk(d) == kept[d][sel[d]] = None \/ (sel[d] \in strayed[d] /\ wbuf[d].for # sel[d])
Overwritten ==
    /\ \A d \in Boards : writer[d] # "idle" /\ sel[d] \in Group => AtRisk(d)
    /\ Saving /\ left >= 1 => kept[req.d][req.save] = None
    /\ Saving /\ left = 2 => sel[req.d] \in {req.save, "identity"} \cup strayed[req.d]

\* A request without a fault: its board is at rest until the payload has come, and from then
\* on the outcome, on the board or in the table, is that of this payload.
Stored == /\ writer[req.d] = "idle" /\ done[req.d] = TRUE /\ err[req.d] = FALSE
          /\ flash[req.d][req.save] = Payload(req.save, req.val)
Writing ==
    \/ writer[req.d] = "erase" /\ done[req.d] = FALSE /\ err[req.d] = FALSE
    \/ writer[req.d] = "program" /\ done[req.d] = FALSE /\ err[req.d] = FALSE /\ flash[req.d][req.save] = Erased
    \/ Stored
    \/ writer[req.d] = "idle" /\ err[req.d] = TRUE
Polling ==
    /\ wbuf[req.d] = Payload(req.save, req.val) /\ Writing
    /\ table.qt = "flash" /\ table.done = TRUE /\ table.err = FALSE => Stored
Undisturbed ==
    req.clean = TRUE /\ req.d \in Boards =>
        /\ loading[req.d] = 0
        /\ Saving /\ left >= 2 => writer[req.d] = "idle"
        /\ Saving /\ left \in 2..3 => table.qt = "calib"
        /\ Saving /\ left \in 1..3 => req.val = live[req.d][req.save]
        /\ Saving /\ left \in 1..2 => sel[req.d] = req.save
        /\ Saving /\ left = 1 => Polling
Shown == Idle /\ req.clean = TRUE /\ req.ok = TRUE /\ req.save = "none" => req.d \in Boards /\ shown[req.d] = live[req.d]

IInv == Types /\ Jobs /\ Overwritten /\ Undisturbed /\ SavesSurvive /\ BootRestores /\ Shown
-----------------------------------------------------------------------------
(* Payloads, and the steps of a job.                                       *)

LEMMA Defaults == Default \in Live /\ Default.coef \in Coefs
BY CalibrationAssumption DEF Default, Live, Coefs

LEMMA PayloadFits ==
    ASSUME NEW s \in {"scale", "coef"}, NEW v, Fits(s, v)
    PROVE  /\ Payload(s, v) \in Payloads /\ Payload(s, v) # Erased /\ Payload(s, v) # Torn
           /\ Payload(s, v).for = s /\ Payload(s, v).val = v /\ v # None /\ v \in Values \cup Coefs
<1>1. CASE s = "scale"
  BY <1>1, ContentsAssumption DEF Payload, Payloads, Fits
<1>2. CASE s = "coef"
  BY <1>2, ContentsAssumption DEF Payload, Payloads, Fits
<1> QED BY <1>1, <1>2

LEMMA LiveFits ==
    ASSUME NEW l \in Live, NEW s \in {"scale", "coef"}
    PROVE  Fits(s, l[s])
BY DEF Live, Fits

LEMMA NextStep ==
    ASSUME job \in Seq(Step), job # <<>>
    PROVE  /\ left \in Nat \ {0} /\ Head(job) = job[1] /\ Head(job) \in Step
           /\ Tail(job) \in Seq(Step) /\ Len(Tail(job)) = left - 1
           /\ \A i \in 1..(left - 1) : Tail(job)[i] = job[i + 1]
BY DEF left

LEMMA AtStep ==
    ASSUME Types, Jobs, job # <<>>
    PROVE  /\ Saving => /\ left \in 1..4
                        /\ This.do = "live" <=> left = 4
                        /\ This.do = "select" <=> left = 3
                        /\ This.do = "write" <=> left = 2
                        /\ This.do = "poll" <=> left = 1
                        /\ This.do \notin {"set", "reset", "read"}
           /\ ~Saving => /\ This.do \in {"set", "reset", "read"}
                         /\ This.do = "read" <=> left = 1
           /\ req.d \in Boards
<1>1. job \in Seq(Step) /\ req.d \in Boards
  BY DEF Types, HostTypes
<1>2. left \in Nat \ {0} /\ This = job[1]
  BY <1>1, NextStep DEF This
<1>3. CASE Saving
  <2>1. left \in 1..4
    BY <1>2, <1>3 DEF Jobs
  <2>2. CASE left = 1
    BY <1>1, <1>2, <1>3, <2>2 DEF Jobs
  <2>3. CASE left = 2
    BY <1>1, <1>2, <1>3, <2>3 DEF Jobs
  <2>4. CASE left = 3
    BY <1>1, <1>2, <1>3, <2>4 DEF Jobs
  <2>5. CASE left = 4
    BY <1>1, <1>2, <1>3, <2>5 DEF Jobs
  <2> QED BY <1>1, <1>3, <2>1, <2>2, <2>3, <2>4, <2>5
<1>4. CASE ~Saving
  <2>1. CASE left = 1
    BY <1>1, <1>2, <1>4, <2>1 DEF Jobs
  <2>2. CASE left # 1
    BY <1>1, <1>2, <1>4, <2>2 DEF Jobs
  <2> QED BY <1>1, <1>4, <2>1, <2>2
<1> QED BY <1>3, <1>4

\* The next step of the job is done, or the job is over.
LEMMA Advanced ==
    ASSUME job \in Seq(Step), job # <<>>, job' = Tail(job)
    PROVE  /\ left \in Nat \ {0} /\ left' = left - 1 /\ left' \in Nat /\ job' \in Seq(Step)
           /\ \A i \in 1..(left - 1) : job'[i] = job[i + 1]
BY NextStep DEF left

LEMMA JobsKept ==
    ASSUME Jobs, left \in Nat \ {0}, left' = left - 1, left' \in Nat,
           \A i \in 1..(left - 1) : job'[i] = job[i + 1],
           req'.save = req.save, Saving /\ left' \in 1..3 => Fits(req'.save, req'.val)
    PROVE  Jobs'
<1>1. Saving' <=> Saving
  BY DEF Saving
<1>2. CASE Saving
  <2>1. left \in 1..4
    BY <1>2 DEF Jobs
  <2>2. CASE left = 1
    BY <1>1, <1>2, <2>2 DEF Jobs
  <2>3. CASE left = 2
    <3>1. left' = 1 /\ job'[1] = job[2]
      BY <2>3
    <3> QED BY <1>1, <1>2, <2>3, <3>1 DEF Jobs
  <2>4. CASE left = 3
    <3>1. left' = 2 /\ job'[1] = job[2] /\ job'[2] = job[3]
      BY <2>4
    <3> QED BY <1>1, <1>2, <2>4, <3>1 DEF Jobs
  <2>5. CASE left = 4
    <3>1. left' = 3 /\ job'[1] = job[2] /\ job'[2] = job[3] /\ job'[3] = job[4]
      BY <2>5
    <3> QED BY <1>1, <1>2, <2>5, <3>1 DEF Jobs
  <2> QED BY <2>1, <2>2, <2>3, <2>4, <2>5
<1>3. CASE ~Saving
  <2>1. left' >= 1 => job'[left'] = job[left]
    OBVIOUS
  <2>2. \A i \in 1..(left' - 1) : job'[i] = job[i + 1] /\ i + 1 \in 1..(left - 1)
    OBVIOUS
  <2> QED BY <1>1, <1>3, <2>1, <2>2 DEF Jobs
<1> QED BY <1>2, <1>3

LEMMA JobsTail ==
    ASSUME Types, Jobs, job # <<>>, job' = Tail(job), req'.save = req.save,
           Saving /\ left' \in 1..3 => Fits(req'.save, req'.val)
    PROVE  Jobs' /\ left' = left - 1 /\ left' \in Nat /\ job' \in Seq(Step)
<1>1. job \in Seq(Step)
  BY DEF Types, HostTypes
<1> QED BY <1>1, Advanced, JobsKept

LEMMA JobsOver ==
    ASSUME job' = <<>>
    PROVE  Jobs' /\ left' = 0 /\ job' \in Seq(Step)
<1>1. left' = 0 /\ job' \in Seq(Step)
  BY DEF left
<1> QED BY <1>1 DEF Jobs

LEMMA MoreLeft == left' # 0 => job' # <<>>
BY DEF left
-----------------------------------------------------------------------------
(* What stays as it was.                                                   *)

LEMMA Unreads ==
    ASSUME NEW d \in Boards, loading[d] \in 0..4
    PROVE  /\ Unread(d, "scale") <=> loading[d] \in 3..4
           /\ Unread(d, "coef") <=> loading[d] \in 1..4
<1>1. Sectors[1] = "identity" /\ Sectors[2] = "scale" /\ Sectors[3] = "amp" /\ Sectors[4] = "coef" /\ Len(Sectors) = 4
  BY DEF Sectors
<1>2. Unread(d, "scale") <=> \E j \in (5 - loading[d])..4 : Sectors[j] = "scale"
  BY <1>1 DEF Unread
<1>3. Unread(d, "coef") <=> \E j \in (5 - loading[d])..4 : Sectors[j] = "coef"
  BY <1>1 DEF Unread
<1>4. \A j \in 1..4 : /\ Sectors[j] = "scale" <=> j = 2
                      /\ Sectors[j] = "coef" <=> j = 4
  <2>1. \A j \in 1..4 : j = 1 \/ j = 2 \/ j = 3 \/ j = 4
    OBVIOUS
  <2> QED BY <1>1, <2>1
<1>5. Unread(d, "scale") <=> 2 \in (5 - loading[d])..4
  BY <1>2, <1>4
<1>6. Unread(d, "coef") <=> 4 \in (5 - loading[d])..4
  BY <1>3, <1>4
<1> QED BY <1>5, <1>6

LEMMA BoardSame == ASSUME BoardTypes, UNCHANGED board PROVE BoardTypes'
BY DEF BoardTypes, board

LEMMA HistorySame == ASSUME HistoryTypes, UNCHANGED history PROVE HistoryTypes'
BY DEF HistoryTypes, history

LEMMA SavesSame == ASSUME SavesSurvive, UNCHANGED <<flash, kept, strayed>> PROVE SavesSurvive'
BY DEF SavesSurvive, Overwrote

LEMMA BootSame == ASSUME BootRestores, UNCHANGED <<live, loading, kept, told, strayed>> PROVE BootRestores'
BY DEF BootRestores, Unread

LEMMA OverwrittenOver ==
    ASSUME Overwritten, UNCHANGED <<writer, sel, wbuf, kept, strayed>>, left' = 0 \/ ~Saving'
    PROVE  Overwritten'
BY DEF Overwritten, AtRisk

\* A fault is noted, or the request is not a save any more.
LEMMA UndisturbedOver ==
    ASSUME Undisturbed, UNCHANGED <<loading, writer>>, req'.d = req.d,
           req'.clean = TRUE => req.clean = TRUE /\ (left' = 0 \/ ~Saving')
    PROVE  Undisturbed'
BY DEF Undisturbed

\* Undisturbed, number by number.
LEMMA AtRest ==
    ASSUME Undisturbed, req.clean = TRUE, req.d \in Boards
    PROVE  /\ loading[req.d] = 0
           /\ Saving /\ left = 4 => writer[req.d] = "idle"
           /\ Saving /\ left = 3 => /\ writer[req.d] = "idle" /\ table.qt = "calib"
                                   /\ req.val = live[req.d][req.save]
           /\ Saving /\ left = 2 => /\ writer[req.d] = "idle" /\ table.qt = "calib"
                                   /\ req.val = live[req.d][req.save] /\ sel[req.d] = req.save
           /\ Saving /\ left = 1 => /\ req.val = live[req.d][req.save] /\ sel[req.d] = req.save
                                   /\ Polling
BY DEF Undisturbed

\* The same, for the steps a save goes to.
RestPending == loading[req.d] = 0 /\ writer[req.d] = "idle" /\ table.qt = "calib" /\ req.val = live[req.d][req.save]
LEMMA RestSelect ==
    ASSUME left' = 3, req'.clean = TRUE => RestPending'
    PROVE  Undisturbed'
BY DEF Undisturbed, RestPending

LEMMA RestWrite ==
    ASSUME left' = 2, req'.clean = TRUE => RestPending' /\ sel'[req'.d] = req'.save
    PROVE  Undisturbed'
BY DEF Undisturbed, RestPending

LEMMA RestPoll ==
    ASSUME left' = 1,
           req'.clean = TRUE => /\ loading'[req'.d] = 0 /\ req'.val = live'[req'.d][req'.save]
                               /\ sel'[req'.d] = req'.save /\ Polling'
    PROVE  Undisturbed'
BY DEF Undisturbed

LEMMA Faulty ==
    ASSUME HostTypes, req' = [req EXCEPT !.clean = FALSE]
    PROVE  /\ req'.d = req.d /\ req'.save = req.save /\ req'.val = req.val /\ req'.ok = req.ok
           /\ req'.clean = FALSE /\ (Saving' <=> Saving)
           /\ req' \in [d : Boards \cup {None}, save : {"none", "scale", "coef"},
                        val : {None} \cup Values \cup Coefs, clean : BOOLEAN, ok : BOOLEAN]
BY DEF HostTypes, Saving
-----------------------------------------------------------------------------
(* The packets.                                                            *)

\* A register is set, or not: the job goes on, to what is read back.
LEMMA SettingStep ==
    ASSUME IInv, job # <<>>, job' = Tail(job), ~Saving, left # 1,
           UNCHANGED <<table, shown, flash, boot, loading, sel, writer, wbuf, done, err, kept, strayed>>,
           NEW k \in Group,
           \/ /\ UNCHANGED <<req, faults>> /\ live' \in [Boards -> Live]
              /\ \A d \in Boards : d # req.d => live'[d] = live[d]
              /\ \A s \in Group : s # k => live'[req.d][s] = live[req.d][s]
              /\ told' = IF Unread(req.d, k) THEN told ELSE [told EXCEPT ![req.d][k] = TRUE]
           \/ /\ req' = [req EXCEPT !.clean = FALSE] /\ faults' = faults + 1 /\ UNCHANGED <<live, told>>
    PROVE  IInv'
<1>1. Types /\ Jobs /\ Overwritten /\ Undisturbed /\ SavesSurvive /\ BootRestores /\ Shown
      /\ BoardTypes /\ HostTypes /\ HistoryTypes /\ job \in Seq(Step) /\ req.d \in Boards
  BY DEF IInv, Types, HostTypes
<1>2. /\ req'.d = req.d /\ req'.save = req.save /\ req'.val = req.val
      /\ req'.clean = TRUE => req.clean = TRUE
      /\ req' \in [d : Boards \cup {None}, save : {"none", "scale", "coef"},
                   val : {None} \cup Values \cup Coefs, clean : BOOLEAN, ok : BOOLEAN]
      /\ faults' \in Nat
  <2>1. CASE UNCHANGED <<req, faults>>
    BY <1>1, <2>1 DEF HostTypes
  <2>2. CASE req' = [req EXCEPT !.clean = FALSE] /\ faults' = faults + 1
    BY <1>1, <2>2, Faulty DEF HostTypes
  <2> QED BY <2>1, <2>2
<1>3. ~Saving'
  BY <1>2 DEF Saving
<1>4. Jobs' /\ left' = left - 1 /\ left \in Nat \ {0} /\ job' \in Seq(Step)
  BY <1>1, <1>2, JobsTail, NextStep
<1>5. job' # <<>>
  BY <1>4, MoreLeft
<1>6. live' \in [Boards -> Live] /\ told' \in [Boards -> [Group -> BOOLEAN]]
  <2>1. live \in [Boards -> Live] /\ told \in [Boards -> [Group -> BOOLEAN]]
    BY <1>1 DEF BoardTypes, HistoryTypes
  <2>2. [told EXCEPT ![req.d][k] = TRUE] \in [Boards -> [Group -> BOOLEAN]]
    BY <1>1, <2>1
  <2> QED BY <2>1, <2>2
<1>7. Types'
  <2>1. BoardTypes'
    BY <1>1, <1>6 DEF BoardTypes
  <2>2. HostTypes'
    BY <1>1, <1>2, <1>4 DEF HostTypes
  <2>3. HistoryTypes'
    BY <1>1, <1>6 DEF HistoryTypes
  <2> QED BY <2>1, <2>2, <2>3 DEF Types
<1>8. Overwritten'
  BY <1>1, <1>3, OverwrittenOver
<1>9. Undisturbed'
  BY <1>1, <1>2, <1>3, UndisturbedOver
<1>10. SavesSurvive'
  BY <1>1, SavesSame
<1>11. BootRestores'
  <2>1. CASE UNCHANGED <<live, told>>
    BY <1>1, <2>1, BootSame
  <2>2. CASE /\ \A d \in Boards : d # req.d => live'[d] = live[d]
             /\ \A s \in Group : s # k => live'[req.d][s] = live[req.d][s]
             /\ told' = IF Unread(req.d, k) THEN told ELSE [told EXCEPT ![req.d][k] = TRUE]
    <3> SUFFICES ASSUME NEW d \in Boards, NEW s \in {"scale", "coef"},
                        kept[d][s] # None, s \notin strayed[d], ~Unread(d, s), ~told'[d][s]
                 PROVE  live'[d][s] = kept[d][s]
      BY <1>1 DEF BootRestores, Unread
    <3>1. s \in Group /\ told \in [Boards -> [Group -> BOOLEAN]]
      BY <1>1 DEF Group, HistoryTypes
    <3>2. CASE d = req.d /\ s = k
      BY <1>1, <2>2, <3>1, <3>2
    <3>3. CASE d # req.d \/ s # k
      <4>1. ~told[d][s]
        BY <1>1, <2>2, <3>1, <3>3
      <4>2. live'[d][s] = live[d][s]
        BY <1>1, <2>2, <3>1, <3>3
      <4> QED BY <1>1, <4>1, <4>2 DEF BootRestores
    <3> QED BY <3>2, <3>3
  <2> QED BY <2>1, <2>2
<1>12. Shown'
  BY <1>5 DEF Shown, Idle
<1> QED BY <1>4, <1>7, <1>8, <1>9, <1>10, <1>11, <1>12 DEF IInv

LEMMA SetTypes ==
    ASSUME IInv, job # <<>>, This.do = "set"
    PROVE  /\ This.k \in Group /\ This.v \in Values
           /\ This.k = "coef" => This.i \in Index
<1>1. This \in Step
  BY NextStep DEF IInv, Types, HostTypes, This
<1> QED BY <1>1 DEF Step, Group

LEMMA SetRegisterStep == ASSUME IInv, set_register PROVE IInv'
<1>1. job # <<>> /\ This.do = "set"
  BY DEF set_register, Do, This
<1>2. ~Saving /\ left # 1 /\ req.d \in Boards
  BY <1>1, AtStep DEF IInv
<1>3. /\ job' = Tail(job)
      /\ UNCHANGED <<table, shown, flash, boot, loading, sel, writer, wbuf, done, err, kept, strayed>>
  BY <1>1 DEF set_register, Packet, Do, This, board
<1>4. CASE /\ live' = IF This.k = "coef" THEN [live EXCEPT ![req.d].coef[This.i] = This.v]
                      ELSE [live EXCEPT ![req.d][This.k] = This.v]
           /\ told' = (IF Unread(req.d, This.k) THEN told ELSE [told EXCEPT ![req.d][This.k] = TRUE])
           /\ UNCHANGED <<req, faults>>
  <2>1. live \in [Boards -> Live]
    BY DEF IInv, Types, BoardTypes
  <2>2. CASE This.k = "coef"
    <3>1. live' = [live EXCEPT ![req.d].coef[This.i] = This.v] /\ This.i \in Index /\ This.v \in Values
      BY <1>1, <1>4, <2>2, SetTypes
    <3>2. live[req.d] \in Live /\ live[req.d].coef \in Coefs
      BY <1>2, <2>1 DEF Live
    <3>3. [live[req.d].coef EXCEPT ![This.i] = This.v] \in Coefs
      BY <3>1, <3>2 DEF Coefs
    <3>4. live' = [live EXCEPT ![req.d] = [live[req.d] EXCEPT !.coef = [live[req.d].coef EXCEPT ![This.i] = This.v]]]
      BY <3>1
    <3>5. live' \in [Boards -> Live] /\ \A d \in Boards : d # req.d => live'[d] = live[d]
      BY <1>2, <2>1, <3>2, <3>3, <3>4 DEF Live
    <3>6. live'[req.d].scale = live[req.d].scale /\ live'[req.d].amp = live[req.d].amp
      BY <1>2, <2>1, <3>2, <3>4 DEF Live
    <3> QED BY <1>1, <1>2, <1>3, <1>4, <2>2, <3>5, <3>6, SettingStep DEF Group
  <2>3. CASE This.k # "coef"
    <3>1. This.k \in {"scale", "amp"} /\ This.v \in Values
      BY <1>1, <2>3, SetTypes DEF Group
    <3>2. live' = [live EXCEPT ![req.d] = [live[req.d] EXCEPT ![This.k] = This.v]]
      BY <1>4, <2>3
    <3>3. [live[req.d] EXCEPT ![This.k] = This.v] \in Live
      BY <1>2, <2>1, <3>1 DEF Live
    <3>4. live' \in [Boards -> Live] /\ \A d \in Boards : d # req.d => live'[d] = live[d]
      BY <1>2, <2>1, <3>2, <3>3
    <3>5. \A s \in Group : s # This.k => live'[req.d][s] = live[req.d][s]
      BY <1>2, <2>1, <3>2 DEF Live, Group
    <3> QED BY <1>1, <1>2, <1>3, <1>4, <3>1, <3>4, <3>5, SettingStep DEF Group
  <2> QED BY <2>2, <2>3
<1>5. CASE req' = [req EXCEPT !.clean = FALSE] /\ faults' = faults + 1 /\ UNCHANGED <<live, told>>
  BY <1>1, <1>2, <1>3, <1>5, SetTypes, SettingStep
<1> QED BY <1>1, <1>4, <1>5 DEF set_register, Packet, Fault, board, Told, d0

LEMMA ResetStep == ASSUME IInv, reset_calib_coef PROVE IInv'
<1>1. job # <<>> /\ This.do = "reset"
  BY DEF reset_calib_coef, Do, This
<1>2. ~Saving /\ left # 1 /\ req.d \in Boards
  BY <1>1, AtStep DEF IInv
<1>3. /\ job' = Tail(job) /\ "coef" \in Group
      /\ UNCHANGED <<table, shown, flash, boot, loading, sel, writer, wbuf, done, err, kept, strayed>>
  BY <1>1 DEF reset_calib_coef, Packet, Do, This, board, Group
<1>4. CASE /\ live' = [live EXCEPT ![req.d].coef = Default.coef]
           /\ told' = (IF Unread(req.d, "coef") THEN told ELSE [told EXCEPT ![req.d]["coef"] = TRUE])
           /\ UNCHANGED <<req, faults>>
  <2>1. live \in [Boards -> Live]
    BY DEF IInv, Types, BoardTypes
  <2>2. live' = [live EXCEPT ![req.d] = [live[req.d] EXCEPT !.coef = Default.coef]]
    BY <1>4
  <2>3. live' \in [Boards -> Live] /\ \A d \in Boards : d # req.d => live'[d] = live[d]
    BY <1>2, <2>1, <2>2, Defaults DEF Live
  <2>4. \A s \in Group : s # "coef" => live'[req.d][s] = live[req.d][s]
    BY <1>2, <2>1, <2>2 DEF Live, Group
  <2> QED BY <1>1, <1>2, <1>3, <1>4, <2>3, <2>4, SettingStep
<1>5. CASE req' = [req EXCEPT !.clean = FALSE] /\ faults' = faults + 1 /\ UNCHANGED <<live, told>>
  BY <1>1, <1>2, <1>3, <1>5, SettingStep
<1> QED BY <1>1, <1>4, <1>5 DEF reset_calib_coef, Packet, Fault, board, Told, d0

\* What an invariant of a step is made of, once more as names.
LEMMA Parts ==
    ASSUME IInv
    PROVE  /\ Types /\ Jobs /\ Overwritten /\ Undisturbed /\ SavesSurvive /\ BootRestores /\ Shown
           /\ BoardTypes /\ HostTypes /\ HistoryTypes
BY DEF IInv, Types

LEMMA SelectStep == ASSUME IInv, set_flash_target_sel PROVE IInv'
<1>1. job # <<>> /\ This.do = "select" /\ Do("select")
  BY DEF set_flash_target_sel, Do, This
<1>2. Saving /\ left = 3 /\ req.d \in Boards
  BY <1>1, AtStep, Parts
<1>3. /\ job' = Tail(job)
      /\ UNCHANGED <<table, shown, live, flash, boot, loading, writer, wbuf, done, err, told, kept>>
  BY DEF set_flash_target_sel, Packet, board
<1>4. req.save \in {"scale", "coef"} /\ req.save \in Group /\ req.save # "identity" /\ req.save \in AllSectors
  BY <1>2, Parts DEF HostTypes, Saving, Group, AllSectors
<1>5. Fits(req.save, req.val)
  BY <1>2, Parts DEF Jobs
<1>6. CASE sel' = [sel EXCEPT ![req.d] = req.save] /\ UNCHANGED <<req, faults, strayed>>
  <2>1. Jobs' /\ left' = 2 /\ job' \in Seq(Step) /\ Saving'
    BY <1>1, <1>2, <1>3, <1>5, <1>6, Parts, JobsTail DEF Saving
  <2>2. BoardTypes'
    BY <1>2, <1>3, <1>4, <1>6, Parts DEF BoardTypes
  <2>3. Types'
    BY <1>2, <1>3, <1>6, <2>1, <2>2, Parts, HistorySame DEF Types, HostTypes, history
  <2>4. Overwritten'
    <3>1. sel'[req.d] = req.save /\ \A d \in Boards : d # req.d => sel'[d] = sel[d]
      BY <1>2, <1>6, Parts DEF BoardTypes
    <3>2. kept[req.d][req.save] = None
      BY <1>2, Parts DEF Overwritten
    <3>3. ASSUME NEW d \in Boards, writer[d] # "idle", sel'[d] \in Group
          PROVE  kept[d][sel'[d]] = None \/ (sel'[d] \in strayed[d] /\ wbuf[d].for # sel'[d])
      BY <3>1, <3>2, <3>3, Parts DEF Overwritten, AtRisk
    <3> QED BY <1>2, <1>3, <1>6, <2>1, <3>1, <3>2, <3>3 DEF Overwritten, AtRisk
  <2>5. Undisturbed'
    <3>1. sel'[req.d] = req.save
      BY <1>2, <1>6, Parts DEF BoardTypes
    <3>2. req.clean = TRUE => /\ loading[req.d] = 0 /\ writer[req.d] = "idle" /\ table.qt = "calib"
                              /\ req.val = live[req.d][req.save]
      BY <1>2, Parts, AtRest
    <3>3. req'.clean = TRUE => RestPending' /\ sel'[req'.d] = req'.save
      BY <1>3, <1>6, <3>1, <3>2 DEF RestPending
    <3> QED BY <2>1, <3>3, RestWrite
  <2>6. SavesSurvive' /\ BootRestores'
    BY <1>3, <1>6, Parts, SavesSame, BootSame
  <2>7. Shown'
    BY <2>1, MoreLeft DEF Shown, Idle
  <2> QED BY <2>1, <2>3, <2>4, <2>5, <2>6, <2>7 DEF IInv
<1>7. CASE /\ req' = [req EXCEPT !.clean = FALSE] /\ faults' = faults + 1 /\ UNCHANGED sel
           /\ strayed' = [strayed EXCEPT ![req.d] = @ \cup {sel[req.d]}]
  <2>1. /\ req'.d = req.d /\ req'.save = req.save /\ req'.val = req.val /\ req'.clean = FALSE
        /\ req' \in [d : Boards \cup {None}, save : {"none", "scale", "coef"},
                     val : {None} \cup Values \cup Coefs, clean : BOOLEAN, ok : BOOLEAN]
    BY <1>7, Parts, Faulty
  <2>2. Jobs' /\ left' = 2 /\ job' \in Seq(Step) /\ Saving'
    BY <1>1, <1>2, <1>3, <1>5, <2>1, Parts, JobsTail DEF Saving
  <2>3. /\ strayed' \in [Boards -> SUBSET AllSectors] /\ sel[req.d] \in strayed'[req.d]
        /\ \A d \in Boards : strayed[d] \subseteq strayed'[d]
    <3>1. strayed \in [Boards -> SUBSET AllSectors] /\ sel[req.d] \in AllSectors
      BY <1>2, Parts DEF HistoryTypes, BoardTypes
    <3> QED BY <1>2, <1>7, <3>1
  <2>5. Types'
    <3>1. BoardTypes'
      BY <1>3, <1>7, Parts, BoardSame DEF board
    <3>2. HostTypes'
      BY <1>2, <1>3, <1>7, <2>1, <2>2, Parts DEF HostTypes
    <3>3. HistoryTypes'
      BY <1>3, <2>3, Parts DEF HistoryTypes
    <3> QED BY <3>1, <3>2, <3>3 DEF Types
  <2>6. Overwritten'
    <3>1. sel[req.d] \in {req.save, "identity"} \cup strayed'[req.d]
      BY <2>3
    <3>2. kept[req.d][req.save] = None
      BY <1>2, Parts DEF Overwritten
    <3>3. ASSUME NEW d \in Boards, writer[d] # "idle", sel[d] \in Group
          PROVE  kept[d][sel[d]] = None \/ (sel[d] \in strayed'[d] /\ wbuf[d].for # sel[d])
      BY <2>3, <3>3, Parts DEF Overwritten, AtRisk
    <3> QED BY <1>3, <1>7, <2>1, <3>1, <3>2, <3>3 DEF Overwritten, AtRisk
  <2>7. Undisturbed'
    BY <2>1 DEF Undisturbed
  <2>8. SavesSurvive' /\ BootRestores'
    BY <1>3, <2>3, Parts DEF SavesSurvive, BootRestores, Unread, Overwrote
  <2>9. Shown'
    BY <2>2, MoreLeft DEF Shown, Idle
  <2> QED BY <2>2, <2>5, <2>6, <2>7, <2>8, <2>9 DEF IInv
<1> QED BY <1>1, <1>6, <1>7 DEF set_flash_target_sel, Packet, Fault, board, d0

LEMMA WriteStep == ASSUME IInv, write_flash_payload PROVE IInv'
<1> DEFINE begins == writer[req.d] = "idle" /\ loading[req.d] = 0
<1>1. job # <<>> /\ This.do = "write" /\ ~Do("select")
  BY DEF write_flash_payload, Do, This
<1>2. Saving /\ left = 2 /\ req.d \in Boards
  BY <1>1, AtStep, Parts
<1>3. /\ job' = Tail(job) /\ UNCHANGED <<table, shown, live, flash, boot, loading, sel, kept, told, strayed>>
  BY <1>1 DEF write_flash_payload, Packet, board
<1>4. req.save \in {"scale", "coef"} /\ req.save \in Group
  BY <1>2, Parts DEF HostTypes, Saving, Group
<1>5. Fits(req.save, req.val) /\ Payload(req.save, req.val) \in Payloads
  BY <1>2, <1>4, Parts, PayloadFits DEF Jobs
<1>6. SavesSurvive' /\ BootRestores'
  BY <1>3, Parts, SavesSame, BootSame
<1>7. CASE /\ wbuf' = [wbuf EXCEPT ![req.d] = Payload(req.save, req.val)]
           /\ writer' = (IF begins THEN [writer EXCEPT ![req.d] = "erase"] ELSE writer)
           /\ done' = [done EXCEPT ![req.d] = @ /\ ~begins] /\ err' = [err EXCEPT ![req.d] = @ /\ ~begins]
           /\ UNCHANGED <<req, faults>>
  <2>1. Jobs' /\ left' = 1 /\ job' \in Seq(Step) /\ Saving'
    BY <1>1, <1>2, <1>3, <1>5, <1>7, Parts, JobsTail DEF Saving
  <2>2. /\ wbuf' \in [Boards -> {None} \cup Payloads] /\ wbuf'[req.d] = Payload(req.save, req.val)
        /\ \A d \in Boards : d # req.d => wbuf'[d] = wbuf[d]
    BY <1>2, <1>5, <1>7, Parts DEF BoardTypes
  <2>3. /\ writer' \in [Boards -> {"idle", "erase", "program"}]
        /\ begins => writer'[req.d] = "erase"
        /\ \A d \in Boards : writer'[d] = writer[d] \/ (d = req.d /\ begins)
    BY <1>2, <1>7, Parts DEF BoardTypes
  <2>4. /\ done' \in [Boards -> BOOLEAN] /\ err' \in [Boards -> BOOLEAN]
        /\ begins => done'[req.d] = FALSE /\ err'[req.d] = FALSE
    BY <1>2, <1>7, Parts DEF BoardTypes
  <2>5. BoardTypes'
    BY <1>3, <1>5, <2>2, <2>3, <2>4, Parts DEF BoardTypes
  <2>6. Types'
    BY <1>2, <1>3, <1>7, <2>1, <2>5, Parts, HistorySame DEF Types, HostTypes, history
  <2>7. Overwritten'
    <3>1. kept[req.d][req.save] = None /\ sel[req.d] \in {req.save, "identity"} \cup strayed[req.d]
      BY <1>2, Parts DEF Overwritten
    <3>2. wbuf'[req.d].for = req.save
      BY <1>4, <1>5, <2>2, <1>2, Parts, PayloadFits DEF Jobs
    <3>3. sel[req.d] \in Group => kept[req.d][sel[req.d]] = None
                               \/ (sel[req.d] \in strayed[req.d] /\ wbuf'[req.d].for # sel[req.d])
      BY <3>1, <3>2 DEF Group
    <3>4. ASSUME NEW d \in Boards, writer'[d] # "idle", sel[d] \in Group
          PROVE  kept[d][sel[d]] = None \/ (sel[d] \in strayed[d] /\ wbuf'[d].for # sel[d])
      <4>1. CASE d = req.d
        BY <3>3, <3>4, <4>1
      <4>2. CASE d # req.d
        BY <2>2, <2>3, <3>4, <4>2, Parts DEF Overwritten, AtRisk
      <4> QED BY <4>1, <4>2
    <3> QED BY <1>3, <1>7, <2>1, <3>1, <3>4 DEF Overwritten, AtRisk
  <2>8. Undisturbed'
    <3>1. SUFFICES ASSUME req.clean = TRUE
                   PROVE  /\ loading[req.d] = 0 /\ req.val = live[req.d][req.save] /\ sel[req.d] = req.save
                          /\ Polling'
      <4>1. req'.clean = TRUE =>
                /\ loading'[req'.d] = 0 /\ req'.val = live'[req'.d][req'.save]
                /\ sel'[req'.d] = req'.save /\ Polling'
        BY <1>3, <1>7, <3>1
      <4> QED BY <2>1, <4>1, RestPoll
    <3>2. begins /\ req.val = live[req.d][req.save] /\ sel[req.d] = req.save /\ table.qt = "calib"
      BY <1>2, <3>1, Parts, AtRest
    <3>3. wbuf'[req'.d] = Payload(req'.save, req'.val) /\ table'.qt # "flash"
      BY <1>3, <1>7, <2>2, <3>2
    <3>4. writer'[req'.d] = "erase" /\ done'[req'.d] = FALSE /\ err'[req'.d] = FALSE
      BY <1>7, <2>3, <2>4, <3>2
    <3>5. Polling'
      BY <3>3, <3>4 DEF Polling, Writing
    <3> QED BY <3>2, <3>5
  <2>9. Shown'
    BY <2>1, MoreLeft DEF Shown, Idle
  <2> QED BY <1>6, <2>1, <2>6, <2>7, <2>8, <2>9 DEF IInv
<1>8. CASE req' = [req EXCEPT !.clean = FALSE] /\ faults' = faults + 1 /\ UNCHANGED <<writer, wbuf, done, err>>
  <2>1. /\ req'.d = req.d /\ req'.save = req.save /\ req'.val = req.val /\ req'.clean = FALSE
        /\ req' \in [d : Boards \cup {None}, save : {"none", "scale", "coef"},
                     val : {None} \cup Values \cup Coefs, clean : BOOLEAN, ok : BOOLEAN]
    BY <1>8, Parts, Faulty
  <2>2. Jobs' /\ left' = 1 /\ job' \in Seq(Step) /\ Saving'
    BY <1>1, <1>2, <1>3, <1>5, <2>1, Parts, JobsTail DEF Saving
  <2>3. Types'
    <3>1. BoardTypes' /\ HistoryTypes'
      BY <1>3, <1>8, Parts, BoardSame, HistorySame DEF board, history
    <3>2. HostTypes'
      BY <1>2, <1>3, <1>8, <2>1, <2>2, Parts DEF HostTypes
    <3> QED BY <3>1, <3>2 DEF Types
  <2>4. Overwritten'
    BY <1>2, <1>3, <1>8, <2>1, <2>2, Parts DEF Overwritten, AtRisk
  <2>5. Undisturbed'
    BY <2>1 DEF Undisturbed
  <2>6. Shown'
    BY <2>1 DEF Shown
  <2> QED BY <1>6, <2>2, <2>3, <2>4, <2>5, <2>6 DEF IInv
<1> QED BY <1>1, <1>7, <1>8 DEF write_flash_payload, Packet, Fault, board, d0
-----------------------------------------------------------------------------
(* The queries.                                                            *)

AnswerSet == [qt : {"none", "calib", "flash"}, live : Live, done : BOOLEAN, err : BOOLEAN]

LEMMA Answers ==
    ASSUME Types, req.d \in Boards, NEW qt \in {"calib", "flash"}
    PROVE  /\ Answer(qt) \in AnswerSet /\ Answer(qt).qt = qt
           /\ Answer(qt).done = done[req.d] /\ Answer(qt).err = err[req.d]
           /\ qt = "calib" => Answer(qt).live = live[req.d]
<1>1. /\ live[req.d] \in Live /\ boot[req.d] \in Live
      /\ done[req.d] \in BOOLEAN /\ err[req.d] \in BOOLEAN
  BY DEF Types, BoardTypes
<1> QED BY <1>1 DEF Answer, AnswerSet, d0

\* An answer that is not late is the board's, and is then in the table.
LEMMA Queried ==
    ASSUME Types, req.d \in Boards, NEW qt \in {"calib", "flash"}, NEW r, Query(qt, r)
    PROVE  /\ r \in AnswerSet /\ table' \in AnswerSet /\ faults' \in Nat
           /\ r \in {table, Answer(qt)} /\ table' \in {table, Answer(qt)}
           /\ ~Late => r = Answer(qt) /\ table' = r
<1>1. table \in AnswerSet /\ Answer(qt) \in AnswerSet /\ faults \in Nat
  BY Answers DEF Types, HostTypes, AnswerSet
<1>2. CASE r = Answer(qt) /\ table' = r /\ faults' = faults
  BY <1>1, <1>2
<1>3. CASE r = table /\ faults' = faults + 1 /\ table' \in {table, Answer(qt)}
  <2>1. Late /\ faults' \in Nat
    BY <1>1, <1>3 DEF Late
  <2> QED BY <1>1, <1>3, <2>1
<1> QED BY <1>2, <1>3 DEF Query, Fault

LEMMA ReadCalibStep == ASSUME IInv, read_calib PROVE IInv'
<1>1. job # <<>> /\ This.do = "read"
  BY DEF read_calib, Do, This
<1>2. ~Saving /\ left = 1 /\ req.d \in Boards
  BY <1>1, AtStep, Parts
<1>3. job' = Tail(job) /\ UNCHANGED board /\ UNCHANGED history
  BY DEF read_calib
<1>4. PICK r : /\ Query("calib", r)
               /\ shown' = IF r.qt = "calib" THEN [shown EXCEPT ![req.d] = r.live] ELSE shown
               /\ req' = [req EXCEPT !.clean = @ /\ ~Late, !.ok = r.qt = "calib"]
  BY DEF read_calib, d0
<1>5. /\ req'.d = req.d /\ req'.save = req.save /\ req'.val = req.val
      /\ req'.clean = TRUE => req.clean = TRUE /\ ~Late
      /\ req' \in [d : Boards \cup {None}, save : {"none", "scale", "coef"},
                   val : {None} \cup Values \cup Coefs, clean : BOOLEAN, ok : BOOLEAN]
  <2>1. (req.clean /\ ~Late) \in BOOLEAN /\ (r.qt = "calib") \in BOOLEAN
    OBVIOUS
  <2> QED BY <1>4, <2>1, Parts DEF HostTypes
<1>6. /\ r \in AnswerSet /\ table' \in AnswerSet /\ faults' \in Nat
      /\ ~Late => r = Answer("calib")
  BY <1>2, <1>4, Parts, Queried
<1>7. ~Saving'
  BY <1>2, <1>5 DEF Saving
<1>8. Jobs' /\ left' = 0 /\ job' \in Seq(Step)
  BY <1>1, <1>2, <1>3, <1>5, Parts, JobsTail
<1>9. shown' \in [Boards -> Live \cup {None}]
  <2>1. shown \in [Boards -> Live \cup {None}] /\ r.live \in Live
    BY <1>6, Parts DEF HostTypes, AnswerSet
  <2> QED BY <1>2, <1>4, <2>1
<1>10. Types'
  <2>1. HostTypes'
    BY <1>2, <1>5, <1>6, <1>8, <1>9 DEF HostTypes, AnswerSet
  <2> QED BY <1>3, <2>1, Parts, BoardSame, HistorySame DEF Types
<1>11. Overwritten' /\ Undisturbed'
  BY <1>3, <1>5, <1>8, Parts, OverwrittenOver, UndisturbedOver DEF board, history
<1>12. SavesSurvive' /\ BootRestores'
  BY <1>3, Parts, SavesSame, BootSame DEF board, history
<1>13. Shown'
  <2> SUFFICES ASSUME req'.clean = TRUE PROVE shown'[req.d] = live[req.d]
    BY <1>2, <1>3, <1>5 DEF Shown, board
  <2>1. r.qt = "calib" /\ r.live = live[req.d]
    BY <1>2, <1>5, <1>6, Parts, Answers
  <2>2. shown \in [Boards -> Live \cup {None}]
    BY Parts DEF HostTypes
  <2> QED BY <1>2, <1>4, <2>1, <2>2
<1> QED BY <1>8, <1>10, <1>11, <1>12, <1>13 DEF IInv

LEMMA ReadLiveStep == ASSUME IInv, read_live PROVE IInv'
<1>1. job # <<>> /\ This.do = "live"
  BY DEF read_live, Do, This
<1>2. Saving /\ left = 4 /\ req.d \in Boards
  BY <1>1, AtStep, Parts
<1>3. UNCHANGED board /\ UNCHANGED history /\ UNCHANGED shown
  BY DEF read_live
<1>4. PICK r : /\ Query("calib", r)
               /\ job' = IF r.qt = "calib" THEN Tail(job) ELSE <<>>
               /\ req' = [req EXCEPT !.clean = @ /\ ~Late, !.val = IF r.qt = "calib" THEN r.live[req.save] ELSE None]
  BY DEF read_live
<1>5. /\ r \in AnswerSet /\ table' \in AnswerSet /\ faults' \in Nat
      /\ ~Late => r = Answer("calib") /\ table' = r
  BY <1>2, <1>4, Parts, Queried
<1>6. req.save \in {"scale", "coef"}
  BY <1>2, Parts DEF HostTypes, Saving
<1>7. Fits(req.save, r.live[req.save]) /\ r.live[req.save] \in Values \cup Coefs
  BY <1>5, <1>6, LiveFits DEF AnswerSet, Fits
<1>8. /\ req'.d = req.d /\ req'.save = req.save /\ req'.ok = req.ok
      /\ req'.val = (IF r.qt = "calib" THEN r.live[req.save] ELSE None)
      /\ req'.clean = TRUE => req.clean = TRUE /\ ~Late
      /\ req' \in [d : Boards \cup {None}, save : {"none", "scale", "coef"},
                   val : {None} \cup Values \cup Coefs, clean : BOOLEAN, ok : BOOLEAN]
  <2>1. (req.clean /\ ~Late) \in BOOLEAN
    OBVIOUS
  <2>2. (IF r.qt = "calib" THEN r.live[req.save] ELSE None) \in {None} \cup Values \cup Coefs
    BY <1>7
  <2> QED BY <1>4, <2>1, <2>2, Parts DEF HostTypes
<1>9. Saving'
  BY <1>2, <1>8 DEF Saving
<1>10. SavesSurvive' /\ BootRestores'
  BY <1>3, Parts, SavesSame, BootSame DEF board, history
<1>11. job' \in Seq(Step) => Types'
  <2>1. job' \in Seq(Step) => HostTypes'
    BY <1>2, <1>3, <1>5, <1>8, Parts DEF HostTypes, AnswerSet
  <2> QED BY <1>3, <2>1, Parts, BoardSame, HistorySame DEF Types
<1>12. Shown'
  BY <1>9 DEF Shown, Saving
<1>13. CASE r.qt = "calib"
  <2>1. Jobs' /\ left' = 3 /\ job' \in Seq(Step)
    BY <1>1, <1>2, <1>4, <1>7, <1>8, <1>13, Parts, JobsTail
  <2>2. Overwritten'
    BY <1>2, <1>3, <1>8, <2>1, Parts DEF Overwritten, AtRisk, board, history
  <2>3. Undisturbed'
    <3>1. ASSUME req'.clean = TRUE PROVE RestPending'
      <4>1. loading[req.d] = 0 /\ writer[req.d] = "idle"
        BY <1>2, <1>8, <3>1, Parts, AtRest
      <4>2. table'.qt = "calib" /\ r.live = live[req.d]
        BY <1>2, <1>5, <1>8, <3>1, Parts, Answers
      <4> QED BY <1>3, <1>8, <1>13, <4>1, <4>2 DEF RestPending, board
    <3> QED BY <2>1, <3>1, RestSelect
  <2> QED BY <1>10, <1>11, <1>12, <2>1, <2>2, <2>3 DEF IInv
<1>14. CASE r.qt # "calib"
  <2>1. Jobs' /\ left' = 0 /\ job' \in Seq(Step)
    BY <1>4, <1>14, JobsOver
  <2>2. Overwritten' /\ Undisturbed'
    BY <1>3, <1>8, <2>1, Parts, OverwrittenOver, UndisturbedOver DEF board, history
  <2> QED BY <1>10, <1>11, <1>12, <2>1, <2>2 DEF IInv
<1> QED BY <1>13, <1>14

\* What the board answers while its writer works, or has finished.
LEMMA OutcomeStored ==
    ASSUME Types, req.d \in Boards, Polling, NEW r \in {table, Answer("flash")},
           r.qt = "flash", r.done = TRUE, r.err = FALSE
    PROVE  Stored
<1>1. CASE r = table
  BY <1>1 DEF Polling
<1>2. CASE r = Answer("flash")
  <2>1. done[req.d] = TRUE /\ err[req.d] = FALSE
    BY <1>2, Answers
  <2> QED BY <2>1 DEF Polling, Writing
<1> QED BY <1>1, <1>2

LEMMA PollStep == ASSUME IInv, poll_flash_done PROVE IInv'
<1>1. job # <<>> /\ This.do = "poll"
  BY DEF poll_flash_done, Do, This
<1>2. Saving /\ left = 1 /\ req.d \in Boards
  BY <1>1, AtStep, Parts
<1>3. UNCHANGED board /\ UNCHANGED <<shown, told>>
  BY DEF poll_flash_done
<1>4. PICK r : /\ Query("flash", r)
               /\ IF r.qt # "flash" \/ ~(r.err \/ r.done) THEN UNCHANGED <<job, req, kept, strayed>>
                  ELSE /\ job' = <<>> /\ req' = [req EXCEPT !.ok = ~r.err]
                       /\ IF r.err \/ ~req.clean THEN UNCHANGED <<kept, strayed>>
                          ELSE /\ kept' = [kept EXCEPT ![req.d][req.save] = req.val]
                               /\ strayed' = [strayed EXCEPT ![req.d] = @ \ {req.save}]
  BY DEF poll_flash_done, d0
<1>5. /\ r \in AnswerSet /\ table' \in AnswerSet /\ faults' \in Nat
      /\ r \in {table, Answer("flash")} /\ table' \in {table, Answer("flash")}
  BY <1>2, <1>4, Parts, Queried
<1>6. req.save \in {"scale", "coef"} /\ req.save \in Group
  BY <1>2, Parts DEF HostTypes, Saving, Group
<1>7. r.err \in BOOLEAN /\ r.done \in BOOLEAN
  BY <1>5 DEF AnswerSet
<1>8. CASE UNCHANGED <<job, req, kept, strayed>>
  <2>1. Jobs' /\ job' \in Seq(Step) /\ left' = left
    BY <1>8, Parts DEF Jobs, HostTypes, left, Saving
  <2>2. Types'
    <3>1. HostTypes'
      BY <1>2, <1>3, <1>5, <1>8, Parts DEF HostTypes, AnswerSet
    <3> QED BY <1>3, <1>8, <3>1, Parts, BoardSame, HistorySame DEF Types, history
  <2>3. Overwritten'
    BY <1>3, <1>8, <2>1, Parts DEF Overwritten, AtRisk, board, Saving
  <2>4. Undisturbed'
    <3>1. ASSUME req'.clean = TRUE
          PROVE  /\ loading'[req'.d] = 0 /\ req'.val = live'[req'.d][req'.save]
                 /\ sel'[req'.d] = req'.save /\ Polling'
      <4>1. loading[req.d] = 0 /\ req.val = live[req.d][req.save] /\ sel[req.d] = req.save /\ Polling
        BY <1>2, <1>8, <3>1, Parts, AtRest
      <4>2. Writing' /\ wbuf'[req'.d] = Payload(req'.save, req'.val) /\ (Stored => Stored')
        BY <1>3, <1>8, <4>1 DEF Polling, Writing, Stored, board
      <4>3. table'.qt = "flash" /\ table'.done = TRUE /\ table'.err = FALSE => Stored
        BY <1>2, <1>5, <4>1, Parts, OutcomeStored
      <4>4. Polling'
        BY <4>2, <4>3 DEF Polling
      <4> QED BY <1>3, <1>8, <4>1, <4>4 DEF board
    <3> QED BY <1>2, <2>1, <3>1, RestPoll
  <2>5. SavesSurvive' /\ BootRestores'
    BY <1>3, <1>8, Parts, SavesSame, BootSame DEF board
  <2>6. Shown'
    BY <1>2, <1>8 DEF Shown, Saving
  <2> QED BY <2>1, <2>2, <2>3, <2>4, <2>5, <2>6 DEF IInv
<1>9. CASE /\ r.qt = "flash" /\ (r.err \/ r.done)
           /\ job' = <<>> /\ req' = [req EXCEPT !.ok = ~r.err]
           /\ IF r.err \/ ~req.clean THEN UNCHANGED <<kept, strayed>>
              ELSE /\ kept' = [kept EXCEPT ![req.d][req.save] = req.val]
                   /\ strayed' = [strayed EXCEPT ![req.d] = @ \ {req.save}]
  <2>1. Jobs' /\ left' = 0 /\ job' \in Seq(Step)
    BY <1>9, JobsOver
  <2>2. /\ req'.d = req.d /\ req'.save = req.save /\ req'.val = req.val /\ req'.clean = req.clean
        /\ req' \in [d : Boards \cup {None}, save : {"none", "scale", "coef"},
                     val : {None} \cup Values \cup Coefs, clean : BOOLEAN, ok : BOOLEAN]
    <3>1. (~r.err) \in BOOLEAN
      OBVIOUS
    <3> QED BY <1>9, <3>1, Parts DEF HostTypes
  <2>3. HostTypes' /\ BoardTypes'
    BY <1>2, <1>3, <1>5, <2>1, <2>2, Parts, BoardSame DEF HostTypes, AnswerSet
  <2>4. Undisturbed'
    BY <1>3, <2>1, <2>2, Parts, UndisturbedOver DEF board
  <2>5. Shown'
    BY <1>2, <2>2 DEF Shown, Saving
  <2>6. CASE r.err = FALSE /\ req.clean = TRUE
    <3>1. /\ loading[req.d] = 0 /\ req.val = live[req.d][req.save] /\ Polling
      BY <1>2, <2>6, Parts, AtRest
    <3>2. Stored
      BY <1>2, <1>5, <1>7, <1>9, <2>6, <3>1, Parts, OutcomeStored
    <3>3. Fits(req.save, req.val) /\ req.val \in Values \cup Coefs
      BY <1>2, <1>6, Parts, PayloadFits DEF Jobs
    <3>4. /\ kept' \in [Boards -> [Group -> {None} \cup Values \cup Coefs]]
          /\ kept'[req.d][req.save] = req.val
          /\ \A d \in Boards, s \in Group : d # req.d \/ s # req.save => kept'[d][s] = kept[d][s]
      <4>1. kept' = [kept EXCEPT ![req.d] = [kept[req.d] EXCEPT ![req.save] = req.val]]
        BY <1>9, <2>6
      <4>2. kept \in [Boards -> [Group -> {None} \cup Values \cup Coefs]]
        BY Parts DEF HistoryTypes
      <4> QED BY <1>2, <1>6, <3>3, <4>1, <4>2
    <3>10. /\ strayed' \in [Boards -> SUBSET AllSectors]
           /\ \A d \in Boards, s \in AllSectors :
                  d # req.d \/ s # req.save => (s \in strayed'[d] <=> s \in strayed[d])
      <4>1. strayed' = [strayed EXCEPT ![req.d] = @ \ {req.save}] /\ strayed \in [Boards -> SUBSET AllSectors]
        BY <1>9, <2>6, Parts DEF HistoryTypes
      <4> QED BY <1>2, <4>1
    <3>5. HistoryTypes'
      BY <1>3, <1>6, <3>3, <3>4, <3>10, Parts DEF HistoryTypes, Group
    <3>6. Overwritten'
      <4>1. ASSUME NEW d \in Boards, writer[d] # "idle", sel[d] \in Group
            PROVE  kept'[d][sel[d]] = None \/ (sel[d] \in strayed'[d] /\ wbuf[d].for # sel[d])
        <5>1. d # req.d /\ sel[d] \in AllSectors
          BY <3>2, <4>1 DEF Stored, AllSectors
        <5> QED BY <3>4, <3>10, <4>1, <5>1, Parts DEF Overwritten, AtRisk
      <4> QED BY <1>3, <2>1, <4>1 DEF Overwritten, AtRisk, board
    <3>7. SavesSurvive'
      <4> SUFFICES ASSUME NEW d \in Boards, NEW s \in {"scale", "coef"}, kept'[d][s] # None
                   PROVE  flash[d][s] = Payload(s, kept'[d][s]) \/ (s \in strayed'[d] /\ Overwrote(d, s))
        BY <1>3 DEF SavesSurvive, Overwrote, board
      <4>1. CASE d = req.d /\ s = req.save
        BY <3>2, <3>4, <4>1 DEF Stored
      <4>2. CASE d # req.d \/ s # req.save
        BY <3>4, <3>10, <4>2, Parts DEF SavesSurvive, Group, AllSectors
      <4> QED BY <4>1, <4>2
    <3>8. BootRestores'
      <4> SUFFICES ASSUME NEW d \in Boards, NEW s \in {"scale", "coef"}, kept'[d][s] # None,
                          s \notin strayed'[d], ~Unread(d, s), ~told[d][s]
                   PROVE  live[d][s] = kept'[d][s]
        BY <1>3 DEF BootRestores, Unread, board
      <4>1. CASE d = req.d /\ s = req.save
        BY <3>1, <3>4, <4>1
      <4>2. CASE d # req.d \/ s # req.save
        BY <3>4, <3>10, <4>2, Parts DEF BootRestores, Group, AllSectors
      <4> QED BY <4>1, <4>2
    <3> QED BY <2>1, <2>3, <2>4, <2>5, <3>5, <3>6, <3>7, <3>8 DEF IInv, Types
  <2>7. CASE r.err = TRUE \/ req.clean # TRUE
    <3>1. kept' = kept /\ strayed' = strayed
      <4>1. req.clean \in BOOLEAN
        BY Parts DEF HostTypes
      <4> QED BY <1>7, <1>9, <2>7, <4>1
    <3>2. HistoryTypes' /\ Overwritten' /\ SavesSurvive' /\ BootRestores'
      BY <1>3, <2>1, <3>1, Parts, HistorySame, OverwrittenOver, SavesSame, BootSame DEF board, history
    <3> QED BY <2>1, <2>3, <2>4, <2>5, <3>2 DEF IInv, Types
  <2> QED BY <1>7, <2>6, <2>7
<1> QED BY <1>4, <1>8, <1>9

LEMMA TimeoutStep == ASSUME IInv, Timeout PROVE IInv'
<1>1. job # <<>> /\ This.do = "poll"
  BY DEF Timeout, Do, This
<1>2. Saving
  BY <1>1, AtStep, Parts
<1>3. job' = <<>> /\ UNCHANGED <<board, history, table, req, shown, faults>>
  BY DEF Timeout
<1>4. Jobs' /\ left' = 0 /\ job' \in Seq(Step)
  BY <1>3, JobsOver
<1>5. Types'
  <2>1. HostTypes'
    BY <1>3, <1>4, Parts DEF HostTypes
  <2> QED BY <1>3, <2>1, Parts, BoardSame, HistorySame DEF Types
<1>6. Overwritten' /\ Undisturbed' /\ SavesSurvive' /\ BootRestores'
  BY <1>3, <1>4, Parts, OverwrittenOver, UndisturbedOver, SavesSame, BootSame DEF board, history
<1>7. Shown'
  BY <1>2, <1>3 DEF Shown, Saving
<1> QED BY <1>4, <1>5, <1>6, <1>7 DEF IInv

LEMMA RaiseStep == ASSUME IInv, Raise PROVE IInv'
<1>1. job' = <<>> /\ UNCHANGED <<board, history, table, shown>> /\ req' = [req EXCEPT !.clean = FALSE]
      /\ faults' = faults + 1
  BY DEF Raise, Fault
<1>2. Jobs' /\ left' = 0 /\ job' \in Seq(Step)
  BY <1>1, JobsOver
<1>3. /\ req'.d = req.d /\ req'.clean = FALSE
      /\ req' \in [d : Boards \cup {None}, save : {"none", "scale", "coef"},
                   val : {None} \cup Values \cup Coefs, clean : BOOLEAN, ok : BOOLEAN]
  BY <1>1, Parts, Faulty
<1>4. Types'
  <2>1. HostTypes'
    BY <1>1, <1>2, <1>3, Parts DEF HostTypes
  <2> QED BY <1>1, <2>1, Parts, BoardSame, HistorySame DEF Types
<1>5. Overwritten' /\ SavesSurvive' /\ BootRestores'
  BY <1>1, <1>2, Parts, OverwrittenOver, SavesSame, BootSame DEF board, history
<1>6. Undisturbed' /\ Shown'
  BY <1>3 DEF Undisturbed, Shown
<1> QED BY <1>2, <1>4, <1>5, <1>6 DEF IInv
-----------------------------------------------------------------------------
(* The boards.                                                             *)

LEMMA JobsSame ==
    ASSUME Jobs, job' = job, req'.save = req.save, req'.val = req.val
    PROVE  Jobs' /\ left' = left /\ (Saving' <=> Saving) /\ (Idle' <=> Idle)
<1>1. left' = left /\ (Saving' <=> Saving) /\ (Idle' <=> Idle)
  BY DEF left, Saving, Idle
<1> QED BY <1>1 DEF Jobs

LEMMA HostSame ==
    ASSUME HostTypes, UNCHANGED <<table, job, req, shown>>, faults' \in Nat
    PROVE  HostTypes'
BY DEF HostTypes

\* What the writer does to its sector: nothing in it is kept, or it is at risk and the payload
\* another sector's.
LEMMA SectorWritten ==
    ASSUME IInv, NEW d \in Boards, writer[d] # "idle", NEW x \in {Erased, Torn, wbuf[d]},
           flash' = [flash EXCEPT ![d][sel[d]] = x], kept' = kept, strayed' = strayed
    PROVE  SavesSurvive'
<1>1. \A dd \in Boards, s \in {"scale", "coef"} : dd # d \/ s # sel[d] => flash'[dd][s] = flash[dd][s]
  BY Parts DEF BoardTypes, AllSectors, Group
<1>2. \A s \in {"scale", "coef"} : s = sel[d] => kept[d][s] = None \/ (s \in strayed[d] /\ wbuf[d].for # s)
  BY Parts DEF Overwritten, AtRisk, Group
<1>3. \A s \in {"scale", "coef"} : s = sel[d] => flash'[d][s] = x
  BY Parts DEF BoardTypes, AllSectors
<1>4. ASSUME NEW dd \in Boards, NEW s \in {"scale", "coef"}, kept[dd][s] # None
      PROVE  flash'[dd][s] = Payload(s, kept[dd][s])
             \/ (s \in strayed[dd] /\ (flash'[dd][s] \in {Erased, Torn} \/ flash'[dd][s].for # s))
  <2>1. CASE dd = d /\ s = sel[d]
    BY <1>2, <1>3, <1>4, <2>1
  <2>2. CASE dd # d \/ s # sel[d]
    BY <1>1, <1>4, <2>2, Parts DEF SavesSurvive, Overwrote
  <2> QED BY <2>1, <2>2
<1> QED BY <1>4 DEF SavesSurvive, Overwrote

LEMMA WriterStep ==
    ASSUME IInv, NEW d \in Boards, writer[d] # "idle",
           NEW x \in {Erased, Torn, wbuf[d]}, flash' = [flash EXCEPT ![d][sel[d]] = x],
           NEW w \in {"idle", "program"}, writer' = [writer EXCEPT ![d] = w],
           done' \in [Boards -> BOOLEAN], err' \in [Boards -> BOOLEAN],
           \A dd \in Boards : dd # d => done'[dd] = done[dd] /\ err'[dd] = err[dd],
           UNCHANGED <<live, boot, loading, sel, wbuf, table, job, req, shown, history>>, faults' \in Nat,
           Saving /\ left = 1 /\ req.clean = TRUE /\ d = req.d => Polling'
    PROVE  IInv'
<1>1. Jobs' /\ left' = left /\ (Saving' <=> Saving) /\ (Idle' <=> Idle)
  BY Parts, JobsSame
<1>2. /\ sel[d] \in AllSectors
      /\ flash' \in [Boards -> [AllSectors -> {Erased, Torn, Payload("identity", 0)} \cup Payloads]]
      /\ flash'[d][sel[d]] = x
      /\ \A dd \in Boards : dd # d => flash'[dd] = flash[dd]
  <2>1. /\ sel[d] \in AllSectors
        /\ flash \in [Boards -> [AllSectors -> {Erased, Torn, Payload("identity", 0)} \cup Payloads]]
    BY Parts DEF BoardTypes
  <2>2. flash' = [flash EXCEPT ![d] = [flash[d] EXCEPT ![sel[d]] = x]] /\ x \in {Erased, Torn} \cup Payloads
    BY Parts DEF BoardTypes
  <2> QED BY <2>1, <2>2
<1>3. /\ writer' \in [Boards -> {"idle", "erase", "program"}] /\ writer'[d] = w
      /\ \A dd \in Boards : dd # d => writer'[dd] = writer[dd]
  BY Parts DEF BoardTypes
<1>4. Types'
  <2>1. BoardTypes'
    BY <1>2, <1>3, Parts DEF BoardTypes
  <2> QED BY <2>1, Parts, HostSame, HistorySame DEF Types
<1>5. Overwritten'
  BY <1>1, <1>3, Parts DEF Overwritten, AtRisk, history
<1>6. Undisturbed'
  <2>1. CASE d # req.d
    <3>1. req.d \in Boards => /\ writer'[req.d] = writer[req.d] /\ flash'[req.d] = flash[req.d]
                             /\ done'[req.d] = done[req.d] /\ err'[req.d] = err[req.d]
      BY <1>2, <1>3, <2>1
    <3>2. req.d \in Boards => (Polling => Polling')
      BY <3>1 DEF Polling, Writing, Stored
    <3> QED BY <1>1, <3>1, <3>2, Parts DEF Undisturbed
  <2>2. CASE d = req.d
    <3>1. req.clean = TRUE /\ Saving => ~(left >= 2)
      BY <2>2, Parts DEF Undisturbed
    <3> QED BY <1>1, <2>2, <3>1, Parts DEF Undisturbed
  <2> QED BY <2>1, <2>2
<1>7. SavesSurvive' /\ BootRestores'
  BY Parts, SectorWritten, BootSame DEF history
<1>8. Shown'
  BY <1>1, Parts DEF Shown
<1> QED BY <1>1, <1>4, <1>5, <1>6, <1>7, <1>8 DEF IInv

\* While the writer works the answers of this save are not those of success.
LEMMA NotYet ==
    ASSUME IInv, Saving, left = 1, req.clean = TRUE, req.d \in Boards, writer[req.d] # "idle"
    PROVE  /\ wbuf[req.d] = Payload(req.save, req.val) /\ sel[req.d] = req.save
           /\ done[req.d] = FALSE /\ err[req.d] = FALSE
           /\ writer[req.d] = "program" => flash[req.d][req.save] = Erased
           /\ ~(table.qt = "flash" /\ table.done = TRUE /\ table.err = FALSE)
BY Parts, AtRest DEF Polling, Writing, Stored

LEMMA EraseStep == ASSUME IInv, NEW d \in Boards, Erase(d) PROVE IInv'
<1>1. /\ writer[d] = "erase" /\ writer' = [writer EXCEPT ![d] = "program"]
      /\ flash' = [flash EXCEPT ![d][sel[d]] = Erased]
      /\ UNCHANGED <<live, boot, loading, sel, wbuf, done, err, table, job, req, shown, faults, history>>
  BY DEF Erase, history
<1>2. done \in [Boards -> BOOLEAN] /\ err \in [Boards -> BOOLEAN] /\ faults \in Nat
  BY Parts DEF BoardTypes, HostTypes
<1>3. ASSUME Saving, left = 1, req.clean = TRUE, d = req.d PROVE Polling'
  <2>1. writer'[req.d] = "program" /\ flash'[req.d][sel[req.d]] = Erased
    BY <1>1, <1>3, Parts DEF BoardTypes
  <2> QED BY <1>1, <1>3, <2>1, NotYet DEF Polling, Writing
<1> QED BY <1>1, <1>2, <1>3, WriterStep

LEMMA ProgramStep == ASSUME IInv, NEW d \in Boards, Program(d) PROVE IInv'
<1> DEFINE x == IF flash[d][sel[d]] = Erased THEN wbuf[d] ELSE Torn
<1>1. /\ writer[d] = "program" /\ writer' = [writer EXCEPT ![d] = "idle"]
      /\ flash' = [flash EXCEPT ![d][sel[d]] = x] /\ done' = [done EXCEPT ![d] = TRUE]
      /\ UNCHANGED <<live, boot, loading, sel, wbuf, err, table, job, req, shown, faults, history>>
  BY DEF Program, history
<1>2. /\ done' \in [Boards -> BOOLEAN] /\ err \in [Boards -> BOOLEAN] /\ faults \in Nat
      /\ done'[d] = TRUE /\ \A dd \in Boards : dd # d => done'[dd] = done[dd]
      /\ x \in {Erased, Torn, wbuf[d]}
  BY <1>1, Parts DEF BoardTypes, HostTypes
<1>3. ASSUME Saving, left = 1, req.clean = TRUE, d = req.d PROVE Polling'
  <2>1. writer'[req.d] = "idle" /\ flash'[req.d][sel[req.d]] = x
    BY <1>1, <1>3, Parts DEF BoardTypes
  <2>2. x = Payload(req.save, req.val) /\ sel[req.d] = req.save /\ err[req.d] = FALSE
        /\ wbuf[req.d] = Payload(req.save, req.val)
    BY <1>1, <1>3, NotYet
  <2>3. Stored'
    BY <1>1, <1>2, <1>3, <2>1, <2>2 DEF Stored
  <2> QED BY <1>1, <2>2, <2>3 DEF Polling, Writing
<1> HIDE DEF x
<1> QED BY <1>1, <1>2, <1>3, WriterStep

LEMMA SpiErrorStep == ASSUME IInv, NEW d \in Boards, SpiError(d) PROVE IInv'
<1>1. /\ writer[d] # "idle" /\ writer' = [writer EXCEPT ![d] = "idle"] /\ faults' = faults + 1
      /\ flash' = [flash EXCEPT ![d][sel[d]] = Torn] /\ err' = [err EXCEPT ![d] = TRUE]
      /\ UNCHANGED <<live, boot, loading, sel, wbuf, done, table, job, req, shown, history>>
  BY DEF SpiError, history, Fault
<1>2. /\ err' \in [Boards -> BOOLEAN] /\ done \in [Boards -> BOOLEAN] /\ faults' \in Nat
      /\ err'[d] = TRUE /\ \A dd \in Boards : dd # d => err'[dd] = err[dd]
  BY <1>1, Parts DEF BoardTypes, HostTypes
<1>3. ASSUME Saving, left = 1, req.clean = TRUE, d = req.d PROVE Polling'
  <2>1. writer'[req.d] = "idle"
    BY <1>1, <1>3, Parts DEF BoardTypes
  <2> QED BY <1>1, <1>2, <1>3, <2>1, NotYet DEF Polling, Writing
<1> QED BY <1>1, <1>2, <1>3, WriterStep

LEMMA PowerCycleStep == ASSUME IInv, NEW d \in Boards, PowerCycle(d) PROVE IInv'
<1>1. /\ faults' = faults + 1
      /\ live' = [live EXCEPT ![d] = Default] /\ boot' = [boot EXCEPT ![d] = Default]
      /\ loading' = [loading EXCEPT ![d] = 4] /\ sel' = [sel EXCEPT ![d] = "identity"]
      /\ writer' = [writer EXCEPT ![d] = "idle"] /\ done' = [done EXCEPT ![d] = FALSE]
      /\ err' = [err EXCEPT ![d] = FALSE] /\ wbuf' = [wbuf EXCEPT ![d] = None]
      /\ told' = [told EXCEPT ![d] = [s \in Group |-> FALSE]]
      /\ req' = (IF d = req.d THEN [req EXCEPT !.clean = FALSE] ELSE req)
      /\ UNCHANGED <<table, job, shown, kept, strayed>>
  BY DEF PowerCycle, Fault, d0, Sectors
<1>2. \/ flash' = flash
      \/ writer[d] # "idle" /\ flash' = [flash EXCEPT ![d][sel[d]] = Torn]
  BY DEF PowerCycle
<1>3. /\ req'.d = req.d /\ req'.save = req.save /\ req'.val = req.val /\ req'.ok = req.ok
      /\ req'.clean = TRUE => d # req.d /\ req.clean = TRUE
      /\ req' \in [d : Boards \cup {None}, save : {"none", "scale", "coef"},
                   val : {None} \cup Values \cup Coefs, clean : BOOLEAN, ok : BOOLEAN]
  <2>1. CASE d = req.d
    BY <1>1, <2>1, Parts, Faulty
  <2>2. CASE d # req.d
    BY <1>1, <2>2, Parts DEF HostTypes
  <2> QED BY <2>1, <2>2
<1>4. Jobs' /\ left' = left /\ (Saving' <=> Saving) /\ (Idle' <=> Idle)
  BY <1>1, <1>3, Parts, JobsSame
<1>5. /\ live' \in [Boards -> Live] /\ boot' \in [Boards -> Live] /\ loading' \in [Boards -> 0..4]
      /\ sel' \in [Boards -> AllSectors] /\ writer' \in [Boards -> {"idle", "erase", "program"}]
      /\ wbuf' \in [Boards -> {None} \cup Payloads]
      /\ done' \in [Boards -> BOOLEAN] /\ err' \in [Boards -> BOOLEAN]
      /\ sel'[d] = "identity" /\ writer'[d] = "idle" /\ loading'[d] = 4
  BY <1>1, Parts, Defaults DEF BoardTypes, AllSectors
<1>6. \A dd \in Boards : dd # d => /\ live'[dd] = live[dd] /\ loading'[dd] = loading[dd] /\ sel'[dd] = sel[dd]
                                  /\ writer'[dd] = writer[dd] /\ done'[dd] = done[dd] /\ err'[dd] = err[dd]
                                  /\ wbuf'[dd] = wbuf[dd] /\ flash'[dd] = flash[dd] /\ told'[dd] = told[dd]
  BY <1>1, <1>2, Parts DEF BoardTypes, HistoryTypes
<1>7. flash' \in [Boards -> [AllSectors -> {Erased, Torn, Payload("identity", 0)} \cup Payloads]]
  <2>1. /\ sel[d] \in AllSectors
        /\ flash \in [Boards -> [AllSectors -> {Erased, Torn, Payload("identity", 0)} \cup Payloads]]
    BY Parts DEF BoardTypes
  <2>2. CASE flash' = [flash EXCEPT ![d][sel[d]] = Torn]
    <3>1. flash' = [flash EXCEPT ![d] = [flash[d] EXCEPT ![sel[d]] = Torn]]
      BY <2>2
    <3> QED BY <2>1, <3>1
  <2> QED BY <1>2, <2>1, <2>2
<1>8. Types'
  <2>1. BoardTypes'
    BY <1>5, <1>6, <1>7, Parts DEF BoardTypes
  <2>2. HostTypes'
    BY <1>1, <1>3, Parts DEF HostTypes
  <2>3. HistoryTypes'
    <3>1. told' \in [Boards -> [Group -> BOOLEAN]]
      BY <1>1, Parts DEF HistoryTypes
    <3> QED BY <1>1, <3>1, Parts DEF HistoryTypes
  <2> QED BY <2>1, <2>2, <2>3 DEF Types
<1>9. Overwritten'
  <2>1. ASSUME NEW dd \in Boards, writer'[dd] # "idle", sel'[dd] \in Group
        PROVE  kept[dd][sel'[dd]] = None \/ (sel'[dd] \in strayed[dd] /\ wbuf'[dd].for # sel'[dd])
    BY <1>5, <1>6, <2>1, Parts DEF Overwritten, AtRisk
  <2>2. Saving /\ left = 2 => sel'[req.d] \in {req.save, "identity"} \cup strayed[req.d]
    <3>1. CASE req.d = d
      BY <1>5, <3>1
    <3>2. CASE req.d # d
      <4>1. ASSUME left = 2 PROVE req.d \in Boards
        <5>1. job # <<>>
          BY <4>1 DEF left
        <5> QED BY <5>1, Parts DEF HostTypes
      <4> QED BY <1>6, <3>2, <4>1, Parts DEF Overwritten
    <3> QED BY <3>1, <3>2
  <2> QED BY <1>1, <1>3, <1>4, <2>1, <2>2, Parts DEF Overwritten, AtRisk
<1>10. Undisturbed'
  <2> SUFFICES ASSUME d # req.d, req.clean = TRUE, req.d \in Boards PROVE Undisturbed'
    BY <1>3 DEF Undisturbed
  <2>1. req' = req
    BY <1>1
  <2>2. Polling => Polling'
    BY <1>1, <1>6, <2>1 DEF Polling, Writing, Stored
  <2>3. /\ live'[req.d] = live[req.d] /\ loading'[req.d] = loading[req.d] /\ sel'[req.d] = sel[req.d]
        /\ writer'[req.d] = writer[req.d]
    BY <1>6
  <2> QED BY <1>1, <1>4, <2>1, <2>2, <2>3, Parts DEF Undisturbed
<1>11. SavesSurvive'
  BY <1>1, <1>2, Parts, SavesSame, SectorWritten
<1>12. BootRestores'
  <2> SUFFICES ASSUME NEW dd \in Boards, NEW s \in {"scale", "coef"}, kept[dd][s] # None, s \notin strayed[dd],
                      ~Unread(dd, s)', ~told'[dd][s]
               PROVE  live'[dd][s] = kept[dd][s]
    BY <1>1 DEF BootRestores
  <2>1. Sectors[2] = "scale" /\ Sectors[4] = "coef" /\ Len(Sectors) = 4
    BY DEF Sectors
  <2>2. dd # d
    <3>1. ASSUME dd = d PROVE FALSE
      <4>1. loading'[dd] = 4
        BY <1>5, <3>1
      <4>2. 2 \in (Len(Sectors) + 1 - loading'[dd])..Len(Sectors) /\ 4 \in (Len(Sectors) + 1 - loading'[dd])..Len(Sectors)
        BY <2>1, <4>1
      <4> QED BY <2>1, <4>2 DEF Unread
    <3> QED BY <3>1
  <2>3. ~Unread(dd, s) /\ ~told[dd][s] /\ live'[dd] = live[dd]
    BY <1>6, <2>2 DEF Unread
  <2> QED BY <2>3, Parts DEF BootRestores
<1>13. Shown'
  <2> SUFFICES ASSUME Idle, d # req.d, req.clean = TRUE, req.ok = TRUE, req.save = "none"
               PROVE  req.d \in Boards /\ shown[req.d] = live'[req.d]
    BY <1>1, <1>3, <1>4 DEF Shown
  <2>1. req.d \in Boards /\ shown[req.d] = live[req.d]
    BY Parts DEF Shown
  <2> QED BY <1>6, <2>1
<1> QED BY <1>4, <1>8, <1>9, <1>10, <1>11, <1>12, <1>13 DEF IInv

\* The sector that is read next, by what is left to read.
LEMMA ReadIs ==
    ASSUME NEW d \in Boards, loading[d] \in 1..4
    PROVE  /\ Read(d) \in AllSectors /\ (Read(d) = "scale" <=> loading[d] = 3)
           /\ (Read(d) = "coef" <=> loading[d] = 1)
<1>1. Sectors[1] = "identity" /\ Sectors[2] = "scale" /\ Sectors[3] = "amp" /\ Sectors[4] = "coef" /\ Len(Sectors) = 4
  BY DEF Sectors
<1>2. Read(d) = Sectors[5 - loading[d]]
  BY <1>1 DEF Read
<1>3. loading[d] = 1 \/ loading[d] = 2 \/ loading[d] = 3 \/ loading[d] = 4
  OBVIOUS
<1> QED BY <1>1, <1>2, <1>3 DEF AllSectors, Group

\* Loading changes what a board that is not at rest has.
LEMMA LoaderStep ==
    ASSUME IInv, NEW d \in Boards, loading[d] > 0,
           live' \in [Boards -> Live], boot' \in [Boards -> Live],
           loading' \in [Boards -> 0..4], told' \in [Boards -> [Group -> BOOLEAN]],
           \A dd \in Boards : dd # d => live'[dd] = live[dd] /\ loading'[dd] = loading[dd],
           UNCHANGED <<flash, sel, writer, wbuf, done, err, table, job, req, shown, faults, kept, strayed>>,
           BootRestores'
    PROVE  IInv'
<1>1. Jobs' /\ left' = left /\ (Saving' <=> Saving) /\ (Idle' <=> Idle)
  BY Parts, JobsSame
<1>2. Types'
  <2>1. BoardTypes'
    BY Parts DEF BoardTypes
  <2>2. HostTypes'
    BY Parts DEF HostTypes
  <2>3. HistoryTypes'
    BY Parts DEF HistoryTypes
  <2> QED BY <2>1, <2>2, <2>3 DEF Types
<1>3. Overwritten'
  BY <1>1, Parts DEF Overwritten, AtRisk
<1>4. ASSUME req.clean = TRUE, req.d \in Boards
      PROVE  live'[req.d] = live[req.d] /\ loading'[req.d] = loading[req.d]
  <2>1. loading[req.d] = 0
    BY <1>4, Parts, AtRest
  <2>2. d # req.d
    BY <2>1
  <2> QED BY <1>4, <2>2
<1>5. Undisturbed'
  <2>1. Polling => Polling'
    BY DEF Polling, Writing, Stored
  <2> QED BY <1>1, <1>4, <2>1, Parts DEF Undisturbed
<1>6. Shown'
  BY <1>1, <1>4, Parts DEF Shown
<1> QED BY <1>1, <1>2, <1>3, <1>5, <1>6, Parts, SavesSame DEF IInv

LEMMA LoadStep == ASSUME IInv, NEW d \in Boards, Load(d) PROVE IInv'
<1>1. loading[d] > 0 /\ loading' = [loading EXCEPT ![d] = loading[d] - 1]
      /\ UNCHANGED <<flash, sel, writer, wbuf, done, err, table, job, req, shown, faults, kept, told, strayed>>
  BY DEF Load, Remaining, history
<1>2. /\ loading[d] \in 1..4 /\ loading' \in [Boards -> 0..4] /\ loading'[d] = loading[d] - 1
      /\ \A dd \in Boards : dd # d => loading'[dd] = loading[dd]
  BY <1>1, Parts DEF BoardTypes
<1>3. PICK found \in (IF Read(d) = "identity" \/ flash[d][Read(d)] = Erased THEN {None}
                      ELSE IF flash[d][Read(d)] # Torn /\ flash[d][Read(d)].for = Read(d) THEN {flash[d][Read(d)].val}
                      ELSE {None} \cup (IF Read(d) = "coef" THEN Coefs ELSE Values)) :
        IF found = None THEN UNCHANGED <<live, boot>>
        ELSE live' = [live EXCEPT ![d][Read(d)] = found] /\ boot' = [boot EXCEPT ![d][Read(d)] = found]
  BY DEF Load
<1>4. Read(d) \in AllSectors
  BY <1>2, ReadIs
<1>5. found = None \/ (Read(d) \in Group /\ Fits(Read(d), found))
  <2>1. CASE Read(d) = "identity" \/ flash[d][Read(d)] = Erased
    BY <1>3, <2>1
  <2>2. CASE /\ Read(d) # "identity" /\ flash[d][Read(d)] # Erased
             /\ flash[d][Read(d)] # Torn /\ flash[d][Read(d)].for = Read(d)
    <3>1. flash[d][Read(d)] \in Payloads
      BY <1>4, <2>2, Parts DEF BoardTypes, Payload
    <3> QED BY <1>3, <1>4, <2>2, <3>1 DEF Payloads, Fits, AllSectors
  <2>3. CASE /\ Read(d) # "identity" /\ flash[d][Read(d)] # Erased
             /\ ~(flash[d][Read(d)] # Torn /\ flash[d][Read(d)].for = Read(d))
    BY <1>3, <1>4, <2>3 DEF Fits, AllSectors
  <2> QED BY <2>1, <2>2, <2>3
<1>6. /\ live' \in [Boards -> Live] /\ boot' \in [Boards -> Live]
      /\ \A dd \in Boards : dd # d => live'[dd] = live[dd]
      /\ \A s \in Group : live'[d][s] = IF found # None /\ s = Read(d) THEN found ELSE live[d][s]
  <2>1. live \in [Boards -> Live] /\ boot \in [Boards -> Live]
    BY Parts DEF BoardTypes
  <2>2. CASE found = None
    BY <1>3, <2>1, <2>2
  <2>3. CASE found # None
    <3>1. Read(d) \in Group /\ Fits(Read(d), found)
      BY <1>5, <2>3
    <3>2. ASSUME NEW l \in Live
          PROVE  /\ [l EXCEPT ![Read(d)] = found] \in Live
                 /\ \A s \in Group : [l EXCEPT ![Read(d)] = found][s] = IF s = Read(d) THEN found ELSE l[s]
      BY <3>1 DEF Live, Group, Fits
    <3>3. /\ live' = [live EXCEPT ![d] = [live[d] EXCEPT ![Read(d)] = found]]
          /\ boot' = [boot EXCEPT ![d] = [boot[d] EXCEPT ![Read(d)] = found]]
      BY <1>3, <2>3
    <3>4. /\ [live[d] EXCEPT ![Read(d)] = found] \in Live /\ [boot[d] EXCEPT ![Read(d)] = found] \in Live
          /\ \A s \in Group : [live[d] EXCEPT ![Read(d)] = found][s] = IF s = Read(d) THEN found ELSE live[d][s]
      BY <2>1, <3>2
    <3> QED BY <2>1, <2>3, <3>3, <3>4
  <2> QED BY <2>2, <2>3
<1>7. BootRestores'
  <2> SUFFICES ASSUME NEW dd \in Boards, NEW s \in {"scale", "coef"}, kept[dd][s] # None, s \notin strayed[dd],
                      ~Unread(dd, s)', ~told[dd][s]
               PROVE  live'[dd][s] = kept[dd][s]
    BY <1>1 DEF BootRestores
  <2>1. CASE dd # d
    <3>1. ~Unread(dd, s) /\ live'[dd] = live[dd]
      BY <1>2, <1>6, <2>1 DEF Unread
    <3> QED BY <3>1, Parts DEF BootRestores
  <2>2. CASE dd = d /\ s = Read(d)
    <3>1. flash[d][s] = Payload(s, kept[d][s]) /\ Fits(s, kept[d][s])
      BY <2>2, Parts DEF SavesSurvive, HistoryTypes
    <3>2. /\ flash[d][s] # Erased /\ flash[d][s] # Torn /\ flash[d][s].for = s /\ flash[d][s].val = kept[d][s]
      BY <3>1, PayloadFits
    <3>3. found = kept[d][s]
      BY <1>3, <2>2, <3>2
    <3> QED BY <1>6, <2>2, <3>3 DEF Group
  <2>3. CASE dd = d /\ s # Read(d)
    <3>1. ~Unread(d, s)
      <4>1. /\ Unread(d, "scale")' <=> loading'[d] \in 3..4
            /\ Unread(d, "coef")' <=> loading'[d] \in 1..4
        <5>1. loading'[d] \in 0..4
          BY <1>2
        <5>2. Sectors[2] = "scale" /\ Sectors[4] = "coef" /\ Len(Sectors) = 4
              /\ \A j \in 1..4 : /\ Sectors[j] = "scale" <=> j = 2
                                 /\ Sectors[j] = "coef" <=> j = 4
          <6>1. \A j \in 1..4 : j = 1 \/ j = 2 \/ j = 3 \/ j = 4
            OBVIOUS
          <6> QED BY <6>1 DEF Sectors
        <5>3. Unread(d, "scale")' <=> \E j \in (5 - loading'[d])..4 : Sectors[j] = "scale"
          BY <5>1, <5>2 DEF Unread
        <5>4. Unread(d, "coef")' <=> \E j \in (5 - loading'[d])..4 : Sectors[j] = "coef"
          BY <5>1, <5>2 DEF Unread
        <5> QED BY <5>1, <5>2, <5>3, <5>4
      <4>2. (s = "scale" => ~(loading[d] \in 3..4)) /\ s # "coef"
        BY <1>2, <2>2, <2>3, <4>1, ReadIs
      <4>3. loading[d] \in 0..4
        BY <1>2
      <4> QED BY <4>2, <4>3, Unreads
    <3>2. live'[d][s] = live[d][s]
      BY <1>6, <2>3 DEF Group
    <3> QED BY <2>3, <3>1, <3>2, Parts DEF BootRestores
  <2> QED BY <2>1, <2>2, <2>3
<1>8. told' \in [Boards -> [Group -> BOOLEAN]]
  BY <1>1, Parts DEF HistoryTypes
<1> QED BY <1>1, <1>2, <1>6, <1>7, <1>8, LoaderStep

LEMMA LoadFailsStep == ASSUME IInv, NEW d \in Boards, LoadFails(d) PROVE IInv'
<1>1. /\ loading[d] > 0 /\ loading' = [loading EXCEPT ![d] = 0]
      /\ told' = [told EXCEPT ![d] = [s \in Group |-> TRUE]]
      /\ UNCHANGED <<live, boot, flash, sel, writer, wbuf, done, err, table, job, req, shown, faults, kept, strayed>>
  BY DEF LoadFails
<1>2. /\ live \in [Boards -> Live] /\ boot \in [Boards -> Live] /\ loading' \in [Boards -> 0..4]
      /\ told' \in [Boards -> [Group -> BOOLEAN]]
      /\ \A dd \in Boards : dd # d => loading'[dd] = loading[dd] /\ told'[dd] = told[dd]
      /\ \A s \in Group : told'[d][s] = TRUE
  BY <1>1, Parts DEF BoardTypes, HistoryTypes
<1>3. BootRestores'
  <2> SUFFICES ASSUME NEW dd \in Boards, NEW s \in {"scale", "coef"}, kept[dd][s] # None, s \notin strayed[dd],
                      ~Unread(dd, s)', ~told'[dd][s]
               PROVE  live[dd][s] = kept[dd][s]
    BY <1>1 DEF BootRestores
  <2>1. dd # d
    BY <1>2 DEF Group
  <2>2. ~Unread(dd, s) /\ ~told[dd][s]
    BY <1>2, <2>1 DEF Unread
  <2> QED BY <2>2, Parts DEF BootRestores
<1> QED BY <1>1, <1>2, <1>3, LoaderStep
-----------------------------------------------------------------------------
(* The routes.                                                             *)

LEMMA RequestTypes ==
    ASSUME IInv, NEW d \in Boards, NEW s \in {"none", "scale", "coef"}, Request(d, s),
           job' \in Seq(Step), HistoryTypes'
    PROVE  /\ Types' /\ UNCHANGED <<board, table, shown, faults, told>>
           /\ req'.d = d /\ req'.save = s
           /\ req'.clean = TRUE => writer[d] = "idle" /\ loading[d] = 0
<1>1. /\ UNCHANGED <<board, table, shown, faults, told>>
      /\ req' = [d |-> d, save |-> s, val |-> None, clean |-> writer[d] = "idle" /\ loading[d] = 0, ok |-> FALSE]
  BY DEF Request
<1>2. /\ req' \in [d : Boards \cup {None}, save : {"none", "scale", "coef"},
                   val : {None} \cup Values \cup Coefs, clean : BOOLEAN, ok : BOOLEAN]
      /\ req'.d = d /\ req'.save = s
      /\ req'.clean = TRUE => writer[d] = "idle" /\ loading[d] = 0
  <2>1. (writer[d] = "idle" /\ loading[d] = 0) \in BOOLEAN
    OBVIOUS
  <2> QED BY <1>1, <2>1
<1>3. HostTypes'
  BY <1>1, <1>2, Parts DEF HostTypes
<1> QED BY <1>1, <1>2, <1>3, Parts, BoardSame DEF Types

\* A request that sets and reads.
LEMMA SetsStep ==
    ASSUME IInv, NEW d \in Boards, Sets(d), job' \in Seq(Step), left' \in Nat \ {0},
           job'[left'].do = "read", \A i \in 1..(left' - 1) : job'[i].do \in {"set", "reset"}
    PROVE  IInv'
<1>1. Request(d, "none") /\ kept' = kept
  BY DEF Sets
<1>2. UNCHANGED <<board, told, strayed>>
  BY <1>1 DEF Request
<1>3. HistoryTypes'
  BY <1>1, <1>2, Parts, HistorySame DEF history
<1>4. /\ Types' /\ req'.d = d /\ req'.save = "none"
      /\ req'.clean = TRUE => loading[d] = 0
  BY <1>1, <1>3, RequestTypes
<1>5. ~Saving' /\ job' # <<>>
  BY <1>4, MoreLeft DEF Saving
<1>6. Jobs'
  BY <1>5 DEF Jobs
<1>7. Overwritten'
  BY <1>1, <1>2, <1>5, Parts, OverwrittenOver DEF board
<1>8. Undisturbed'
  BY <1>2, <1>4, <1>5 DEF Undisturbed, board
<1>9. SavesSurvive' /\ BootRestores' /\ Shown'
  BY <1>1, <1>2, <1>5, Parts, SavesSame, BootSame DEF board, Shown, Idle
<1> QED BY <1>4, <1>6, <1>7, <1>8, <1>9 DEF IInv

\* A request that saves: what is to be overwritten is not counted as kept from here on.
LEMMA SaveStep == ASSUME IInv, NEW d \in Boards, NEW s \in {"scale", "coef"}, Save(d, s) PROVE IInv'
<1>1. /\ Request(d, s) /\ kept' = [kept EXCEPT ![d][s] = None]
      /\ job' = <<[do |-> "live"], [do |-> "select"], [do |-> "write"], [do |-> "poll"]>>
  BY DEF Save
<1>2. UNCHANGED <<board, told, strayed>>
  BY <1>1 DEF Request
<1>3. /\ kept' \in [Boards -> [Group -> {None} \cup Values \cup Coefs]] /\ kept'[d][s] = None
      /\ \A dd \in Boards, k \in Group : kept'[dd][k] \in {None, kept[dd][k]}
  <2>1. kept \in [Boards -> [Group -> {None} \cup Values \cup Coefs]] /\ s \in Group
    BY Parts DEF HistoryTypes, Group
  <2>2. kept' = [kept EXCEPT ![d] = [kept[d] EXCEPT ![s] = None]]
    BY <1>1
  <2> QED BY <2>1, <2>2
<1>4. HistoryTypes'
  BY <1>2, <1>3, Parts DEF HistoryTypes, Group
<1>5. job' \in Seq(Step)
  <2>1. \A k \in {"live", "select", "write", "poll"} : [do |-> k] \in Step
    BY DEF Step
  <2> QED BY <1>1, <2>1
<1>6. /\ left' = 4 /\ job'[1].do = "live" /\ job'[2].do = "select" /\ job'[3].do = "write" /\ job'[4].do = "poll"
      /\ job' # <<>>
  BY <1>1 DEF left
<1>7. /\ Types' /\ req'.d = d /\ req'.save = s
      /\ req'.clean = TRUE => writer[d] = "idle" /\ loading[d] = 0
  BY <1>1, <1>4, <1>5, RequestTypes
<1>8. Saving'
  BY <1>7 DEF Saving
<1>9. Jobs'
  BY <1>6, <1>8 DEF Jobs
<1>10. Overwritten'
  <2>1. ASSUME NEW dd \in Boards, writer[dd] # "idle", sel[dd] \in Group
        PROVE  kept'[dd][sel[dd]] = None \/ (sel[dd] \in strayed[dd] /\ wbuf[dd].for # sel[dd])
    BY <1>3, <2>1, Parts DEF Overwritten, AtRisk
  <2> QED BY <1>2, <1>3, <1>6, <1>7, <2>1 DEF Overwritten, AtRisk, board
<1>11. Undisturbed'
  BY <1>2, <1>6, <1>7 DEF Undisturbed, board
<1>12. SavesSurvive' /\ BootRestores'
  <2>1. \A dd \in Boards, k \in {"scale", "coef"} : kept'[dd][k] \in {None, kept[dd][k]}
    BY <1>3 DEF Group
  <2> QED BY <1>2, <2>1, Parts DEF SavesSurvive, Overwrote, BootRestores, Unread, board
<1>13. Shown'
  BY <1>6 DEF Shown, Idle
<1> QED BY <1>7, <1>9, <1>10, <1>11, <1>12, <1>13 DEF IInv

LEMMA SetSteps ==
    ASSUME NEW v \in Values, NEW i \in Index
    PROVE  /\ Set("scale", 0, v) \in Step /\ Set("amp", 0, v) \in Step /\ Set("coef", i, v) \in Step
           /\ [do |-> "read"] \in Step /\ [do |-> "reset"] \in Step
           /\ Set("scale", 0, v).do = "set" /\ Set("amp", 0, v).do = "set" /\ Set("coef", i, v).do = "set"
BY DEF Set, Step, Index

LEMMA Joined ==
    ASSUME NEW r \in Seq(Step), NEW s \in Seq(Step)
    PROVE  /\ r \o s \in Seq(Step) /\ Len(r \o s) = Len(r) + Len(s) /\ Len(r) \in Nat
           /\ \A i \in 1..Len(r) : (r \o s)[i] = r[i]
           /\ \A i \in 1..Len(s) : (r \o s)[Len(r) + i] = s[i]
<1>1. Len(r) \in Nat /\ Len(s) \in Nat
  OBVIOUS
<1>2. \A i \in 1..Len(s) : (r \o s)[Len(r) + i] = s[i]
  <2> TAKE i \in 1..Len(s)
  <2>1. Len(r) + i \in (Len(r) + 1)..(Len(r) + Len(s)) /\ (Len(r) + i) - Len(r) = i
    BY <1>1
  <2> QED BY <2>1
<1> QED BY <1>1, <1>2

\* A list of settings, and the reading at its end.
LEMMA SettingJob ==
    ASSUME IInv, NEW d \in Boards, Sets(d), NEW first \in Seq(Step),
           \A i \in 1..Len(first) : first[i].do \in {"set", "reset"},
           job' = first \o _reread_calib_and_broadcast
    PROVE  IInv'
<1> DEFINE last == <<[do |-> "read"]>>
<1>1. last \in Seq(Step) /\ Len(last) = 1 /\ last[1].do = "read"
  BY DEF Step
<1>2. job' = first \o last
  BY DEF _reread_calib_and_broadcast
<1> HIDE DEF last
<1>3. /\ job' \in Seq(Step) /\ Len(job') = Len(first) + 1 /\ Len(first) \in Nat
      /\ job'[Len(first) + 1] = last[1]
      /\ \A i \in 1..Len(first) : job'[i] = first[i]
  <2>1. /\ first \o last \in Seq(Step) /\ Len(first \o last) = Len(first) + Len(last) /\ Len(first) \in Nat
        /\ \A i \in 1..Len(first) : (first \o last)[i] = first[i]
        /\ \A i \in 1..Len(last) : (first \o last)[Len(first) + i] = last[i]
    BY <1>1, Joined
  <2>2. (first \o last)[Len(first) + 1] = last[1]
    BY <1>1, <2>1
  <2> QED BY <1>1, <1>2, <2>1, <2>2, Zenon
<1>4. left' = Len(first) + 1
  BY <1>3 DEF left
<1>5. left' \in Nat \ {0} /\ job'[left'].do = "read" /\ \A i \in 1..(left' - 1) : job'[i].do \in {"set", "reset"}
  BY <1>1, <1>3, <1>4
<1> QED BY <1>3, <1>5, SetsStep

LEMMA TwoStepJob ==
    ASSUME IInv, NEW d \in Boards, Sets(d), NEW a \in Step, a.do \in {"set", "reset"},
           job' = <<a>> \o _reread_calib_and_broadcast
    PROVE  IInv'
<1>1. <<a>> \in Seq(Step) /\ \A i \in 1..Len(<<a>>) : <<a>>[i].do \in {"set", "reset"}
  OBVIOUS
<1> QED BY <1>1, SettingJob

LEMMA RouteStep == ASSUME IInv, Route PROVE IInv'
<1>1. CASE api_board_calib_get
  <2>1. PICK d \in Boards : Sets(d) /\ job' = <<[do |-> "read"]>>
    BY <1>1 DEF api_board_calib_get, _reread_calib_and_broadcast
  <2>2. job' \in Seq(Step) /\ left' = 1 /\ job'[1].do = "read"
    BY <2>1 DEF left, Step
  <2> QED BY <2>1, <2>2, SetsStep
<1>2. CASE api_board_scale_cfg_set
  <2>1. PICK d \in Boards, v \in Values : Sets(d) /\ job' = <<Set("scale", 0, v)>> \o _reread_calib_and_broadcast
    BY <1>2 DEF api_board_scale_cfg_set
  <2> QED BY <2>1, SetSteps, TwoStepJob DEF Index
<1>3. CASE api_board_amp_ctrl_set \/ api_board_amp_ctrl_bulk_set
  <2>1. PICK d \in Boards, v \in Values : Sets(d) /\ job' = <<Set("amp", 0, v)>> \o _reread_calib_and_broadcast
    BY <1>3 DEF api_board_amp_ctrl_set, api_board_amp_ctrl_bulk_set
  <2> QED BY <2>1, SetSteps, TwoStepJob DEF Index
<1>4. CASE api_board_calib_coef_set
  <2>1. PICK d \in Boards, i \in Index, v \in Values :
            Sets(d) /\ job' = <<Set("coef", i, v)>> \o _reread_calib_and_broadcast
    BY <1>4 DEF api_board_calib_coef_set
  <2> QED BY <2>1, SetSteps, TwoStepJob
<1>5. CASE api_board_calib_coef_bulk_set
  <2>1. PICK d \in Boards, values \in Coefs :
            Sets(d) /\ job' = <<Set("coef", 0, values[0]), Set("coef", 1, values[1])>> \o _reread_calib_and_broadcast
    BY <1>5 DEF api_board_calib_coef_bulk_set
  <2>2. /\ Set("coef", 0, values[0]) \in Step /\ Set("coef", 1, values[1]) \in Step /\ [do |-> "read"] \in Step
        /\ Set("coef", 0, values[0]).do = "set" /\ Set("coef", 1, values[1]).do = "set"
    <3>1. values[0] \in Values /\ values[1] \in Values
      BY DEF Coefs, Index
    <3> QED BY <3>1, SetSteps DEF Index
  <2>3. ASSUME NEW a \in Step, NEW b \in Step, a.do = "set", b.do = "set"
        PROVE  <<a, b>> \in Seq(Step) /\ \A i \in 1..Len(<<a, b>>) : <<a, b>>[i].do \in {"set", "reset"}
    BY <2>3
  <2> QED BY <2>1, <2>2, <2>3, SettingJob
<1>6. CASE api_board_calib_reset
  <2>1. PICK d \in Boards : Sets(d) /\ job' = <<[do |-> "reset"]>> \o _reread_calib_and_broadcast
    BY <1>6 DEF api_board_calib_reset
  <2>2. [do |-> "reset"] \in Step
    BY DEF Step
  <2> QED BY <2>1, <2>2, TwoStepJob
<1>7. CASE api_board_scale_cfg_save_flash \/ api_board_calib_coef_save_flash
  BY <1>7, SaveStep DEF api_board_scale_cfg_save_flash, api_board_calib_coef_save_flash
<1> QED BY <1>1, <1>2, <1>3, <1>4, <1>5, <1>6, <1>7 DEF Route
-----------------------------------------------------------------------------
(* The theorems.                                                           *)

LEMMA Initially == ASSUME Init PROVE IInv
<1>1. Types
  <2>1. BoardTypes
    BY Defaults DEF Init, BoardTypes, AllSectors
  <2>2. HostTypes
    BY Defaults DEF Init, HostTypes, NoAnswer
  <2>3. HistoryTypes
    BY DEF Init, HistoryTypes, Group
  <2> QED BY <2>1, <2>2, <2>3 DEF Types
<1>2. left = 0 /\ ~Saving
  BY DEF Init, left, Saving
<1>3. Jobs
  BY <1>2 DEF Jobs
<1>4. Overwritten /\ Undisturbed
  BY <1>2, ContentsAssumption DEF Init, Overwritten, Undisturbed
<1>5. SavesSurvive /\ BootRestores
  BY DEF Init, SavesSurvive, BootRestores, Group
<1>6. Shown
  BY DEF Init, Shown
<1> QED BY <1>1, <1>3, <1>4, <1>5, <1>6 DEF IInv

LEMMA Stutters == ASSUME IInv, UNCHANGED vars PROVE IInv'
<1>1. UNCHANGED board /\ UNCHANGED history /\ UNCHANGED <<table, job, req, shown, faults>>
  BY DEF vars
<1>2. Jobs' /\ left' = left /\ (Saving' <=> Saving) /\ (Idle' <=> Idle)
  BY <1>1, Parts, JobsSame
<1>3. Types'
  <2>1. faults' \in Nat
    BY <1>1, Parts DEF HostTypes
  <2> QED BY <1>1, <2>1, Parts, BoardSame, HostSame, HistorySame DEF Types
<1>4. Overwritten'
  BY <1>1, <1>2, Parts DEF Overwritten, AtRisk, board, history
<1>5. Undisturbed'
  BY <1>1, <1>2, Parts DEF Undisturbed, Polling, Writing, Stored, board
<1>6. SavesSurvive' /\ BootRestores'
  BY <1>1, Parts, SavesSame, BootSame DEF board, history
<1>7. Shown'
  BY <1>1, <1>2, Parts DEF Shown, board
<1> QED BY <1>2, <1>3, <1>4, <1>5, <1>6, <1>7 DEF IInv

LEMMA Invariance == Spec => []IInv
<1>1. Init => IInv
  BY Initially
<1>2. IInv /\ [Next]_vars => IInv'
  <2> SUFFICES ASSUME IInv, [Next]_vars PROVE IInv'
    OBVIOUS
  <2>1. CASE Work
    BY <2>1, SetRegisterStep, ResetStep, SelectStep, WriteStep, ReadCalibStep, ReadLiveStep, PollStep,
       TimeoutStep DEF Work
  <2>2. ASSUME NEW d \in Boards, Hardware(d) \/ Mishap(d) PROVE IInv'
    BY <2>2, EraseStep, ProgramStep, LoadStep, SpiErrorStep, PowerCycleStep, LoadFailsStep DEF Hardware, Mishap
  <2> QED BY <2>1, <2>2, RouteStep, RaiseStep, Stutters DEF Next
<1> QED BY <1>1, <1>2, PTL DEF Spec

\* What a save has reported as saved is in the flash until its sector is saved again, whatever
\* is set, saved elsewhere, lost on the way or cut off by a loss of power.  Only the sector that
\* is still selected when a later save loses its selection packet may be overwritten (it is in
\* strayed until it has been saved again), and then by nothing that was meant for it.
THEOREM SavedIsKept == Spec => []SavesSurvive
<1>1. IInv => SavesSurvive
  BY DEF IInv
<1> QED BY <1>1, Invariance, PTL

\* ... and the loader brings it back at every power-on, over whatever was set before it came to
\* that sector, unless the sector has been put at risk by a lost selection.
THEOREM BootIsSaved == Spec => []BootRestores
<1>1. IInv => BootRestores
  BY DEF IInv
<1> QED BY <1>1, Invariance, PTL

\* After a request without a fault the page shows what the board has.
THEOREM TabIsLive == Spec => []ShownIsLive
<1>1. IInv => ShownIsLive
  <2>1. req.clean \in BOOLEAN /\ req.ok \in BOOLEAN => (IInv => ShownIsLive)
    BY DEF IInv, Shown, ShownIsLive, d0
  <2> QED BY <2>1, Parts DEF HostTypes
<1> QED BY <1>1, Invariance, PTL
=============================================================================
