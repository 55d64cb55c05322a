------------------------------ MODULE RingPhases ------------------------------
(***************************************************************************)
(* The states of a calm ring: no cable fails, no board is reset, and the   *)
(* host waits for the ring to settle between its commands.  Such a ring    *)
(* works in phases, each with one control frame going round; the two       *)
(* exceptions are the ACKs, which travel the other way, and the tail of a  *)
(* PAUSE_REQ that is still on its way from the last board to the master    *)
(* when the GO leaves.  Calm is the inductive invariant that this adds up  *)
(* to; Ring_proofs proves it.                                              *)
(***************************************************************************)
EXTENDS RingBarrier

Slaves == Board \ {Master}
LastBoard == Pred(Master)

-----------------------------------------------------------------------------
(* One hop forward: the slot of a board, the cable to its successor and    *)
(* the header the successor has latched.  Data frames may be anywhere.     *)

Hop(b) == [slot |-> fwd[b], pending |-> fwdPending[b], half |-> ftxBeat1[b],
           link |-> fLink[b], latch |-> frx[Succ(b)]]

OnlyData(q, except) == \A i \in 1..Len(q) : i \in except \/ q[i].type \in DataTypes
IsPayload(f, payloads) == f.type = "PAYLOAD" /\ f.pl \in payloads

Idle(h) == ~h.pending /\ ~h.half /\ h.latch = NoFrame /\ OnlyData(h.link, {})

\* The hop carries one control frame, with one of these headers, one of these
\* payloads and nothing else, at one of the stages of its way.
InSlot(h, headers, payloads) ==
    /\ h.pending /\ ~h.half /\ h.slot \in headers /\ h.slot.pl \in payloads
    /\ h.latch = NoFrame /\ OnlyData(h.link, {})
HeaderSent(h, headers, payloads) ==
    /\ h.pending /\ h.half /\ h.slot \in headers /\ h.slot.pl \in payloads
    /\ h.latch = NoFrame /\ h.link # <<>> /\ h.link[Len(h.link)] \in headers
    /\ OnlyData(h.link, {Len(h.link)})
HeaderTaken(h, headers, payloads, latches) ==
    /\ h.pending /\ h.half /\ h.slot \in headers /\ h.slot.pl \in payloads
    /\ h.link = <<>> /\ h.latch \in latches
Sent(h, headers, payloads) ==
    /\ ~h.pending /\ ~h.half /\ h.latch = NoFrame
    /\ \E i \in 1..Len(h.link) - 1 :
         /\ h.link[i] \in headers /\ IsPayload(h.link[i + 1], payloads)
         /\ OnlyData(h.link, {i, i + 1})
PayloadLeft(h, payloads, latches) ==
    /\ ~h.pending /\ ~h.half /\ h.latch \in latches
    /\ h.link # <<>> /\ IsPayload(h.link[1], payloads) /\ OnlyData(h.link, {1})
Carries(h, headers, payloads, latches) ==
    \/ InSlot(h, headers, payloads) \/ HeaderSent(h, headers, payloads)
    \/ HeaderTaken(h, headers, payloads, latches) \/ Sent(h, headers, payloads)
    \/ PayloadLeft(h, payloads, latches)

\* The hop from the last board to the master, where frames end: only their kind counts.
Ends(h, headers) ==
    /\ h.half => h.pending
    /\ h.pending => h.slot \in headers
    /\ h.latch \in headers \cup {NoFrame}
    /\ \A i \in 1..Len(h.link) : \/ h.link[i] \in headers
                                 \/ h.link[i].type \in DataTypes \cup {"PAYLOAD"}

Empty == \A b \in Board : Idle(Hop(b))
AloneAt(s, headers, payloads, latches) ==
    /\ Carries(Hop(s), headers, payloads, latches)
    /\ \A b \in Board \ {s} : Idle(Hop(b))

-----------------------------------------------------------------------------
(* One hop backward, where several ACKs may follow each other.             *)

Back(b) == [slot |-> bwd[b], pending |-> bwdPending[b], half |-> btxBeat1[b],
            link |-> bLink[b], latch |-> brx[Pred(b)]]

BackIdle(h) == ~h.pending /\ ~h.half /\ h.latch = NoFrame /\ h.link = <<>>

\* Every header is followed by a payload.
Framed(h) ==
    /\ \A i \in 1..Len(h.link) - 1 : h.link[i].type # "PAYLOAD" => h.link[i + 1].type = "PAYLOAD"
    /\ h.link # <<>> /\ h.link[Len(h.link)].type # "PAYLOAD" => h.half
    /\ h.latch # NoFrame => IF h.link = <<>> THEN h.half ELSE h.link[1].type = "PAYLOAD"

\* The ACKs of the hop have these headers and these payloads, not necessarily
\* paired: a slot may be overwritten between its two beats.
Answers(h, headers, payloads) ==
    /\ Framed(h)
    /\ h.half => h.pending
    /\ h.pending => h.slot \in headers /\ h.slot.pl \in payloads
    /\ h.latch = NoFrame \/ (h.latch \in headers /\ h.latch.src # Unassigned)
    /\ \A i \in 1..Len(h.link) : h.link[i] \in headers \/ IsPayload(h.link[i], payloads)

NoAcks == \A b \in Board : BackIdle(Back(b))
Acks(headers, payloads) == \A b \in Board : Answers(Back(b), headers, payloads)

-----------------------------------------------------------------------------
(* What holds in every phase.                                              *)

\* Every board but the master has the index its place in the ring gives it.
Numbered == \A b \in Slaves : boardIndex[b] = Dist(b)

Healthy == /\ budget["down"] = 0 /\ budget["reset"] = 0
           /\ \A b \in Board : up[b]

\* Ids and board counts are the right ones or not there yet; ids come after all indices.
Numbers ==
    /\ \A b \in Slaves : /\ boardIndex[b] \in {0, Dist(b)}
                         /\ boardId[b] \in {Unassigned, Dist(b)}
                         /\ boardId[b] # Unassigned => Numbered
    /\ \A b \in Board : totalIn[b] \in {0, N} /\ (totalIn[b] # 0 => Numbered)
    /\ total \in {0, N}
    /\ initOk => total = N /\ Numbered

\* What the slots, latches, links and relay FIFOs can hold.
ReqBeat == {f \in Beat : f.type \in FwdTypes \cup {"NONE"}}
LawfulBeat == {f \in Beat : f.type = "BOARD_ID_ASSIGN" => f.src = 0 /\ f.dest = Bcast /\ f.pl = N}
LawfulData == {f \in LawfulBeat : f.type \in DataTypes}
Lawful == /\ fwd \in [Board -> ReqBeat]
          /\ fLink \in [Board -> Seq(LawfulBeat)] /\ relayQ \in [Board -> Seq(LawfulData)]

Holds(q, type) == \E i \in 1..Len(q) : q[i].type = type
AssignOn(b) == Holds(fLink[b], "BOARD_ID_ASSIGN") \/ Holds(relayQ[b], "BOARD_ID_ASSIGN")
NoAssign == \A b \in Board : ~AssignOn(b)
\* A board without the count of boards still has T_BOARD_ID_ASSIGN coming to it.
AssignComes ==
    totalIn[Master] # 0 =>
        \A c \in Slaves : totalIn[c] = 0 => \E b \in Board : AssignOn(b) /\ Dist(b) < Dist(c)

\* No board has fired what was not decided, or is more than the last GO behind.
FiredInOrder ==
    \A b \in Board : IsPrefixOf(fires[b], goLog) /\ Len(goLog) <= Len(fires[b]) + 1
Owes(b) == Len(fires[b]) < Len(goLog)
NoneOwes == ~goTx /\ \A b \in Board : ~Owes(b)

\* Each trigger command decides one GO at most.
GosCounted ==
    /\ Len(goLog) + budget["trig"] + (IF waiting THEN 1 ELSE 0) <= Budget["trig"]
    /\ waiting \/ goTx => pendGroup \in GroupSel
    /\ goTx => goLog # <<>> /\ pendGroup = goLog[Len(goLog)]

\* Nobody has started a data frame yet: no lock was opened by the end of one.
NoStream == budget["stream"] = Budget["stream"]
Unstreamed ==
    /\ budget["stream"] <= Budget["stream"]
    /\ NoStream => \A b \in Board : /\ ~busy[b] /\ ~Holds(fLink[b], "DATA_LAST")
                                    /\ ~Holds(relayQ[b], "DATA_LAST")
LockedUpTo(n) == NoStream => \A b \in Slaves : Dist(b) <= n => locked[b]

\* Every ACK counted was sent by another board that has locked itself.
AcksCounted ==
    waiting => /\ ackMask \subseteq {Dist(b) : b \in Slaves}
               /\ ackCount = Cardinality(ackMask)
               /\ NoStream => locked[Master] /\ \A b \in Slaves : Dist(b) \in ackMask => locked[b]

\* All ACKs are in: the master queues its GO as soon as its slot is free.
Ready == waiting /\ ~goSent /\ TotalEff > 0 /\ ackCount = TotalEff - 1

-----------------------------------------------------------------------------
(* The phases.                                                             *)

Requests(type, dest) == {f \in Beat : f.type = type /\ f.dest = dest}
Broadcasts(type) == {f \in Beat : f.type = type /\ f.src = 0 /\ f.dest = Bcast}

Passed(headers) == {f \in headers : f.dest # Unassigned} \cup {NoFrame}

Resting == Empty /\ NoAcks /\ NoAssign /\ NoneOwes

Counts == {f \in Beat : f.type = "ENUM_COUNT" /\ f.src = 0 /\ f.dest = 0}
Enumerating ==
    /\ NoAcks /\ NoAssign /\ NoneOwes /\ ~Ready
    /\ \E s \in Board : /\ AloneAt(s, Counts, {Dist(s)}, Counts)
                        /\ \A b \in Slaves : Dist(b) <= Dist(s) => boardIndex[b] = Dist(b)

Assigning == Empty /\ NoAcks /\ NoneOwes /\ ~Ready /\ Numbered

PauseAcks == {f \in Beat : f.type = "PAUSE_ACK" /\ (f.src # Unassigned => Numbered)}
IndicesUpTo(n) == {boardIndex[b] : b \in {c \in Slaves : Dist(c) <= n}}
AckedUpTo(n) == /\ Acks(PauseAcks, IndicesUpTo(n))
                /\ \A i \in ackMask : i <= n
                /\ LockedUpTo(n)
Pauses == Broadcasts("PAUSE_REQ")
Pausing ==
    /\ waiting /\ NoAssign /\ NoneOwes
    /\ \/ Empty /\ \E n \in 0..N-1 : AckedUpTo(n)
       \/ \E s \in Board : AloneAt(s, Pauses, Word, Pauses) /\ AckedUpTo(Dist(s))

Gos == Broadcasts("GO")
AnyPauseAck == {f \in Beat : f.type = "PAUSE_ACK"}
\* The GO is on its way from s: the boards beyond s owe their fire.
Going ==
    /\ ~waiting /\ NoAssign /\ Acks(AnyPauseAck, Word)
    /\ \E s \in Board \ {LastBoard} :
         /\ goLog # <<>> /\ Carries(Hop(s), Gos, {goLog[Len(goLog)]}, Gos)
         /\ \A b \in Board \ {s, LastBoard} : Idle(Hop(b))
         /\ Ends(Hop(LastBoard), Pauses)
         /\ goTx => s = Master
         /\ Owes(Master) <=> goTx
         /\ \A b \in Slaves : Owes(b) <=> Dist(b) > Dist(s)
Gone ==
    /\ ~waiting /\ NoAssign /\ NoneOwes /\ Acks(AnyPauseAck, Word)
    /\ \A b \in Board \ {LastBoard} : Idle(Hop(b))
    /\ Ends(Hop(LastBoard), Pauses \cup Gos)

ReserveAcks == {f \in Beat : f.type = "RESERVE_ACK"}
Grants == {x \in {0, 1} : x = 1 => LockedUpTo(resDest)}
Reserving ==
    LET reqs == Requests("RESERVE_REQ", resDest) IN
    /\ NoAssign /\ NoneOwes /\ ~Ready /\ Acks(ReserveAcks, Grants)
    /\ Empty \/ \E s \in Board : AloneAt(s, reqs, Word, Passed(reqs)) /\ LockedUpTo(Dist(s))

DiagAcks == {f \in Beat : f.type = "DIAG_ACK" /\ f.src = diagDest}
\* target, both cables up, not blocked; the index above bit 4.
Healths == {x \in Word : x % 16 = 7}
Diagnosing ==
    LET reqs == Requests("DIAG_REQ", diagDest) IN
    /\ NoAssign /\ NoneOwes /\ ~Ready /\ Acks(DiagAcks, Healths)
    /\ Empty \/ \E s \in Board : AloneAt(s, reqs, Word, Passed(reqs))

Phases == \/ Resting \/ Enumerating \/ Assigning \/ Pausing \/ Going \/ Gone
          \/ Reserving \/ Diagnosing

Calm == /\ Healthy /\ Numbers /\ Lawful /\ AssignComes /\ Unstreamed /\ FiredInOrder
        /\ GosCounted /\ AcksCounted /\ Phases

\* A host and a ring of which this is proved.
CalmHost == /\ Paced /\ N <= AckWidth /\ Manual \in {0, N}
            /\ Budget["down"] = 0 /\ Budget["reset"] = 0
=============================================================================
