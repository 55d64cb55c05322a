------------------------------ MODULE RingLosses ------------------------------
(***************************************************************************)
(* The states of a ring that loses frames: cables drop and boards start    *)
(* over at any time, nobody streams, and the host waits for the ring to    *)
(* settle between its commands.  A GO may be torn or swallowed on the way, *)
(* but it is alone: behind it every hop is clear, ahead of it no GO is     *)
(* left.  Losses is the inductive invariant that this adds up to;          *)
(* Ring_proofs proves it.                                                  *)
(***************************************************************************)
EXTENDS RingPhases

\* The GO decided last.
LastGo == goLog[Len(goLog)]

\* s is a subsequence of the first n elements of t.
Within(s, t, n) ==
    \E at \in [1..Len(s) -> 1..n] :
        /\ \A i, j \in 1..Len(s) : i < j => at[i] < at[j]
        /\ \A i \in 1..Len(s) : s[i] = t[at[i]]
\* The board has fired GOs before the last one only.
LacksLast(b) == Within(fires[b], goLog, Len(goLog) - 1)

-----------------------------------------------------------------------------
(* One hop, forward or backward.                                           *)

Among(q, K) == \A i \in 1..Len(q) : q[i] \in K
\* Whatever the hop carries is of the set.
Only(h, K) == (h.pending => h.slot \in K) /\ h.latch \in K /\ Among(h.link, K)
Clear(h) == ~h.pending /\ h.link = <<>> /\ h.latch = NoFrame

Goless == {f \in Beat : f.type # "GO"}
\* Beats of an enumeration or a trigger, which only the master starts.
PlainBeats == {f \in Beat : /\ f.type \in {"PAYLOAD", "NONE", "ENUM_COUNT", "PAUSE_REQ", "GO"}
                            /\ f.type = "ENUM_COUNT" => f.dest = 0
                            /\ f.type \in {"PAUSE_REQ", "GO"} => f.src = 0}
\* Beats of a reservation, a DIAG or T_BOARD_ID_ASSIGN, and of their answers.
AskingBeats == {f \in Beat : f.type \in {"PAYLOAD", "NONE", "RESERVE_REQ", "DIAG_REQ",
                                         "BOARD_ID_ASSIGN"}}
AnswerBeats == {f \in Beat : f.type \in {"PAYLOAD", "NONE", "RESERVE_ACK", "DIAG_ACK"}}

\* The stages of a GO with group g on its hop.  At any stage the frame may have been
\* cut short by a reset of the sender, and never be completed.
Finishes(h, g) == h.pending => h.half /\ h.slot.pl = g
EndsInHeader(q) == /\ Len(q) >= 1 /\ q[Len(q)].type = "GO"
                   /\ \A i \in 1..Len(q) - 1 : q[i].type # "GO"
EndsInGo(q, g) == /\ Len(q) >= 2 /\ q[Len(q) - 1].type = "GO" /\ IsPayload(q[Len(q)], {g})
                  /\ \A i \in 1..Len(q) - 2 : q[i].type # "GO"
Unsent(h) == h.latch.type # "GO" /\ \A i \in 1..Len(h.link) : h.link[i].type # "GO"
HalfSent(h, g) == h.latch.type # "GO" /\ EndsInHeader(h.link) /\ Finishes(h, g)
WholeSent(h, g) == h.latch.type # "GO" /\ EndsInGo(h.link, g) /\ ~h.pending
HalfTaken(h, g) == h.latch.type = "GO" /\ h.link = <<>> /\ Finishes(h, g)
Arriving(h, g) == /\ h.latch.type = "GO" /\ ~h.pending
                  /\ Len(h.link) = 1 /\ IsPayload(h.link[1], {g})
Travels(h, g) ==
    /\ h.pending /\ h.slot.type = "GO" => h.slot.pl = g
    /\ Unsent(h) \/ HalfSent(h, g) \/ WholeSent(h, g) \/ HalfTaken(h, g) \/ Arriving(h, g)

-----------------------------------------------------------------------------
(* The ring.                                                               *)

Unstreaming == budget["stream"] = 0 /\ \A b \in Board : ~busy[b]

\* The GO that the master has yet to fire for is the last, and its first fire for it.
MasterDue == goTx => goLog # <<>> /\ pendGroup = LastGo /\ LacksLast(Master)

Asking == /\ ~Ready
          /\ \A b \in Board : /\ Only(Hop(b), AskingBeats) /\ Among(relayQ[b], AskingBeats)
                              /\ Only(Back(b), AnswerBeats)
Plain == \A b \in Board : Only(Hop(b), PlainBeats) /\ relayQ[b] = <<>>
NoGo == \A b \in Board : Only(Hop(b), Goless)
\* A GO on its way from s, or what a fault has left of it.
GoAt(s) ==
    /\ ~waiting /\ goLog # <<>> /\ Travels(Hop(s), LastGo)
    /\ \A b \in Board : Dist(b) < Dist(s) => Clear(Hop(b))
    /\ \A b \in Board : b # s => Only(Hop(b), Goless)
    /\ \A b \in Board : Dist(b) > Dist(s) => LacksLast(b)

Losses == /\ Unstreaming /\ FiresAreGos /\ MasterDue
          /\ Asking \/ (Plain /\ (NoGo \/ \E s \in Board : GoAt(s)))

\* A host and a ring of which this is proved.
PacedHost == Paced /\ Budget["stream"] = 0
=============================================================================
