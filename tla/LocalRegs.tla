------------------------------ MODULE LocalRegs -------------------------------
(***************************************************************************)
(* local_reg_handler.v: the packets for this board's own registers.  It    *)
(* takes a beat in every cycle, keeps what a packet needs until its last   *)
(* beat, and then raises a pulse for one cycle with the values beside it.  *)
(***************************************************************************)
EXTENDS Packets

CONSTANT MaxWords    \* REPLY_MAX_WORDS and the type word before them
ASSUME MaxWordsAssumption == MaxWords \in Nat \ {0, 1}

VARIABLES
    lstate,       \* state: "idle" or "data"
    lremaining,   \* remaining
    header,       \* pkt_type, pkt_src_id, pkt_dest_id
    beatIdx,      \* beat_idx
    listWord,     \* listWord[k]: list_sel_l, list_addr_l, kept from beat to beat
    pulse,        \* the pulse that is up, with the values beside it; << >> when none is
    reply,        \* au_reply_src; au_reply_query_type and reply_payload_words as word[k]
    replyWr,      \* au_reply_wr
    struck        \* history: a debug trigger has come between the beats of this report

localVars == <<lstate, lremaining, header, beatIdx, listWord, pulse, reply, replyWr, struck>>

LocalInit ==
    /\ lstate = "idle" /\ lremaining = 0 /\ header = NoBeat /\ beatIdx = 0
    /\ listWord = [k \in 1..2 |-> NoBeat] /\ pulse = <<>>
    /\ reply = [src |-> NoBeat, word |-> [k \in 1..MaxWords |-> NoBeat]]
    /\ replyWr = FALSE /\ struck = FALSE
-----------------------------------------------------------------------------
\* Answers written beside the packets.  aurora_reply_tx.v answers a T_QUERY of this board's
\* own in the cycle in which req_reply is up; ti_debug_reply_trig comes from a host when it
\* likes.  Word k of an answer is told by its source: the query's header, or NoBeat.
AnswerWord(a, k) == [a EXCEPT !.i = k + 1, !.own = (a.h.kind # "report")]
Answer(a) == [src |-> a, word |-> [k \in 1..MaxWords |-> AnswerWord(a, k)]]
Written(aside) ==
    IF "own" \in aside THEN Answer(pulse[1]) ELSE IF "debug" \in aside THEN Answer(NoBeat) ELSE reply

\* A T_STATUS_REPORT that is arriving, and its last beat.  (Variant: it does not wait for it.)
Reporting == lstate = "data" /\ header.h.kind = "report"
ReportedEarly == Reporting
Reported == Reporting /\ lremaining = 1

\* The answer registers in a cycle whose beat is b: a word of a report, written after the
\* answers beside it, and its source with the last one.
TakeReply(b, aside) ==
    LET w == Written(aside) IN
    /\ IF Reporting /\ b # NoBeat
       THEN /\ reply' = [src |-> IF Reported THEN header ELSE w.src, word |-> [w.word EXCEPT ![beatIdx] = b]]
            /\ replyWr' = (Reported \/ aside # {})
       ELSE reply' = w /\ replyWr' = (aside # {})
    /\ struck' = (Reporting /\ (struck \/ "debug" \in aside))

\* ST_IDLE: a header; a packet of one beat takes effect with it, and padding is skipped.
TakeHeader(b) ==
    /\ lstate = "idle" /\ b.h.len # 0
    /\ header' = b
    /\ IF b.h.len = 1 THEN UNCHANGED <<lstate, lremaining, beatIdx>>
       ELSE lstate' = "data" /\ lremaining' = b.h.len - 1 /\ beatIdx' = 1
    /\ pulse' = IF b.h.len = 1 /\ b.h.kind = "enum" THEN <<b>> ELSE <<>>
    /\ UNCHANGED listWord

\* ST_DATA.  T_LIST_WRITE keeps two words and takes the third from the wire; the other kinds
\* need the last beat only; waveforms and flash data mean nothing here.
Effect(b) ==
    IF lremaining # 1 \/ header.h.kind \in {"wave", "flash", "report"} THEN <<>>
    ELSE IF header.h.kind = "list"
         THEN IF beatIdx = 3 THEN <<header, listWord[1], listWord[2], b>> ELSE <<>>
    ELSE <<header, b>>
TakeData(b) ==
    /\ lstate = "data" /\ b # NoBeat
    /\ listWord' = IF header.h.kind = "list" /\ beatIdx < 3 THEN [listWord EXCEPT ![beatIdx] = b] ELSE listWord
    /\ pulse' = Effect(b)
    /\ lremaining' = lremaining - 1 /\ beatIdx' = beatIdx + 1
    /\ lstate' = IF lremaining = 1 THEN "idle" ELSE "data"
    /\ UNCHANGED header

\* clear_pulses.
TakeNothing(b) ==
    /\ IF lstate = "idle" THEN b.h.len = 0 ELSE b = NoBeat
    /\ pulse' = <<>>
    /\ UNCHANGED <<lstate, lremaining, header, beatIdx, listWord>>

\* A cycle in which async_fifo_local shows b, or nothing, and the answers in aside are
\* written beside it.
TakeLocal(b, aside) ==
    /\ TakeHeader(b) \/ TakeData(b) \/ TakeNothing(b)
    /\ TakeReply(b, aside)
-----------------------------------------------------------------------------
LocalTypeOK ==
    /\ lstate \in {"idle", "data"} /\ lremaining \in Nat
    /\ header \in Beat /\ beatIdx \in Nat
    /\ listWord \in [1..2 -> Beat] /\ pulse \in Seq(Beat)
    /\ reply \in [src : Beat, word : [1..MaxWords -> Beat]] /\ replyWr \in BOOLEAN /\ struck \in BOOLEAN

\* A pulse comes with the values of one whole packet, each from its own beat: none is left
\* over from an earlier packet or missing.  Those of a T_BOARD_ID_ASSIGN are this board's
\* exactly when the packet came by USB.
PulseWhole == pulse # <<>> =>
    /\ \A k \in 1..Len(pulse) : pulse[k].no = pulse[1].no /\ pulse[k].h = pulse[1].h /\ pulse[k].i = k
    /\ Len(pulse) = pulse[1].h.len
    /\ \A k \in 2..Len(pulse) :
           pulse[k].own <=> (pulse[1].own /\ pulse[1].h.kind = "assign" /\ k = 2)
\* When au_reply_wr is up the answer registers hold one answer, whole: a report's words, the
\* board's own answer or the debug pattern.  Only a debug trigger between the beats of a report
\* can mix two; the code leaves it to the host that the two are never used together.
ReplyWhole == replyWr /\ ~struck =>
    LET a == reply.src IN
    \A k \in 1..(IF a.h.kind = "report" THEN a.h.len - 1 ELSE MaxWords) : reply.word[k] = AnswerWord(a, k)
FiredWhole == PulseWhole /\ ReplyWhole
=============================================================================
