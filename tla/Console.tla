-------------------------------- MODULE Console --------------------------------
(***************************************************************************)
(* The web console, src/host/web/app.py: one Flask process in front of the *)
(* master board, any number of browsers.  Every request that uses the      *)
(* boards runs under _lock; what a board cannot be asked for is known only *)
(* from _status_cache and from the file it is kept in.                     *)
(*                                                                         *)
(* A request is its list of steps, the order of the statements of its      *)
(* route, carried out one at a time while browsers connect and read, the   *)
(* boards lose power and the process dies.  Values are abstract: what a    *)
(* board is told is a member of Settings, 0 is what it has after power-on. *)
(***************************************************************************)
EXTENDS Naturals, Sequences, FiniteSets

CONSTANTS N,            \* boards of the ring
          Nominal,      \* NOMINAL_BOARD_COUNT, the boards BOARD_MAP lists
          Settings,     \* what the requests carry for good
          Readings,     \* what they set that can be read back
          Viewers,      \* browsers
          None, Torn, Raised,
          MaxRequests, MaxFaults, MaxQueue   \* bounds of the model

Boards == 0..(N - 1)
Known == 0..((IF N > Nominal THEN N ELSE Nominal) - 1)
Values == Settings \cup Readings \cup {0}
Good == 0                     \* ext_clk_freq_hz within EXT_CLK_TOLERANCE of EXT_CLK_EXPECT_HZ

\* What a board holds: two things it can be asked for (QT_BOARD_INFO, QT_TRIGGER_GROUP),
\* its clock, which is measured, and three things it is only ever told.
Told == {"trig_timer", "armed_ddr", "sine_slots"}
Board == [info : Values, group : Values, clock : Values, trig_timer : Values,
          armed_ddr : Values, sine_slots : Values]
PowerOn == [info |-> 0, group |-> 0, clock |-> Good, trig_timer |-> 0, armed_ddr |-> 0,
            sine_slots |-> 0]

\* An entry of _status_cache; info and group keep the board that answered (_src).
_STICKY_KEYS == Told \cup {"ext_clk_freq_hz"}
Keys == _STICKY_KEYS \cup {"error", "info", "group"}
NoEntry == [k \in Keys |-> None]
ErrorEntry == [NoEntry EXCEPT !["error"] = 0]
Filed == (Boards \X Values) \cup {None}
Noted == Values \cup {None}
Entry == [info : Filed, group : Filed, error : Noted, ext_clk_freq_hz : Noted,
          trig_timer : Noted, armed_ddr : Noted, sine_slots : Noted]
Caches == [Known -> Entry]
Empty == [d \in Known |-> NoEntry]

\* The answer table: what was asked, who answered, what.
Table == [qt : {"none", "info", "group", "other"}, src : Boards, val : Values]

ASSUME ConsoleAssumption ==
    /\ N \in Nat \ {0} /\ Nominal \in Nat \ {0} /\ Settings \cup Readings \subseteq Nat \ {0}
    /\ None \notin Nat \cup (Boards \X Values) /\ Torn \notin Caches /\ Raised \notin Values \cup Table
    /\ {MaxRequests, MaxFaults, MaxQueue} \subseteq Nat

VARIABLES
    hw,          \* hw[d]: what board d holds
    named,       \* the boards have their board_id and answer to it
    total,       \* total_boards in the master's register
    table,       \* the answer table of the master: the last answer that came
    usb,         \* _fp is a handle that works
    srv,         \* the process: "down", "starting" (no requests yet), "up"
    cache,       \* _status_cache
    file,        \* STATE_FILE: an old cache, or Torn
    req,         \* the request that has _lock, or had it last
    job,         \* its remaining steps; _lock is free when there are none
    sub, inbox,  \* each browser's /api/events: its state and its queue
    page,        \* lastStatus in each browser
    requests, faults,
    unsure,      \* history: <<d, k>> where the board may not hold what was recorded
    kept         \* history: the cache when an idle process died, else Torn

ring == <<hw, named, total, table>>
web == <<sub, inbox, page>>
history == <<unsure, kept>>
vars == <<ring, usb, srv, cache, file, req, job, web, requests, faults, history>>

Idle == srv = "up" /\ job = <<>>
Init == /\ hw = [d \in Boards |-> PowerOn] /\ named = FALSE /\ total = 0
        /\ table = [qt |-> "none", src |-> 0, val |-> 0]
        /\ usb = FALSE /\ srv = "down" /\ cache = Empty /\ file = Empty
        /\ req = [name |-> "none", d |-> 0, k |-> "none", clean |-> FALSE] /\ job = <<>>
        /\ sub = [v \in Viewers |-> "off"] /\ inbox = [v \in Viewers |-> <<>>]
        /\ page = [v \in Viewers |-> Empty]
        /\ requests = 0 /\ faults = 0 /\ unsure = {} /\ kept = Torn
-----------------------------------------------------------------------------
(***************************************************************************)
(* Asking a board.  read_status_reply takes whatever answer the table      *)
(* holds after the wait; the callers look at its query type only.          *)
(***************************************************************************)
Answer(d, qt) == [qt |-> qt, src |-> d, val |-> IF qt \in {"info", "group"} THEN hw[d][qt] ELSE 0]
Answers(d) == named /\ d \in Boards

Fault == faults < MaxFaults /\ faults' = faults + 1 /\ req' = [req EXCEPT !.clean = FALSE]
Smooth == UNCHANGED <<faults, req>>

\* r: the answer taken, or Raised when the USB transfer failed.
query_board(d, qt, r) ==
    \/ usb /\ Answers(d) /\ r = Answer(d, qt) /\ table' = r /\ Smooth
    \/ usb /\ Answers(d) /\ r = table /\ table' \in {table, Answer(d, qt)} /\ Fault
    \/ usb /\ ~Answers(d) /\ r = table /\ UNCHANGED <<table, faults>> /\ req' = [req EXCEPT !.clean = FALSE]
    \/ usb /\ r = Raised /\ UNCHANGED table /\ Fault
    \/ ~usb /\ r = Raised /\ UNCHANGED <<table, faults>> /\ req' = [req EXCEPT !.clean = FALSE]
Replies == Table \cup {Raised}

_carry_sticky_fields(d, new) ==
    [k \in Keys |-> IF k \in _STICKY_KEYS /\ cache[d][k] # None THEN cache[d][k] ELSE new[k]]

\* The dict query_board_info returns: an answer of another type is an error of its own kind.
query_board_info(r) == IF r.qt = "info" THEN [NoEntry EXCEPT !["info"] = <<r.src, r.val>>] ELSE ErrorEntry

\* Every queue of a browser that has subscribed gets every event.  (Variant: only those that
\* have room for it.)
broadcastIfRoom(event) ==
    inbox' = [v \in Viewers |-> IF sub[v] # "off" /\ inbox[v] = <<>> THEN Append(inbox[v], event) ELSE inbox[v]]
broadcast(event) == inbox' = [v \in Viewers |-> IF sub[v] # "off" THEN Append(inbox[v], event) ELSE inbox[v]]
-----------------------------------------------------------------------------
(***************************************************************************)
(* The steps requests are made of.                                         *)
(***************************************************************************)
Do(step) == job # <<>> /\ Head(job).do = step
Next_step == job' = Tail(job)
This == Head(job)

Doubt(d, k) == unsure \cup ({<<d, k>>} \cap (Boards \X Told))

\* A command that sets something on the board.  A board without a board_id does not hear
\* it; a transfer that fails leaves a waveform half replaced, and ends the request.
Command ==
    /\ Do("command")
    /\ LET d == This.d  k == This.k IN
       \/ /\ usb /\ Next_step /\ Smooth
          /\ hw' = IF named THEN [hw EXCEPT ![d][k] = This.v] ELSE hw
          /\ unsure' = IF named /\ ~This.told THEN unsure \ {<<d, k>>} ELSE Doubt(d, k)
       \/ /\ usb /\ job' = <<>> /\ Fault
          /\ hw' \in {hw} \cup (IF named /\ k = "armed_ddr" THEN {[hw EXCEPT ![d][k] = 0]} ELSE {})
          /\ unsure' = Doubt(d, k)
       \/ /\ ~usb /\ job' = <<>> /\ UNCHANGED <<hw, faults, unsure>>
          /\ req' = [req EXCEPT !.clean = FALSE]
    /\ UNCHANGED <<named, total, table, usb, srv, cache, file, web, requests, kept>>

\* A query whose answer the cache does not keep.  It ends a request that insists on it.
Consult ==
    /\ Do("consult")
    /\ \E r \in Replies :
        /\ query_board(This.d, This.qt, r)
        /\ job' = IF This.insist /\ (r = Raised \/ (r # Raised /\ r.qt # This.qt)) THEN <<>> ELSE Tail(job)
    /\ UNCHANGED <<hw, named, total, usb, srv, cache, file, web, requests, history>>

\* query_board_info after a command: kept if it is one, with what only the cache knows.
Reread ==
    /\ Do("reread")
    /\ \E r \in Replies :
        /\ query_board(This.d, "info", r)
        /\ job' = IF r = Raised THEN <<>> ELSE Tail(job)
        /\ cache' = IF r # Raised /\ r.qt = "info"
                    THEN [cache EXCEPT ![This.d] = _carry_sticky_fields(This.d, query_board_info(r))]
                    ELSE cache
    /\ UNCHANGED <<hw, named, total, usb, srv, file, web, requests, history>>

\* read_trig_group: an answer of another type is None.  refresh_all_status passes over a
\* board in error and shrugs at a failure; the routes of one board give up.
Broken(d) == cache[d] = NoEntry \/ cache[d]["error"] # None
Regroup ==
    /\ Do("regroup") /\ (This.insist \/ ~Broken(This.d))
    /\ \E r \in Replies :
        /\ query_board(This.d, "group", r)
        /\ LET good == r # Raised /\ r.qt = "group" IN
           /\ job' = IF good \/ ~This.insist THEN Tail(job) ELSE <<>>
           /\ cache' = IF good /\ cache[This.d] # NoEntry
                       THEN [cache EXCEPT ![This.d]["group"] = <<r.src, r.val>>] ELSE cache
    /\ UNCHANGED <<hw, named, total, usb, srv, file, web, requests, history>>

\* measure_ext_clk_freq_remote: two counts and their difference, whoever sent them.
Measure ==
    /\ Do("measure") /\ (This.insist \/ ~Broken(This.d))
    /\ \E f \in Readings \cup {0, Raised} :
        /\ \/ usb /\ Answers(This.d) /\ f = hw[This.d].clock
              /\ table' = Answer(This.d, "info") /\ Smooth
           \/ usb /\ Answers(This.d) /\ table' \in {table, Answer(This.d, "info")} /\ Fault
           \/ usb /\ ~Answers(This.d) /\ f \in Readings
              /\ UNCHANGED <<table, faults>> /\ req' = [req EXCEPT !.clean = FALSE]
           \/ ~usb /\ f = Raised /\ UNCHANGED <<table, faults>> /\ req' = [req EXCEPT !.clean = FALSE]
        /\ job' = IF f = Raised /\ This.insist THEN <<>> ELSE Tail(job)
        /\ cache' = IF f # Raised /\ cache[This.d] # NoEntry
                    THEN [cache EXCEPT ![This.d]["ext_clk_freq_hz"] = f] ELSE cache
    /\ UNCHANGED <<hw, named, total, usb, srv, file, web, requests, history>>

PassOver == /\ job # <<>> /\ This.do \in {"regroup", "measure"} /\ ~This.insist /\ Broken(This.d)
            /\ Next_step
            /\ UNCHANGED <<ring, usb, srv, cache, file, req, web, requests, faults, history>>

\* _status_cache.setdefault(dest_id, {})[key] = what the request carried.
\* (Variant: a setdefault of the key as well.)
RecordFirst ==
    /\ Do("record") /\ Next_step
    /\ cache' = [cache EXCEPT ![This.d][This.k] = IF @ = None THEN This.v ELSE @]
    /\ UNCHANGED <<ring, usb, srv, file, req, web, requests, faults, history>>
Record ==
    /\ Do("record") /\ Next_step
    /\ cache' = [cache EXCEPT ![This.d][This.k] = This.v]
    /\ UNCHANGED <<ring, usb, srv, file, req, web, requests, faults, history>>

\* The events that change lastStatus: everything for "status", one field for "arm".
Push ==
    /\ Do("push") /\ Next_step
    /\ broadcast([type |-> This.type, d |-> req.d, boards |-> cache])
    /\ UNCHANGED <<ring, usb, srv, cache, file, req, sub, page, requests, faults, history>>

\* _persist_status: open(STATE_FILE, "w") empties the file, json.dump fills it.
Truncate ==
    /\ Do("truncate") /\ Next_step /\ file' = Torn
    /\ UNCHANGED <<ring, usb, srv, cache, req, web, requests, faults, history>>
Dump ==
    /\ Do("dump") /\ Next_step /\ file' = cache
    /\ UNCHANGED <<ring, usb, srv, cache, req, web, requests, faults, history>>
-----------------------------------------------------------------------------
(***************************************************************************)
(* refresh_all_status.  The length of the rest depends on total_boards,    *)
(* which is in every answer of the right type.                             *)
(***************************************************************************)
Step(what, d) == [do |-> what, d |-> d, insist |-> FALSE]
_persist_status == <<[do |-> "truncate"], [do |-> "dump"]>>
PushStatus == <<[do |-> "push", type |-> "status"]>>
\* (Variant: the last board is left out.)
AskAllButLast(n) == [i \in 1..(n - 2) |-> Step("ask", i)]
Ask(n) == [i \in 1..(n - 1) |-> Step("ask", i)]
Details(n) == [i \in 1..(2 * n) |->
    IF i % 2 = 1 THEN Step("measure", (i - 1) \div 2) ELSE Step("regroup", (i - 2) \div 2)]

\* A query that raises throws the entry away; an answer of the wrong type only replaces
\* what boards can be asked for.  (Variant: it replaces the entry.)
AskedAnew(r, d) == IF r = Raised THEN ErrorEntry ELSE query_board_info(r)
Asked(r, d) == IF r = Raised THEN ErrorEntry ELSE _carry_sticky_fields(d, query_board_info(r))

AskMaster ==
    /\ Do("master")
    /\ \E r \in Replies :
        /\ query_board(0, "info", r)
        /\ cache' = [cache EXCEPT ![0] = Asked(r, 0)]
        /\ LET n == IF r = Raised \/ (r # Raised /\ r.qt # "info") \/ total = 0 THEN Nominal ELSE total IN
           job' = Ask(n) \o Details(n) \o PushStatus \o _persist_status
    /\ UNCHANGED <<hw, named, total, usb, srv, file, web, requests, history>>
AskBoard ==
    /\ Do("ask") /\ Next_step
    /\ \E r \in Replies :
        /\ query_board(This.d, "info", r)
        /\ cache' = [cache EXCEPT ![This.d] = Asked(r, This.d)]
    /\ UNCHANGED <<hw, named, total, usb, srv, file, web, requests, history>>
refresh_all_status == <<[do |-> "master"]>>
-----------------------------------------------------------------------------
(***************************************************************************)
(* Initialize System: connect, run_init (module BringUp has its phases),  *)
(* then the entries of the boards that answered.  How far it gets decides  *)
(* what it returns: nothing, entries, or entries with the measured clock.  *)
(***************************************************************************)
\* open_board leaves the process without a handle that works when no board is attached.
connect(ok) == usb' = ok

Found(d, bad, measured) ==
    IF d \in bad THEN ErrorEntry
    ELSE [NoEntry EXCEPT !["info"] = <<d, hw'[d].info>>,
                         !["ext_clk_freq_hz"] = IF measured THEN hw[d].clock ELSE None]
RunInit ==
    /\ Do("init")
    /\ \/ \E ok \in BOOLEAN :     \* open_board exits, or a transfer raises on the way
          /\ connect(ok) /\ job' = <<>> /\ Fault
          /\ named' \in (IF ok THEN {named, TRUE} ELSE {named}) /\ total' = (IF named' THEN N ELSE total)
          /\ UNCHANGED <<hw, table>>
       \/ /\ connect(TRUE) /\ UNCHANGED <<hw, named, total, table>> /\ Fault
          /\ job' = <<[do |-> "result", boards |-> Empty]>> \o _persist_status
       \/ \E bad \in SUBSET Boards, measured \in BOOLEAN :
          /\ connect(TRUE) /\ named' = TRUE /\ total' = N
          /\ LET done == measured /\ \A d \in Boards : hw[d].clock = Good IN
             hw' = IF done THEN [d \in Boards |-> [hw[d] EXCEPT !.info = 0]] ELSE hw
          /\ table' = Answer(N - 1, "other")
          /\ IF measured THEN bad = {} /\ Smooth ELSE Fault
          /\ LET found == [d \in Known |-> IF d \in Boards THEN Found(d, bad, measured) ELSE NoEntry] IN
             job' = [i \in 1..N |-> [do |-> "absorb", d |-> i - 1, e |-> found[i - 1]]]
                    \o <<[do |-> "result", boards |-> found]>> \o _persist_status
    /\ UNCHANGED <<srv, cache, file, web, requests, history>>

\* The group is read, the old sticky fields are laid over the new entry, and it is kept.
Absorb ==
    /\ Do("absorb") /\ Next_step
    /\ IF This.e["error"] # None THEN UNCHANGED <<cache, table, faults, req>>
       ELSE \E r \in Replies :
            /\ query_board(This.d, "group", r)
            /\ cache' = [cache EXCEPT ![This.d] = _carry_sticky_fields(This.d,
                   IF r # Raised /\ r.qt = "group" THEN [This.e EXCEPT !["group"] = <<r.src, r.val>>] ELSE This.e)]
    /\ UNCHANGED <<hw, named, total, usb, srv, file, web, requests, history>>

\* The "init" event carries the entries themselves, so what was laid over them as well.
Result ==
    /\ Do("result") /\ Next_step
    /\ broadcast([type |-> "status", d |-> 0, boards |-> [d \in Known |->
           IF This.boards[d] = NoEntry \/ This.boards[d]["error"] # None THEN This.boards[d] ELSE cache[d]]])
    /\ UNCHANGED <<ring, usb, srv, cache, file, req, sub, page, requests, faults, history>>
-----------------------------------------------------------------------------
(***************************************************************************)
(* The routes.  A request waits for _lock; MaxQueue bounds how far a       *)
(* browser may lag behind.                                                 *)
(***************************************************************************)
Request(name, d, k) ==
    /\ Idle /\ requests < MaxRequests /\ requests' = requests + 1
    /\ \A v \in Viewers : Len(inbox[v]) < MaxQueue
    /\ req' = [name |-> name, d |-> d, k |-> k, clean |-> TRUE]
    /\ UNCHANGED <<ring, usb, srv, cache, file, web, faults, history>>

Tell(d, k, v) == [do |-> "command", d |-> d, k |-> k, v |-> v, told |-> FALSE]
TellOnly(d, k, v) == [Tell(d, k, v) EXCEPT !.told = TRUE]       \* nothing will record it
Note(d, k, v) == [do |-> "record", d |-> d, k |-> k, v |-> v]
Consulted(d, qt) == [do |-> "consult", d |-> d, qt |-> qt, insist |-> TRUE]
Glance(d) == [do |-> "consult", d |-> d, qt |-> "other", insist |-> FALSE]
Insist(what, d) == [do |-> what, d |-> d, insist |-> TRUE]
PushArm == <<[do |-> "push", type |-> "arm"]>>

api_status_refresh == Request("refresh", 0, "none") /\ job' = refresh_all_status
api_init == Request("init", 0, "none") /\ job' = <<[do |-> "init"]>>
api_board_ext_clk_freq_refresh == \E d \in Boards :
    Request("measure", d, "none") /\ job' = <<Insist("measure", d)>> \o PushStatus \o _persist_status

\* The four that arm a waveform and note it.
Armed(d, v) == <<Tell(d, "armed_ddr", v), Note(d, "armed_ddr", v)>> \o _persist_status \o PushArm
api_board_arm == \E d \in Boards, v \in Settings : Request("arm", d, "armed_ddr") /\ job' = Armed(d, v)
api_board_arm_ddr_freq_slots == \E d \in Boards, v \in Settings : Request("arm", d, "armed_ddr") /\ job' = Armed(d, v)
api_board_arm_stereo_staircase == \E d \in Boards, v \in Settings : Request("arm", d, "armed_ddr") /\ job' = Armed(d, v)
api_board_arm_multitone_pattern == \E d \in Boards, v \in Settings : Request("arm", d, "armed_ddr") /\ job' = Armed(d, v)

\* One that arms a waveform and notes nothing.
api_board_arm_stereo_same == \E d \in Boards, v \in Settings :
    Request("arm_stereo_same", d, "armed_ddr") /\ job' = <<TellOnly(d, "armed_ddr", v)>>

\* The panels: the ranges first, all modules to DDR, the waveform, then play it.
Panel(d, v) == <<TellOnly(d, "info", 0)>> \o Armed(d, v)
api_board_arm_test1 == \E d \in Boards, v \in Settings :
    Request("arm", d, "armed_ddr") /\ job' = <<Consulted(d, "other")>> \o Panel(d, v)
api_board_test1_stop == \E d \in Boards, v \in Settings : Request("arm", d, "armed_ddr") /\ job' = Panel(d, v)
_api_arm_rotation == \E d \in Boards, v \in Settings :
    Request("arm", d, "armed_ddr") /\ job' = <<Consulted(d, "other")>> \o Panel(d, v)
_api_stop_rotation == \E d \in Boards, v \in Settings : Request("arm", d, "armed_ddr") /\ job' = Panel(d, v)

api_trigger == Request("trigger", 0, "none") /\ job' = [i \in 1..N |-> Glance(i - 1)]
api_board_status == \E d \in Boards : Request("look", d, "none") /\ job' = <<Consulted(d, "other")>>

api_board_trig_group_set == \E d \in Boards, v \in Readings :
    Request("group", d, "none") /\ job' = <<Tell(d, "group", v), Insist("regroup", d)>> \o _persist_status
api_board_trig_group_get == \E d \in Boards :
    Request("group", d, "none") /\ job' = <<Insist("regroup", d)>> \o _persist_status

api_board_trig_delay_set == \E d \in Boards, v \in Readings :
    Request("info", d, "none") /\ job' = <<Tell(d, "info", v), [do |-> "reread", d |-> d]>> \o PushStatus \o _persist_status
api_board_dac_mode_ramp_set == \E d \in Boards, v \in Readings :
    Request("info", d, "none") /\ job' = <<Tell(d, "info", v), [do |-> "reread", d |-> d]>> \o PushStatus \o _persist_status

api_board_sine_slot_set == \E d \in Boards, v \in Settings :
    Request("sine_slot", d, "sine_slots") /\ job' = <<Tell(d, "sine_slots", v), Note(d, "sine_slots", v)>> \o _persist_status
\* Its event, trig_timer_state, is one the page does not look at.
api_board_trig_timer_set == \E d \in Boards, v \in Settings :
    Request("trig_timer", d, "trig_timer") /\ job' = <<Tell(d, "trig_timer", v), Note(d, "trig_timer", v)>> \o _persist_status

Route == \/ api_status_refresh \/ api_init \/ api_board_ext_clk_freq_refresh
         \/ api_board_arm \/ api_board_arm_ddr_freq_slots \/ api_board_arm_stereo_staircase
         \/ api_board_arm_multitone_pattern \/ api_board_arm_stereo_same
         \/ api_board_arm_test1 \/ api_board_test1_stop \/ _api_arm_rotation \/ _api_stop_rotation
         \/ api_trigger \/ api_board_status
         \/ api_board_trig_group_set \/ api_board_trig_group_get
         \/ api_board_trig_delay_set \/ api_board_dac_mode_ramp_set
         \/ api_board_sine_slot_set \/ api_board_trig_timer_set
-----------------------------------------------------------------------------
(***************************************************************************)
(* /api/events: the queue first, then a snapshot of the cache taken        *)
(* without _lock, then what the queue has.                                 *)
(***************************************************************************)
Subscribe(v) == /\ srv = "up" /\ sub[v] = "off" /\ sub' = [sub EXCEPT ![v] = "queued"]
                /\ UNCHANGED <<ring, usb, srv, cache, file, req, job, inbox, page, requests, faults, history>>
Snapshot(v) == /\ sub[v] = "queued" /\ sub' = [sub EXCEPT ![v] = "live"]
               /\ page' = [page EXCEPT ![v] = cache]
               /\ UNCHANGED <<ring, usb, srv, cache, file, req, job, inbox, requests, faults, history>>

\* handleEvent of the page: an "arm" event is for an entry the page has.
handleEvent(v, event) ==
    IF event.type = "status" THEN event.boards
    ELSE IF page[v][event.d] = NoEntry THEN page[v]
    ELSE [page[v] EXCEPT ![event.d]["armed_ddr"] = event.boards[event.d]["armed_ddr"]]
Deliver(v) == /\ sub[v] = "live" /\ inbox[v] # <<>>
              /\ page' = [page EXCEPT ![v] = handleEvent(v, Head(inbox[v]))]
              /\ inbox' = [inbox EXCEPT ![v] = Tail(@)]
              /\ UNCHANGED <<ring, usb, srv, cache, file, req, job, sub, requests, faults, history>>
-----------------------------------------------------------------------------
(***************************************************************************)
(* The process dies and is started again; the boards lose power; the clock *)
(* the boards are fed with changes.                                        *)
(***************************************************************************)
Crash ==
    /\ srv # "down" /\ faults < MaxFaults /\ faults' = faults + 1
    /\ srv' = "down" /\ usb' = FALSE /\ cache' = Empty /\ job' = <<>>
    /\ kept' = IF Idle THEN cache
               ELSE IF srv = "starting" /\ req.clean /\ file # Torn THEN kept ELSE Torn
    /\ unsure' = IF job # <<>> THEN Doubt(req.d, req.k) ELSE unsure
    /\ sub' = [v \in Viewers |-> "off"] /\ inbox' = [v \in Viewers |-> <<>>]
    /\ UNCHANGED <<ring, file, req, page, requests>>

_load_status == cache' = IF file = Torn THEN Empty ELSE file
\* __main__: the record, the board if there is one, and a refresh before the first request.
Start ==
    /\ srv = "down" /\ srv' = "starting" /\ _load_status /\ (\E ok \in BOOLEAN : connect(ok))
    /\ job' = refresh_all_status
    /\ req' = [name |-> "startup", d |-> 0, k |-> "none", clean |-> TRUE]
    /\ UNCHANGED <<ring, file, web, requests, faults, history>>
Serve == /\ srv = "starting" /\ job = <<>> /\ srv' = "up"
         /\ UNCHANGED <<ring, usb, cache, file, req, job, web, requests, faults, history>>

PowerCycle ==
    /\ faults < MaxFaults /\ faults' = faults + 1
    /\ hw' = [d \in Boards |-> [PowerOn EXCEPT !.clock = hw[d].clock]] /\ named' = FALSE /\ total' = 0
    /\ table' = [qt |-> "none", src |-> 0, val |-> 0]
    /\ usb' = FALSE /\ unsure' = Boards \X Told /\ req' = [req EXCEPT !.clean = FALSE]
    /\ UNCHANGED <<srv, cache, file, job, web, requests, kept>>
ClockChanges ==
    /\ faults < MaxFaults /\ faults' = faults + 1
    /\ \E d \in Boards : \E c \in (Readings \cup {0}) \ {hw[d].clock} : hw' = [hw EXCEPT ![d].clock = c]
    /\ req' = [req EXCEPT !.clean = FALSE]
    /\ UNCHANGED <<named, total, table, usb, srv, cache, file, job, web, requests, history>>

Work == \/ Command \/ Consult \/ Reread \/ Regroup \/ Measure \/ PassOver \/ Record \/ Push
        \/ Truncate \/ Dump \/ AskMaster \/ AskBoard \/ RunInit \/ Absorb \/ Result
Browse == \E v \in Viewers : Subscribe(v) \/ Snapshot(v) \/ Deliver(v)
Happens == Crash \/ Start \/ Serve \/ PowerCycle \/ ClockChanges
Next == Route \/ Work \/ Browse \/ Happens
Spec == Init /\ [][Next]_vars
-----------------------------------------------------------------------------
TypeOK ==
    /\ hw \in [Boards -> Board] /\ named \in BOOLEAN /\ total \in {0, N}
    /\ table \in Table /\ usb \in BOOLEAN /\ srv \in {"down", "starting", "up"}
    /\ cache \in Caches /\ {file, kept} \subseteq Caches \cup {Torn} /\ page \in [Viewers -> Caches]
    /\ sub \in [Viewers -> {"off", "queued", "live"}]
    /\ requests \in 0..MaxRequests /\ faults \in 0..MaxFaults
    /\ unsure \subseteq Boards \X Told

\* A refresh that every board answers in time leaves for each board what that board holds,
\* whatever was filed under it before: answers of other boards, old measurements, errors.
RefreshRepairs ==
    Idle /\ req.clean /\ req.name \in {"refresh", "startup"} => \A d \in Boards :
        /\ cache[d]["info"] = <<d, hw[d].info>> /\ cache[d]["group"] = <<d, hw[d].group>>
        /\ cache[d]["ext_clk_freq_hz"] = hw[d].clock /\ cache[d]["error"] = None

\* A browser that has read everything sent to it shows what the server has, whenever it
\* connected and whoever made the change (api_events, broadcast, handleEvent).  The fields
\* are those some event carries; a board it has never heard of it does not show.
PagesAgree ==
    \A v \in Viewers : Idle /\ sub[v] = "live" /\ inbox[v] = <<>> =>
        \A d \in Known : page[v][d] # NoEntry /\ page[v][d]["error"] = None =>
            \A k \in {"info", "ext_clk_freq_hz", "armed_ddr"} : page[v][d][k] = cache[d][k]

\* What is recorded of a setting that cannot be read back is what the board was last told,
\* unless a command on the way failed, the board was not listening or lost its power, or a
\* route that records nothing has overwritten it.
RecordsTrue ==
    Idle => \A d \in Boards, k \in Told :
        cache[d][k] # None /\ <<d, k>> \notin unsure => cache[d][k] = hw[d][k]

\* A restart between two requests brings every recorded setting back, if the refresh it
\* begins with is answered (_load_status, _carry_sticky_fields).
RestartKeeps ==
    Idle /\ req.clean /\ req.name = "startup" /\ kept # Torn =>
        \A d \in Boards, k \in Told : cache[d][k] = kept[d][k]
=============================================================================
