---------------------------- MODULE Console_proofs ----------------------------
(***************************************************************************)
(* That the web console keeps its four promises, whatever the number of    *)
(* boards, browsers, requests and faults: a refresh puts right what it can *)
(* ask for, what is recorded of the rest is true, a restart brings it      *)
(* back, and a page that has read its events shows what the server has.    *)
(*                                                                         *)
(* The inductive invariant is IInv.  The proof goes                        *)
(*   - by what a list of steps has after each of its steps (Grammar), and  *)
(*     that the list of every route is such a list;                        *)
(*   - by what all the steps that ask a board have in common (Query);      *)
(*   - step by step, route by route and fault by fault to StepKeeps;       *)
(*   - from IInv to the promises, as nothing is still to come when the     *)
(*     console is idle.                                                    *)
(***************************************************************************)
EXTENDS Console, TLAPS

-----------------------------------------------------------------------------
(* What is always true of the console, between two steps of a request as   *)
(* well as between two requests.  It rests on what the remaining steps of  *)
(* the request are good for: which of them can no longer fail, which field *)
(* the next one records, whether the file is still written, which events   *)
(* are still sent, and which boards a refresh has still to ask.            *)

-----------------------------------------------------------------------------
(* What a request may still do, read off its remaining steps.              *)

\* The steps by their kind.
CommandSteps == [do : {"command"}, d : Boards, k : Told \cup {"info", "group"}, v : Values,
                 told : BOOLEAN]
RecordSteps == [do : {"record"}, d : Boards, k : Told, v : Values]
ConsultSteps == [do : {"consult"}, d : Boards, qt : {"other"}, insist : BOOLEAN]
BoardSteps == [do : {"ask", "measure", "regroup"}, d : Known, insist : BOOLEAN]
RereadSteps == [do : {"reread"}, d : Boards]
PlainSteps == [do : {"truncate", "dump", "master", "init"}]
PushSteps == [do : {"push"}, type : {"status", "arm"}]
\* Of a board nobody has asked, or of one Initialize found.
FoundEntry == {e \in Entry : \A k \in Told : e[k] = None}
AbsorbSteps == [do : {"absorb"}, d : Boards, e : FoundEntry]
ResultSteps == [do : {"result"}, boards : [Known -> Entry]]
Steps == CommandSteps \cup RecordSteps \cup ConsultSteps \cup BoardSteps \cup RereadSteps
         \cup PlainSteps \cup PushSteps \cup AbsorbSteps \cup ResultSteps

\* Steps that do not end the request before its time.
Safe(s) == \/ s.do \in {"record", "truncate", "dump", "push", "ask", "master", "absorb", "result"}
           \/ s.do \in {"consult", "measure", "regroup"} /\ ~s.insist
\* Steps after which only safe ones come.
Settles(s) == s.do \notin {"command", "consult", "init"}

StatusPush(s) == s.do = "result" \/ (s.do = "push" /\ s.type = "status")
Answered == {"refresh", "startup"}

\* What comes after step i of the list q, and what comes right after it.
Members(q) == {q[i] : i \in 1..Len(q)}
After(q, i) == {q[j] : j \in (i + 1)..Len(q)}
Following(q, i) == {q[j] : j \in {i + 1} \cap (1..Len(q))}

\* What step s of the request r has after it.
Fits(s, next, rest, r) ==
    /\ Settles(s) => \A t \in rest : Safe(t)
    /\ \A t \in rest : t.do # "master"
    /\ s.do = "master" => rest = {}
    /\ s.do = "truncate" => \E t \in next : t.do = "dump"
    /\ s.do \in {"record", "ask"} => \E t \in rest : t.do = "dump"
    /\ s.do = "record" => s.d = r.d /\ s.k = r.k
    /\ s.do = "record" /\ s.k = "armed_ddr" => \E t \in rest : t.do = "push"
    /\ s.do = "command" /\ ~s.told /\ s.k \in Told => \E t \in next : t.do = "record"
    /\ \A t \in next : t.do = "record" => s.do = "command" /\ s.d = t.d /\ s.k = t.k /\ s.v = t.v
    /\ s.do \in {"ask", "measure", "reread", "absorb"} => \E t \in rest : StatusPush(t)
    /\ s.do = "ask" => /\ \E t \in rest : t.do = "measure" /\ t.d = s.d
                      /\ \E t \in rest : t.do = "regroup" /\ t.d = s.d
    /\ s.do \in {"measure", "regroup"} => \A t \in rest : t.do # "ask"
    /\ r.name \in Answered =>
         s.do \in {"master", "ask", "measure", "regroup", "push", "truncate", "dump"}
Grammar(q, r) ==
    /\ q \in Seq(Steps)
    /\ \A i \in 1..Len(q) : Fits(q[i], Following(q, i), After(q, i), r)

Coming(do) == \E s \in Members(job) : s.do = do
ComingFor(do, d) == \E s \in Members(job) : s.do = do /\ s.d = d
Unstoppable == \A s \in Members(job) : Safe(s)

-----------------------------------------------------------------------------
(* The inductive invariant.                                                *)

Names == {"none", "startup", "refresh", "init", "measure", "arm", "arm_stereo_same", "trigger", "look",
          "group", "info", "sine_slot", "trig_timer"}
Requests == [name : Names, d : Boards, k : Told \cup {"none"}, clean : BOOLEAN]
Events == [type : {"status", "arm"}, d : Boards, boards : Caches]
Types == /\ TypeOK /\ (named => total = N)
         /\ req \in Requests
         /\ inbox \in [Viewers -> Seq(Events)]
         /\ Grammar(job, req)
         /\ srv = "down" => job = <<>>
         /\ srv = "starting" => req.name = "startup"
         /\ \A v \in Viewers : /\ srv # "up" => sub[v] = "off"
                               /\ sub[v] = "off" => inbox[v] = <<>>

Sure(d, k) == <<d, k>> \notin unsure
RecordsHead == job # <<>> /\ Head(job).do = "record"
\* A record that comes next is of what the board has just been told.
RecordDue == RecordsHead /\ Sure(Head(job).d, Head(job).k) =>
                hw[Head(job).d][Head(job).k] = Head(job).v
CacheTrue ==
    \A d \in Boards, k \in Told : Sure(d, k) =>
        \/ cache[d][k] \in {None, hw[d][k]}
        \/ RecordsHead /\ Head(job).d = d /\ Head(job).k = k

\* The rest of the request writes the file, whatever happens but the process's end.
WillDump == Unstoppable /\ (Coming("dump") \/ Coming("master"))
FileTrue ==
    \A d \in Boards, k \in Told : Sure(d, k) /\ file # Torn =>
        \/ file[d][k] \in {None, hw[d][k]}
        \/ WillDump /\ req.d = d /\ req.k = k
SameTold(c1, c2) == \A d \in Boards, k \in Told : c1[d][k] = c2[d][k]
FileCurrent == srv # "down" => (file # Torn /\ SameTold(file, cache)) \/ WillDump

KeptComes ==
    kept # Torn =>
        /\ srv = "down" => file # Torn /\ SameTold(file, kept)
        /\ srv # "down" /\ req.name = "startup" /\ req.clean =>
             SameTold(cache, kept) /\ (file # Torn => SameTold(file, kept))

\* What a refresh that was answered so far has put right, and what it has still to ask.
Repaired ==
    srv # "down" /\ req.name \in Answered /\ req.clean =>
        \/ Coming("master")
        \/ \A d \in Boards :
             /\ ComingFor("ask", d) \/ (cache[d]["info"] = <<d, hw[d].info>> /\ cache[d]["error"] = None)
             /\ ComingFor("measure", d) \/ cache[d]["ext_clk_freq_hz"] = hw[d].clock
             /\ ComingFor("regroup", d) \/ cache[d]["group"] = <<d, hw[d].group>>

PageKeys == {"info", "ext_clk_freq_hz", "armed_ddr"}
Shows(e, d, k) == e = NoEntry \/ e["error"] # None \/ e[k] = cache[d][k]
Alters(ev, d, k) == ev.type = "status" \/ (ev.d = d /\ k = "armed_ddr")
Right(ev, d, k) == IF ev.type = "status" THEN Shows(ev.boards[d], d, k)
                   ELSE ev.boards[d][k] = cache[d][k]
UpToDate(v, d, k) ==
    \/ \E i \in 1..Len(inbox[v]) :
         /\ Alters(inbox[v][i], d, k) /\ Right(inbox[v][i], d, k)
         /\ \A j \in (i + 1)..Len(inbox[v]) : ~Alters(inbox[v][j], d, k)
    \/ /\ \A i \in 1..Len(inbox[v]) : ~Alters(inbox[v][i], d, k)
       /\ sub[v] = "live" => Shows(page[v][d], d, k)
Pushes(s, d, k) == \/ StatusPush(s) \/ s.do = "master"
                   \/ s.do = "push" /\ req.d = d /\ k = "armed_ddr"
WillPush(d, k) == Unstoppable /\ \E s \in Members(job) : Pushes(s, d, k)
PagesFollow ==
    \A v \in Viewers : sub[v] # "off" =>
        \A d \in Known, k \in PageKeys : UpToDate(v, d, k) \/ WillPush(d, k)

IInv == /\ Types /\ RecordDue /\ CacheTrue /\ FileTrue /\ FileCurrent /\ KeptComes
        /\ Repaired /\ PagesFollow

-----------------------------------------------------------------------------
(* Steps, entries and their lists.                                         *)

LEMMA StepKinds ==
    ASSUME NEW s \in Steps
    PROVE  /\ s.do = "command" => /\ s.d \in Boards /\ s.k \in Told \cup {"info", "group"}
                                  /\ s.v \in Values /\ s.told \in BOOLEAN
           /\ s.do = "record" => s.d \in Boards /\ s.k \in Told /\ s.v \in Values
           /\ s.do = "consult" => s.d \in Boards /\ s.qt = "other" /\ s.insist \in BOOLEAN
           /\ s.do \in {"ask", "measure", "regroup"} => s.d \in Known /\ s.insist \in BOOLEAN
           /\ s.do = "reread" => s.d \in Boards
           /\ s.do = "push" => s.type \in {"status", "arm"}
           /\ s.do = "absorb" => s.d \in Boards /\ s.e \in FoundEntry
           /\ s.do = "result" => s.boards \in Caches
  <1>1. CASE s \in CommandSteps
    BY <1>1 DEF CommandSteps
  <1>2. CASE s \in RecordSteps
    BY <1>2 DEF RecordSteps
  <1>3. CASE s \in ConsultSteps
    BY <1>3 DEF ConsultSteps
  <1>4. CASE s \in BoardSteps
    BY <1>4 DEF BoardSteps
  <1>5. CASE s \in RereadSteps
    BY <1>5 DEF RereadSteps
  <1>6. CASE s \in PlainSteps
    BY <1>6 DEF PlainSteps
  <1>7. CASE s \in PushSteps
    BY <1>7 DEF PushSteps
  <1>8. CASE s \in AbsorbSteps
    BY <1>8 DEF AbsorbSteps
  <1>9. CASE s \in ResultSteps
    BY <1>9 DEF ResultSteps, Caches
  <1> QED  BY <1>1, <1>2, <1>3, <1>4, <1>5, <1>6, <1>7, <1>8, <1>9 DEF Steps

LEMMA Rests ==
    ASSUME NEW S, NEW q \in Seq(S), q # <<>>
    PROVE  /\ Tail(q) \in Seq(S) /\ Len(q) \in Nat /\ Len(q) >= 1 /\ Len(Tail(q)) = Len(q) - 1
           /\ Head(q) = q[1] /\ q[1] \in S
           /\ \A i \in 1..(Len(q) - 1) : Tail(q)[i] = q[i + 1]
  OBVIOUS

LEMMA TailMembers ==
    ASSUME NEW S, NEW q \in Seq(S), q # <<>>
    PROVE  /\ Members(q) = {Head(q)} \cup Members(Tail(q))
           /\ After(q, 1) = Members(Tail(q))
           /\ Following(q, 1) = IF Tail(q) = <<>> THEN {} ELSE {Head(Tail(q))}
           /\ \A i \in 1..Len(Tail(q)) : /\ After(Tail(q), i) = After(q, i + 1)
                                         /\ Following(Tail(q), i) = Following(q, i + 1)
  <1>1. PICK n \in Nat, t \in Seq(S) : n = Len(q) /\ n >= 1 /\ t = Tail(q)
    BY Rests
  <1>2. Len(t) = n - 1 /\ (\A i \in 1..(n - 1) : t[i] = q[i + 1]) /\ Head(q) = q[1]
    BY <1>1, Rests
  <1>3. \A j \in 2..n : j - 1 \in 1..(n - 1) /\ t[j - 1] = q[j]
    BY <1>2
  <1>4. Members(q) \subseteq {Head(q)} \cup Members(t)
    <2>1. SUFFICES ASSUME NEW j \in 1..n PROVE q[j] = Head(q) \/ q[j] \in Members(t)
      BY <1>1 DEF Members
    <2>2. CASE j = 1
      BY <2>2, <1>2
    <2>3. CASE j # 1
      <3>1. j \in 2..n
        BY <2>3, <1>1
      <3> QED  BY <3>1, <1>2, <1>3 DEF Members
    <2> QED  BY <2>2, <2>3
  <1>5. {Head(q)} \cup Members(t) \subseteq Members(q)
    <2>1. Head(q) \in Members(q)
      BY <1>1, <1>2 DEF Members
    <2>2. ASSUME NEW j \in 1..(n - 1) PROVE t[j] \in Members(q)
      <3>1. t[j] = q[j + 1] /\ j + 1 \in 1..n
        BY <1>1, <1>2
      <3> QED  BY <3>1, <1>1 DEF Members
    <2> QED  BY <2>1, <2>2, <1>2 DEF Members
  <1>6. \A i \in 0..(n - 1) : \A x :
           /\ (\E j \in (i + 1)..(n - 1) : x = t[j]) <=> (\E j \in (i + 2)..n : x = q[j])
           /\ (\E j \in {i + 1} \cap (1..(n - 1)) : x = t[j]) <=> (\E j \in {i + 2} \cap (1..n) : x = q[j])
    <2>1. TAKE i \in 0..(n - 1)
    <2>2. TAKE x
    <2>3. ASSUME NEW j \in (i + 1)..(n - 1) PROVE j + 1 \in (i + 2)..n /\ t[j] = q[j + 1]
      BY <1>1, <1>2
    <2>4. ASSUME NEW j \in (i + 2)..n PROVE j - 1 \in (i + 1)..(n - 1) /\ t[j - 1] = q[j]
      BY <1>1, <1>3
    <2>5. (\E j \in (i + 1)..(n - 1) : x = t[j]) <=> (\E j \in (i + 2)..n : x = q[j])
      BY <2>3, <2>4
    <2>6. (\E j \in {i + 1} \cap (1..(n - 1)) : x = t[j]) <=> (\E j \in {i + 2} \cap (1..n) : x = q[j])
      <3>1. i + 1 \in 1..(n - 1) <=> i + 2 \in 1..n
        BY <1>1
      <3>2. i + 1 \in 1..(n - 1) => t[i + 1] = q[i + 2]
        BY <1>1, <1>2
      <3> QED  BY <3>1, <3>2
    <2> QED  BY <2>5, <2>6
  <1>7. \A i \in 0..(n - 1) : After(t, i) = After(q, i + 1) /\ Following(t, i) = Following(q, i + 1)
    <2>1. TAKE i \in 0..(n - 1)
    <2>2. (i + 1) + 1 = i + 2
      OBVIOUS
    <2>3. After(t, i) = After(q, i + 1)
      BY <1>1, <1>2, <1>6, <2>2 DEF After
    <2>4. Following(t, i) = Following(q, i + 1)
      BY <1>1, <1>2, <1>6, <2>2 DEF Following
    <2> QED  BY <2>3, <2>4
  <1>8. After(q, 1) = Members(t)
    <2>1. After(t, 0) = Members(t)
      BY <1>1 DEF After, Members
    <2> QED  BY <1>1, <1>7, <2>1
  <1>9. Following(q, 1) = IF t = <<>> THEN {} ELSE {Head(t)}
    <2>1. CASE t = <<>>
      <3>1. n = 1
        BY <2>1, <1>1, <1>2
      <3> QED  BY <2>1, <3>1, <1>1 DEF Following
    <2>2. CASE t # <<>>
      <3>1. n >= 2 /\ Head(t) = t[1]
        BY <2>2, <1>1, <1>2
      <3>2. Head(t) = q[2]
        BY <3>1, <1>2
      <3> QED  BY <2>2, <3>1, <3>2, <1>1 DEF Following
    <2> QED  BY <2>1, <2>2
  <1> QED  BY <1>1, <1>2, <1>4, <1>5, <1>7, <1>8, <1>9

LEMMA TailGrammar ==
    ASSUME NEW q, NEW r, Grammar(q, r), q # <<>>
    PROVE  /\ Grammar(Tail(q), r)
           /\ Head(q) \in Steps
           /\ Fits(Head(q), IF Tail(q) = <<>> THEN {} ELSE {Head(Tail(q))}, Members(Tail(q)), r)
           /\ Members(q) = {Head(q)} \cup Members(Tail(q))
  <1>1. q \in Seq(Steps) /\ \A i \in 1..Len(q) : Fits(q[i], Following(q, i), After(q, i), r)
    BY DEF Grammar
  <1>2. PICK n \in Nat, t \in Seq(Steps) : n = Len(q) /\ n >= 1 /\ t = Tail(q)
    BY <1>1, Rests
  <1>3. Len(t) = n - 1 /\ (\A i \in 1..(n - 1) : t[i] = q[i + 1]) /\ Head(q) = q[1] /\ q[1] \in Steps
    BY <1>1, <1>2, Rests
  <1>4. ASSUME NEW i \in 1..(n - 1) PROVE Fits(t[i], Following(t, i), After(t, i), r)
    <2>1. i + 1 \in 1..n
      BY <1>2
    <2>2. Fits(q[i + 1], Following(q, i + 1), After(q, i + 1), r)
      BY <2>1, <1>1, <1>2
    <2> QED  BY <2>2, <1>1, <1>2, <1>3, TailMembers
  <1>5. Fits(q[1], Following(q, 1), After(q, 1), r)
    BY <1>1, <1>2
  <1>6. Grammar(t, r)
    BY <1>2, <1>3, <1>4 DEF Grammar
  <1> QED  BY <1>1, <1>2, <1>3, <1>5, <1>6, TailMembers

LEMMA EmptyGrammar == ASSUME NEW r PROVE Grammar(<<>>, r) /\ Members(<<>>) = {}
  <1>1. <<>> \in Seq(Steps) /\ Len(<<>>) = 0
    OBVIOUS
  <1> QED  BY <1>1 DEF Grammar, Members

\* A list grows at its front.
LEMMA ConsGrammar ==
    ASSUME NEW t, NEW r, Grammar(t, r), NEW s \in Steps,
           Fits(s, IF t = <<>> THEN {} ELSE {Head(t)}, Members(t), r)
    PROVE  /\ Grammar(<<s>> \o t, r) /\ Members(<<s>> \o t) = {s} \cup Members(t)
           /\ Head(<<s>> \o t) = s /\ <<s>> \o t # <<>>
  <1>1. t \in Seq(Steps) /\ \A i \in 1..Len(t) : Fits(t[i], Following(t, i), After(t, i), r)
    BY DEF Grammar
  <1>2. PICK n \in Nat, q \in Seq(Steps) : n = Len(q) /\ q = <<s>> \o t
    <2>1. <<s>> \in Seq(Steps)
      OBVIOUS
    <2>2. <<s>> \o t \in Seq(Steps) /\ Len(<<s>> \o t) \in Nat
      BY <2>1, <1>1
    <2> QED  BY <2>2
  <1>3. Head(q) = s /\ Tail(q) = t /\ q # <<>> /\ Len(t) = n - 1 /\ n >= 1 /\ q[1] = s
    BY <1>1, <1>2
  <1>4. /\ Members(q) = {s} \cup Members(t) /\ After(q, 1) = Members(t)
        /\ Following(q, 1) = IF t = <<>> THEN {} ELSE {Head(t)}
        /\ \A i \in 1..(n - 1) : After(t, i) = After(q, i + 1) /\ Following(t, i) = Following(q, i + 1)
    BY <1>2, <1>3, TailMembers
  <1>5. \A i \in 1..(n - 1) : t[i] = q[i + 1]
    BY <1>2, <1>3, Rests
  <1>6. ASSUME NEW i \in 1..n PROVE Fits(q[i], Following(q, i), After(q, i), r)
    <2>1. CASE i = 1
      BY <2>1, <1>3, <1>4
    <2>2. CASE i # 1
      <3>1. PICK j \in 1..(n - 1) : i = j + 1
        <4>1. i - 1 \in 1..(n - 1) /\ i = (i - 1) + 1
          BY <2>2
        <4> QED  BY <4>1
      <3>2. Fits(t[j], Following(t, j), After(t, j), r)
        BY <1>1, <1>3
      <3> QED  BY <3>1, <3>2, <1>4, <1>5
    <2> QED  BY <2>1, <2>2
  <1> QED  BY <1>2, <1>3, <1>4, <1>6 DEF Grammar

LEMMA GrammarOf ==
    ASSUME NEW q, NEW r, NEW r2, Grammar(q, r), r2.d = r.d, r2.k = r.k, r2.name = r.name
    PROVE  Grammar(q, r2)
  BY DEF Grammar, Fits

-----------------------------------------------------------------------------
(* Entries, boards and answers.                                            *)

LEMMA Constants ==
    /\ N \in Nat /\ N >= 1 /\ Nominal \in Nat /\ Nominal >= 1 /\ Boards \subseteq Known /\ 0 \in Boards
    /\ Values \subseteq Nat /\ 0 \in Values /\ Settings \subseteq Values /\ Readings \subseteq Values
    /\ None \notin Values /\ None \notin Boards \X Values
    /\ Torn \notin Caches /\ Raised \notin Values /\ Raised \notin Table
    /\ MaxFaults \in Nat /\ MaxRequests \in Nat /\ Known \subseteq Nat /\ Boards \subseteq Nat
  <1>1. /\ N \in Nat \ {0} /\ Nominal \in Nat \ {0} /\ Settings \cup Readings \subseteq Nat \ {0}
        /\ None \notin Nat /\ None \notin Boards \X Values /\ Torn \notin Caches
        /\ Raised \notin Values /\ Raised \notin Table /\ MaxFaults \in Nat /\ MaxRequests \in Nat
    BY ConsoleAssumption
  <1>2. Boards \subseteq Known /\ 0 \in Boards /\ Known \subseteq Nat /\ Boards \subseteq Nat
    BY <1>1 DEF Boards, Known
  <1>3. Values \subseteq Nat /\ 0 \in Values /\ Settings \subseteq Values /\ Readings \subseteq Values
    BY <1>1 DEF Values
  <1>4. N >= 1 /\ Nominal >= 1
    BY <1>1
  <1> QED  BY <1>1, <1>2, <1>3, <1>4

LEMMA EntryKeys ==
    ASSUME NEW e \in Entry
    PROVE  /\ \A k \in Told : e[k] \in Noted
           /\ e["ext_clk_freq_hz"] \in Noted /\ e["error"] \in Noted
           /\ e["info"] \in Filed /\ e["group"] \in Filed
  BY DEF Entry, Told

LEMMA EntryRecord ==
    ASSUME NEW e \in Entry, NEW k \in Told, NEW v \in Noted
    PROVE  /\ [e EXCEPT ![k] = v] \in Entry
           /\ [e EXCEPT ![k] = v][k] = v
           /\ \A j \in Keys \ {k} : [e EXCEPT ![k] = v][j] = e[j]
  <1>1. [e EXCEPT ![k] = v] \in Entry
    BY DEF Entry, Told
  <1>2. [e EXCEPT ![k] = v][k] = v /\ \A j \in Keys \ {k} : [e EXCEPT ![k] = v][j] = e[j]
    BY DEF Entry, Told, Keys, _STICKY_KEYS
  <1> QED  BY <1>1, <1>2

LEMMA NoEntries ==
    /\ NoEntry \in Entry /\ ErrorEntry \in Entry /\ Empty \in Caches
    /\ \A k \in Keys : NoEntry[k] = None
    /\ ErrorEntry["error"] = 0 /\ \A k \in Keys \ {"error"} : ErrorEntry[k] = None
  <1>1. NoEntry \in Entry /\ ErrorEntry \in Entry
    BY DEF Entry, Told, Keys, _STICKY_KEYS, NoEntry, ErrorEntry, Filed, Noted, Values
  <1>2. Empty \in Caches
    BY <1>1 DEF Empty, Caches
  <1>3. /\ \A k \in Keys : NoEntry[k] = None
        /\ ErrorEntry["error"] = 0 /\ \A k \in Keys \ {"error"} : ErrorEntry[k] = None
    BY DEF NoEntry, ErrorEntry, Keys, _STICKY_KEYS, Told
  <1> QED  BY <1>1, <1>2, <1>3

BoardAt(b, k, x) == [b EXCEPT ![k] = x]
LEMMA BoardSetting ==
    ASSUME NEW b \in Board, NEW k \in Told \cup {"info", "group"}, NEW v \in Values
    PROVE  /\ BoardAt(b, k, v) \in Board /\ BoardAt(b, k, v)[k] = v
           /\ \A j \in Told \ {k} : BoardAt(b, k, v)[j] = b[j]
  <1>1. BoardAt(b, k, v) \in Board
    BY DEF Board, Told, BoardAt
  <1>2. BoardAt(b, k, v)[k] = v /\ \A j \in Told \ {k} : BoardAt(b, k, v)[j] = b[j]
    BY DEF Board, Told, BoardAt
  <1> QED  BY <1>1, <1>2

\* What _carry_sticky_fields lays over a new entry.
LEMMA Carried ==
    ASSUME NEW d \in Known, NEW e \in Entry, cache \in Caches
    PROVE  /\ _carry_sticky_fields(d, e) \in Entry
           /\ \A k \in Told : e[k] = None => _carry_sticky_fields(d, e)[k] = cache[d][k]
           /\ e["ext_clk_freq_hz"] = None =>
                _carry_sticky_fields(d, e)["ext_clk_freq_hz"] = cache[d]["ext_clk_freq_hz"]
           /\ \A k \in {"info", "group", "error"} : _carry_sticky_fields(d, e)[k] = e[k]
  <1>1. _carry_sticky_fields(d, e) \in Entry
    BY DEF _carry_sticky_fields, Entry, Told, Keys, _STICKY_KEYS, Caches
  <1>2. /\ \A k \in Told : e[k] = None => _carry_sticky_fields(d, e)[k] = cache[d][k]
        /\ e["ext_clk_freq_hz"] = None =>
             _carry_sticky_fields(d, e)["ext_clk_freq_hz"] = cache[d]["ext_clk_freq_hz"]
        /\ \A k \in {"info", "group", "error"} : _carry_sticky_fields(d, e)[k] = e[k]
    BY DEF _carry_sticky_fields, Told, Keys, _STICKY_KEYS
  <1> QED  BY <1>1, <1>2

LEMMA CacheWith ==
    ASSUME NEW c \in Caches, NEW d \in Known, NEW e \in Entry
    PROVE  /\ [c EXCEPT ![d] = e] \in Caches /\ [c EXCEPT ![d] = e][d] = e
           /\ \A b \in Known \ {d} : [c EXCEPT ![d] = e][b] = c[b]
  BY DEF Caches

LEMMA TableKinds ==
    ASSUME NEW r \in Table
    PROVE  /\ r.src \in Boards /\ r.val \in Values /\ <<r.src, r.val>> \in Filed
           /\ r # Raised
  BY Constants DEF Table, Filed

LEMMA AnswerInTable ==
    ASSUME hw \in [Boards -> Board], NEW d \in Boards, NEW qt \in {"info", "group", "other"}
    PROVE  Answer(d, qt) \in Table
  BY Constants DEF Answer, Table, Board

\* What the table answered, and when nothing went wrong.
LEMMA QueryBoard ==
    ASSUME hw \in [Boards -> Board], table \in Table, faults \in 0..MaxFaults,
           req \in Requests,
           NEW d, NEW qt \in {"info", "group", "other"}, NEW r \in Replies, query_board(d, qt, r)
    PROVE  /\ table' \in Table /\ faults' \in 0..MaxFaults
           /\ req' = req \/ (req' = [req EXCEPT !.clean = FALSE] /\ ~req'.clean)
           /\ req'.clean => req.clean /\ named /\ d \in Boards /\ r = Answer(d, qt) /\ r \in Table
           /\ r # Raised => r \in Table
  <1>1. [req EXCEPT !.clean = FALSE].clean = FALSE
    OBVIOUS
  <1>2. d \in Boards => Answer(d, qt) \in Table
    BY AnswerInTable
  <1>3. r # Raised => r \in Table
    BY DEF Replies
  <1>4. Fault => faults' \in 0..MaxFaults /\ req' = [req EXCEPT !.clean = FALSE]
    BY Constants DEF Fault
  <1>5. CASE usb /\ Answers(d) /\ r = Answer(d, qt) /\ table' = r /\ Smooth
    BY <1>2, <1>3, <1>5 DEF Answers, Smooth
  <1>6. CASE usb /\ Answers(d) /\ r = table /\ table' \in {table, Answer(d, qt)} /\ Fault
    BY <1>1, <1>2, <1>3, <1>4, <1>6 DEF Answers
  <1>7. CASE usb /\ ~Answers(d) /\ r = table /\ UNCHANGED <<table, faults>> /\ req' = [req EXCEPT !.clean = FALSE]
    BY <1>1, <1>3, <1>7
  <1>8. CASE usb /\ r = Raised /\ UNCHANGED table /\ Fault
    BY <1>1, <1>3, <1>4, <1>8
  <1>9. CASE ~usb /\ r = Raised /\ UNCHANGED <<table, faults>> /\ req' = [req EXCEPT !.clean = FALSE]
    BY <1>1, <1>3, <1>9
  <1> QED  BY <1>5, <1>6, <1>7, <1>8, <1>9 DEF query_board

-----------------------------------------------------------------------------
(* What a step leaves of what is still to come.                            *)

\* The end of a list of safe steps that holds a write of the file, and is not yet there.
LEMMA DumpStillComes ==
    ASSUME Grammar(job, req), job # <<>>, Safe(Head(job)) => job' = Tail(job),
           Head(job).do \notin {"dump", "master"}, WillDump
    PROVE  WillDump'
  <1>1. Members(job) = {Head(job)} \cup Members(Tail(job))
    BY TailGrammar
  <1>2. PICK h, t : h = Head(job) /\ t = Tail(job)
    OBVIOUS
  <1>3. (\A s \in Members(job) : Safe(s)) /\ h \in Members(job)
    BY <1>1, <1>2 DEF WillDump, Unstoppable
  <1>4. job' = t /\ \A s \in Members(t) : Safe(s)
    BY <1>1, <1>2, <1>3
  <1>5. \E s \in Members(t) : s.do \in {"dump", "master"}
    BY <1>1, <1>2 DEF WillDump, Coming
  <1> QED  BY <1>4, <1>5 DEF WillDump, Coming, Unstoppable

LEMMA PushStillComes ==
    ASSUME Grammar(job, req), job # <<>>, Safe(Head(job)) => job' = Tail(job), req'.d = req.d,
           NEW d, NEW k, ~Pushes(Head(job), d, k), WillPush(d, k)
    PROVE  WillPush(d, k)'
  <1>1. Members(job) = {Head(job)} \cup Members(Tail(job))
    BY TailGrammar
  <1>2. PICK h, t : h = Head(job) /\ t = Tail(job)
    OBVIOUS
  <1>3. (\A s \in Members(job) : Safe(s)) /\ h \in Members(job)
    BY <1>1, <1>2 DEF WillPush, Unstoppable
  <1>4. job' = t /\ \A s \in Members(t) : Safe(s)
    BY <1>1, <1>2, <1>3
  <1>5. PICK s \in Members(t) : Pushes(s, d, k)
    BY <1>1, <1>2 DEF WillPush
  <1>6. Pushes(s, d, k)'
    BY <1>5 DEF Pushes
  <1> QED  BY <1>4, <1>5, <1>6 DEF WillPush, Unstoppable

\* After a step that settles the rest is safe.
LEMMA SettledRest ==
    ASSUME Grammar(job, req), job # <<>>, job' = Tail(job), Settles(Head(job))
    PROVE  /\ Unstoppable'
           /\ Head(job).do \in {"record", "ask", "truncate"} => WillDump'
           /\ Head(job).do \in {"ask", "measure", "reread", "absorb"} => \A d, k : WillPush(d, k)'
  <1>1. PICK h, t : h = Head(job) /\ t = Tail(job)
    OBVIOUS
  <1>2. Fits(h, IF t = <<>> THEN {} ELSE {Head(t)}, Members(t), req) /\ Grammar(t, req)
    BY <1>1, TailGrammar
  <1>3. Unstoppable'
    BY <1>1, <1>2 DEF Fits, Unstoppable
  <1>4. h.do \in {"record", "ask"} => Coming("dump")'
    BY <1>1, <1>2 DEF Fits, Coming
  <1>5. h.do = "truncate" => Coming("dump")'
    <2>1. t # <<>> => Head(t) \in Members(t)
      BY <1>2, TailGrammar
    <2> QED  BY <1>1, <1>2, <2>1 DEF Fits, Coming
  <1>6. ASSUME h.do \in {"ask", "measure", "reread", "absorb"}, NEW d, NEW k PROVE WillPush(d, k)'
    <2>1. PICK s \in Members(t) : StatusPush(s)
      BY <1>2, <1>6 DEF Fits
    <2>2. Pushes(s, d, k)'
      BY <2>1 DEF Pushes
    <2> QED  BY <1>1, <1>3, <2>1, <2>2 DEF WillPush
  <1> QED  BY <1>1, <1>3, <1>4, <1>5, <1>6 DEF WillDump

\* The record of a command comes right after it and nowhere else.
LEMMA NoRecordNext ==
    ASSUME Grammar(job, req), job # <<>>, job' \in {Tail(job), <<>>}, Head(job).do # "command"
    PROVE  ~RecordsHead'
  <1>1. PICK h, t : h = Head(job) /\ t = Tail(job)
    OBVIOUS
  <1>2. Fits(h, IF t = <<>> THEN {} ELSE {Head(t)}, Members(t), req)
    BY <1>1, TailGrammar
  <1> QED  BY <1>1, <1>2 DEF Fits, RecordsHead

LEMMA UpToDateKept ==
    ASSUME UNCHANGED web, NEW v, NEW d, NEW k, cache'[d][k] = cache[d][k], UpToDate(v, d, k)
    PROVE  UpToDate(v, d, k)'
  BY DEF UpToDate, Right, Shows, web

LEMMA PagesKept ==
    ASSUME PagesFollow, UNCHANGED web,
           \A d \in Known, k \in PageKeys : /\ cache'[d][k] = cache[d][k] \/ WillPush(d, k)'
                                            /\ WillPush(d, k) => WillPush(d, k)'
    PROVE  PagesFollow'
  <1> SUFFICES ASSUME NEW v \in Viewers, sub'[v] # "off", NEW d \in Known, NEW k \in PageKeys
               PROVE  UpToDate(v, d, k)' \/ WillPush(d, k)'
    BY DEF PagesFollow
  <1>1. UpToDate(v, d, k) \/ WillPush(d, k)
    BY DEF PagesFollow, web
  <1> QED  BY <1>1, UpToDateKept

\* The request keeps its name and what it is about.
SameRequest == req' = req \/ (req' = [req EXCEPT !.clean = FALSE] /\ ~req'.clean)
LEMMA SameRequestKeeps ==
    ASSUME SameRequest, req \in Requests
    PROVE  /\ req' \in Requests
           /\ req'.name = req.name /\ req'.d = req.d /\ req'.k = req.k
           /\ req'.clean => req.clean
           /\ \A q : Grammar(q, req) => Grammar(q, req')
  <1>1. /\ req' \in Requests
        /\ req'.name = req.name /\ req'.d = req.d /\ req'.k = req.k
        /\ req'.clean => req.clean
    BY DEF SameRequest, Requests
  <1>2. PICK r, r2 : r = req /\ r2 = req'
    OBVIOUS
  <1>3. \A q : Grammar(q, r) => Grammar(q, r2)
    BY <1>1, <1>2, GrammarOf
  <1> QED  BY <1>1, <1>2, <1>3

\* A step that asks a board something, or passes a board over.
Query ==
    /\ job # <<>> /\ Head(job).do \in {"consult", "reread", "regroup", "measure", "ask", "absorb"}
    /\ job' \in {Tail(job), <<>>} /\ (Safe(Head(job)) => job' = Tail(job))
    /\ table' \in Table /\ faults' \in 0..MaxFaults /\ SameRequest
    /\ cache' \in Caches
    /\ \A d \in Known, k \in Told :
         cache'[d][k] = cache[d][k] \/ (Head(job).do = "ask" /\ ~req'.clean /\ cache'[d][k] = None)
    /\ \A d \in Known, k \in PageKeys :
         \/ cache'[d][k] = cache[d][k]
         \/ Head(job).do \in {"ask", "measure", "reread", "absorb"} /\ job' = Tail(job)
    /\ UNCHANGED <<hw, named, total, usb, srv, file, web, requests, history>>

\* All of the invariant but what a refresh has put right.
Rest == Types /\ RecordDue /\ CacheTrue /\ FileTrue /\ FileCurrent /\ KeptComes /\ PagesFollow

LEMMA QueryKeeps == ASSUME IInv, Query PROVE Rest'
  <1>1. Grammar(job, req) /\ TypeOK /\ srv # "down"
    BY DEF IInv, Types, Query
  <1>2. req \in Requests
    BY DEF IInv, Types
  <1>3. /\ req' \in Requests
        /\ req'.name = req.name /\ req'.d = req.d /\ req'.k = req.k
        /\ req'.clean => req.clean
        /\ \A q : Grammar(q, req) => Grammar(q, req')
    BY <1>2, SameRequestKeeps DEF Query
  <1>4. Grammar(job', req')
    <2>1. Grammar(Tail(job), req)
      BY <1>1, TailGrammar DEF Query
    <2>2. Grammar(Tail(job), req') /\ Grammar(<<>>, req')
      BY <2>1, <1>3, EmptyGrammar
    <2> QED  BY <2>2 DEF Query
  <1>5. Types'
    <2>1. TypeOK'
      BY <1>1 DEF Query, TypeOK, web, history
    <2> QED  BY <1>3, <1>4, <2>1 DEF IInv, Types, Query, web
  <1>6. ~RecordsHead' /\ ~RecordsHead
    BY <1>1, NoRecordNext DEF Query, RecordsHead
  <1>7. RecordDue'
    BY <1>6 DEF RecordDue
  <1>8. UNCHANGED <<hw, unsure, kept, file, srv, sub, inbox, page>>
    BY DEF Query, web, history
  <1>9. \A d \in Boards : d \in Known
    BY Constants
  <1>10. CacheTrue'
    BY <1>6, <1>8, <1>9 DEF IInv, Query, CacheTrue, Sure
  <1>11. WillDump => WillDump'
    BY <1>1, DumpStillComes DEF Query
  <1>12. FileTrue'
    BY <1>3, <1>8, <1>11 DEF IInv, FileTrue, Sure
  <1>13. FileCurrent'
    <2>1. CASE Head(job).do = "ask"
      BY <1>1, <2>1, SettledRest DEF Query, Settles, Safe, FileCurrent
    <2>2. CASE Head(job).do # "ask"
      <3>1. \A d \in Boards, k \in Told : cache'[d][k] = cache[d][k]
        BY <1>9, <2>2 DEF Query
      <3> QED  BY <1>8, <1>11, <3>1 DEF IInv, FileCurrent, SameTold
    <2> QED  BY <2>1, <2>2
  <1>14. KeptComes'
    <2>1. req'.clean => \A d \in Boards, k \in Told : cache'[d][k] = cache[d][k]
      BY <1>9 DEF Query
    <2> QED  BY <1>3, <1>8, <2>1 DEF IInv, KeptComes, SameTold
  <1>15. PagesFollow'
    <2>1. ASSUME NEW d \in Known, NEW k \in PageKeys
          PROVE  /\ cache'[d][k] = cache[d][k] \/ WillPush(d, k)'
                 /\ WillPush(d, k) => WillPush(d, k)'
      <3>1. ~Pushes(Head(job), d, k)
        BY DEF Query, Pushes, StatusPush
      <3>2. WillPush(d, k) => WillPush(d, k)'
        BY <1>1, <1>3, <3>1, PushStillComes DEF Query
      <3>3. Head(job).do \in {"ask", "measure", "reread", "absorb"} /\ job' = Tail(job) => WillPush(d, k)'
        BY <1>1, SettledRest DEF Query, Settles
      <3> QED  BY <3>2, <3>3 DEF Query
    <2> QED  BY <2>1, PagesKept DEF IInv, Query
  <1> QED  BY <1>5, <1>7, <1>10, <1>12, <1>13, <1>14, <1>15 DEF Rest

-----------------------------------------------------------------------------
(* The steps that ask.                                                     *)

LEMMA HeadFits ==
    ASSUME IInv, job # <<>>
    PROVE  /\ Head(job) \in Steps /\ srv # "down"
           /\ Fits(Head(job), IF Tail(job) = <<>> THEN {} ELSE {Head(Tail(job))}, Members(Tail(job)), req)
           /\ Members(job) = {Head(job)} \cup Members(Tail(job))
           /\ Grammar(Tail(job), req)
  BY TailGrammar DEF IInv, Types

LEMMA RepairedElsewhere ==
    ASSUME req'.name = req.name, req.name \notin Answered
    PROVE  Repaired'
  BY DEF Repaired

\* What a refresh has put right stays right, and the board it has just asked is put right.
LEMMA RepairedStep ==
    ASSUME IInv, Query, req'.clean => job' = Tail(job),
           req'.clean => \A d \in Boards :
             /\ \/ cache'[d]["info"] = <<d, hw[d].info>> /\ cache'[d]["error"] = None
                \/ /\ cache'[d]["info"] = cache[d]["info"] /\ cache'[d]["error"] = cache[d]["error"]
                   /\ ~(Head(job).do = "ask" /\ Head(job).d = d)
             /\ \/ cache'[d]["ext_clk_freq_hz"] = hw[d].clock
                \/ /\ cache'[d]["ext_clk_freq_hz"] = cache[d]["ext_clk_freq_hz"]
                   /\ ~(Head(job).do = "measure" /\ Head(job).d = d)
             /\ \/ cache'[d]["group"] = <<d, hw[d].group>>
                \/ /\ cache'[d]["group"] = cache[d]["group"]
                   /\ ~(Head(job).do = "regroup" /\ Head(job).d = d)
                \/ Head(job).do = "ask" /\ Head(job).d = d
    PROVE  Repaired'
  <1> SUFFICES ASSUME srv' # "down", req'.name \in Answered, req'.clean, NEW d \in Boards
               PROVE  /\ ComingFor("ask", d)' \/ (cache'[d]["info"] = <<d, hw'[d].info>> /\ cache'[d]["error"] = None)
                      /\ ComingFor("measure", d)' \/ cache'[d]["ext_clk_freq_hz"] = hw'[d].clock
                      /\ ComingFor("regroup", d)' \/ cache'[d]["group"] = <<d, hw'[d].group>>
    BY DEF Repaired
  <1>1. req.clean /\ req.name \in Answered /\ hw' = hw /\ job' = Tail(job)
    BY SameRequestKeeps DEF Query, IInv, Types
  <1>2. PICK h, t : h = Head(job) /\ t = Tail(job)
    OBVIOUS
  <1>3. Members(job) = {h} \cup Members(t) /\ \A s \in Members(t) : s.do # "master"
    BY <1>2, HeadFits DEF Query, Fits
  <1>4. ~Coming("master") /\ srv # "down"
    BY <1>2, <1>3, HeadFits DEF Query, Coming
  <1>5. /\ ComingFor("ask", d) \/ (cache[d]["info"] = <<d, hw[d].info>> /\ cache[d]["error"] = None)
        /\ ComingFor("measure", d) \/ cache[d]["ext_clk_freq_hz"] = hw[d].clock
        /\ ComingFor("regroup", d) \/ cache[d]["group"] = <<d, hw[d].group>>
    BY <1>1, <1>4 DEF IInv, Repaired
  <1>6. \A x : ComingFor(x, d) => ComingFor(x, d)' \/ (h.do = x /\ h.d = d)
    BY <1>1, <1>2, <1>3 DEF ComingFor
  <1>7. h.do = "ask" /\ h.d = d => ComingFor("regroup", d)'
    BY <1>1, <1>2, HeadFits DEF Query, Fits, ComingFor
  <1> QED  BY <1>1, <1>2, <1>5, <1>6, <1>7

\* A board that has just been asked has an entry without an error.
LEMMA EntryThere ==
    ASSUME IInv, job # <<>>, Head(job).do \in {"measure", "regroup"}, req.name \in Answered, req.clean,
           Head(job).d \in Boards
    PROVE  cache[Head(job).d] # NoEntry /\ ~Broken(Head(job).d)
  <1>1. PICK h, t, d : d \in Boards /\ h = Head(job) /\ t = Tail(job) /\ d = Head(job).d
    OBVIOUS
  <1>2. Members(job) = {h} \cup Members(t) /\ (\A s \in Members(t) : s.do \notin {"master", "ask"}) /\ srv # "down"
    BY <1>1, HeadFits DEF Fits
  <1>3. ~Coming("master") /\ ~ComingFor("ask", d)
    BY <1>1, <1>2 DEF Coming, ComingFor
  <1>4. cache[d]["info"] = <<d, hw[d].info>> /\ cache[d]["error"] = None
    BY <1>1, <1>2, <1>3 DEF IInv, Repaired
  <1>5. hw[d].info \in Values
    BY <1>1 DEF IInv, Types, TypeOK, Board
  <1>6. cache[d]["info"] # None
    BY <1>1, <1>4, <1>5, Constants
  <1>7. NoEntry["info"] = None
    BY NoEntries DEF Keys
  <1> QED  BY <1>1, <1>4, <1>6, <1>7 DEF Broken

LEMMA ConsultStep == ASSUME IInv, Consult PROVE Query /\ Repaired'
  <1>1. Head(job) \in Steps /\ req.name \notin Answered /\ job # <<>> /\ Head(job).do = "consult"
    BY HeadFits DEF Consult, Do, Fits
  <1>2. This.d \in Boards /\ This.qt = "other" /\ This.insist \in BOOLEAN
    BY <1>1, StepKinds DEF This
  <1>3. PICK r \in Replies :
        /\ query_board(This.d, This.qt, r)
        /\ job' = IF This.insist /\ (r = Raised \/ (r # Raised /\ r.qt # This.qt)) THEN <<>> ELSE Tail(job)
    BY DEF Consult
  <1>4. table' \in Table /\ faults' \in 0..MaxFaults /\ SameRequest
    BY <1>2, <1>3, QueryBoard DEF SameRequest, IInv, Types, TypeOK
  <1>5. UNCHANGED <<hw, named, total, usb, srv, cache, file, web, requests, history>>
    BY DEF Consult
  <1>6. Query
    BY <1>1, <1>2, <1>3, <1>4, <1>5 DEF Query, This, Safe, IInv, Types, TypeOK
  <1>7. req'.name = req.name
    BY <1>4, SameRequestKeeps DEF IInv, Types
  <1> QED  BY <1>1, <1>6, <1>7, RepairedElsewhere

LEMMA RereadStep == ASSUME IInv, Reread PROVE Query /\ Repaired'
  <1>1. Head(job) \in Steps /\ req.name \notin Answered /\ job # <<>> /\ Head(job).do = "reread"
    BY HeadFits DEF Reread, Do, Fits
  <1>2. PICK d \in Boards : d = This.d /\ d \in Known
    BY <1>1, StepKinds, Constants DEF This
  <1>3. PICK r \in Replies :
        /\ query_board(d, "info", r)
        /\ job' = IF r = Raised THEN <<>> ELSE Tail(job)
        /\ cache' = IF r # Raised /\ r.qt = "info"
                    THEN [cache EXCEPT ![d] = _carry_sticky_fields(d, query_board_info(r))]
                    ELSE cache
    BY <1>2 DEF Reread
  <1>4. table' \in Table /\ faults' \in 0..MaxFaults /\ SameRequest /\ (r # Raised => r \in Table)
    BY <1>3, QueryBoard DEF SameRequest, IInv, Types, TypeOK
  <1>5. UNCHANGED <<hw, named, total, usb, srv, file, web, requests, history>>
    BY DEF Reread
  <1>6. cache \in Caches
    BY DEF IInv, Types, TypeOK
  <1>7. cache' \in Caches /\ \A b \in Known, k \in Told : cache'[b][k] = cache[b][k]
    <2>1. CASE r # Raised /\ r.qt = "info"
      <3>1. r \in Table /\ <<r.src, r.val>> \in Filed
        BY <2>1, <1>4, TableKinds
      <3>2. PICK e : e = query_board_info(r)
        OBVIOUS
      <3>3. e \in Entry /\ \A k \in Told : e[k] = None
        BY <2>1, <3>1, <3>2, NoEntries DEF query_board_info, Entry, Told, Keys, _STICKY_KEYS
      <3>4. PICK c : c = _carry_sticky_fields(d, e)
        OBVIOUS
      <3>5. c \in Entry /\ \A k \in Told : c[k] = cache[d][k]
        BY <3>3, <3>4, <1>2, <1>6, Carried
      <3>6. cache' = [cache EXCEPT ![d] = c]
        BY <2>1, <1>3, <3>2, <3>4
      <3>7. PICK old \in Caches : old = cache
        BY <1>6
      <3>8. /\ [old EXCEPT ![d] = c] \in Caches /\ [old EXCEPT ![d] = c][d] = c
            /\ \A b \in Known \ {d} : [old EXCEPT ![d] = c][b] = old[b]
        BY <3>5, <1>2, CacheWith
      <3>9. cache' = [old EXCEPT ![d] = c]
        BY <3>6, <3>7
      <3> QED  BY <3>5, <3>7, <3>8, <3>9
    <2>2. CASE ~(r # Raised /\ r.qt = "info")
      BY <2>2, <1>3, <1>6
    <2> QED  BY <2>1, <2>2
  <1>8. job' = Tail(job) \/ cache' = cache
    BY <1>3
  <1>9. Query
    BY <1>1, <1>3, <1>4, <1>5, <1>7, <1>8 DEF Query, Safe
  <1>10. req'.name = req.name
    BY <1>4, SameRequestKeeps DEF IInv, Types
  <1> QED  BY <1>1, <1>9, <1>10, RepairedElsewhere

\* The entry an answer to QT_BOARD_INFO, or none, is filed as.
LEMMA AskedEntry ==
    ASSUME cache \in Caches, NEW d \in Known, NEW r, r = Raised \/ r \in Table
    PROVE  /\ Asked(r, d) \in Entry
           /\ \A k \in Told : Asked(r, d)[k] = cache[d][k] \/ (r = Raised /\ Asked(r, d)[k] = None)
           /\ r # Raised => Asked(r, d)["ext_clk_freq_hz"] = cache[d]["ext_clk_freq_hz"]
           /\ r # Raised /\ r.qt = "info" =>
                Asked(r, d)["info"] = <<r.src, r.val>> /\ Asked(r, d)["error"] = None
  <1>1. CASE r = Raised
    BY <1>1, NoEntries DEF Asked, Keys, _STICKY_KEYS, Told
  <1>2. CASE r # Raised
    <2>1. r \in Table /\ <<r.src, r.val>> \in Filed
      BY <1>2, TableKinds
    <2>2. PICK e : e = query_board_info(r)
      OBVIOUS
    <2>3. /\ e \in Entry /\ (\A k \in Told : e[k] = None) /\ e["ext_clk_freq_hz"] = None
          /\ r.qt = "info" => e["info"] = <<r.src, r.val>> /\ e["error"] = None
      BY <1>2, <2>1, <2>2, NoEntries DEF query_board_info, Entry, Told, Keys, _STICKY_KEYS
    <2>4. Asked(r, d) = _carry_sticky_fields(d, e)
      BY <1>2, <2>2 DEF Asked
    <2> QED  BY <1>2, <2>3, <2>4, Carried
  <1> QED  BY <1>1, <1>2

LEMMA AskBoardStep == ASSUME IInv, AskBoard PROVE Query /\ Repaired'
  <1>1. Head(job) \in Steps /\ job # <<>> /\ Head(job).do = "ask" /\ job' = Tail(job)
    BY HeadFits DEF AskBoard, Do, Next_step
  <1>2. PICK d \in Known : d = This.d /\ d = Head(job).d
    BY <1>1, StepKinds DEF This
  <1>3. PICK r \in Replies :
        /\ query_board(d, "info", r)
        /\ cache' = [cache EXCEPT ![d] = Asked(r, d)]
    BY <1>2 DEF AskBoard
  <1>4. /\ table' \in Table /\ faults' \in 0..MaxFaults /\ SameRequest /\ (r # Raised => r \in Table)
        /\ req'.clean => d \in Boards /\ r = Answer(d, "info") /\ r \in Table
    BY <1>3, QueryBoard DEF SameRequest, IInv, Types, TypeOK
  <1>5. UNCHANGED <<hw, named, total, usb, srv, file, web, requests, history>>
    BY DEF AskBoard
  <1>6. cache \in Caches
    BY DEF IInv, Types, TypeOK
  <1>7. PICK e : e = Asked(r, d)
    OBVIOUS
  <1>8. /\ e \in Entry
        /\ \A k \in Told : e[k] = cache[d][k] \/ (r = Raised /\ e[k] = None)
        /\ r # Raised => e["ext_clk_freq_hz"] = cache[d]["ext_clk_freq_hz"]
        /\ r # Raised /\ r.qt = "info" => e["info"] = <<r.src, r.val>> /\ e["error"] = None
    BY <1>4, <1>6, <1>7, AskedEntry
  <1>9. cache' \in Caches /\ cache'[d] = e /\ \A b \in Known \ {d} : cache'[b] = cache[b]
    <2>1. PICK c \in Caches : c = cache
      BY <1>6
    <2>2. /\ [c EXCEPT ![d] = e] \in Caches /\ [c EXCEPT ![d] = e][d] = e
          /\ \A b \in Known \ {d} : [c EXCEPT ![d] = e][b] = c[b]
      BY <1>8, CacheWith
    <2>3. cache' = [c EXCEPT ![d] = e]
      BY <2>1, <1>3, <1>7
    <2> QED  BY <2>1, <2>2, <2>3
  <1>10. r = Raised => ~req'.clean
    BY <1>4, Constants
  <1>11. Query
    BY <1>1, <1>4, <1>5, <1>8, <1>9, <1>10 DEF Query, Safe
  <1>12. req'.clean => e["info"] = <<d, hw[d].info>> /\ e["error"] = None /\ e["ext_clk_freq_hz"] = cache[d]["ext_clk_freq_hz"]
    BY <1>4, <1>8, <1>10 DEF Answer
  <1> QED  BY <1>1, <1>2, <1>9, <1>11, <1>12, Constants, RepairedStep

\* An entry with one of its fields replaced.
GroupAt(c, d, x) == [c EXCEPT ![d]["group"] = x]
NoteAt(c, d, k, x) == [c EXCEPT ![d][k] = x]

LEMMA GroupIn ==
    ASSUME NEW c \in Caches, NEW d \in Known, NEW x \in Filed
    PROVE  /\ GroupAt(c, d, x) \in Caches /\ GroupAt(c, d, x)[d]["group"] = x
           /\ \A k \in Keys \ {"group"} : GroupAt(c, d, x)[d][k] = c[d][k]
           /\ \A b \in Known \ {d} : GroupAt(c, d, x)[b] = c[b]
  <1>1. c[d] \in Entry
    BY DEF Caches
  <1>2. PICK e : e = [c[d] EXCEPT !["group"] = x]
    OBVIOUS
  <1>3. e \in Entry /\ e["group"] = x /\ \A k \in Keys \ {"group"} : e[k] = c[d][k]
    BY <1>1, <1>2 DEF Entry, Keys, _STICKY_KEYS, Told
  <1>4. GroupAt(c, d, x) = [c EXCEPT ![d] = e]
    BY <1>2 DEF Caches, GroupAt
  <1>5. PICK n : n = [c EXCEPT ![d] = e]
    OBVIOUS
  <1>6. n \in Caches /\ n[d] = e /\ \A b \in Known \ {d} : n[b] = c[b]
    BY <1>3, <1>5 DEF Caches
  <1> QED  BY <1>3, <1>4, <1>5, <1>6

LEMMA NotedIn ==
    ASSUME NEW c \in Caches, NEW d \in Known, NEW k \in _STICKY_KEYS, NEW x \in Noted
    PROVE  /\ NoteAt(c, d, k, x) \in Caches /\ NoteAt(c, d, k, x)[d][k] = x
           /\ \A j \in Keys \ {k} : NoteAt(c, d, k, x)[d][j] = c[d][j]
           /\ \A b \in Known \ {d} : NoteAt(c, d, k, x)[b] = c[b]
  <1>1. c[d] \in Entry
    BY DEF Caches
  <1>2. PICK e : e = [c[d] EXCEPT ![k] = x]
    OBVIOUS
  <1>3. e \in Entry /\ e[k] = x /\ \A j \in Keys \ {k} : e[j] = c[d][j]
    BY <1>1, <1>2 DEF Entry, Keys, _STICKY_KEYS, Told
  <1>4. NoteAt(c, d, k, x) = [c EXCEPT ![d] = e]
    BY <1>2 DEF Caches, NoteAt
  <1>5. PICK n : n = [c EXCEPT ![d] = e]
    OBVIOUS
  <1>6. n \in Caches /\ n[d] = e /\ \A b \in Known \ {d} : n[b] = c[b]
    BY <1>3, <1>5 DEF Caches
  <1> QED  BY <1>3, <1>4, <1>5, <1>6

LEMMA PassOverStep == ASSUME IInv, PassOver PROVE Query /\ Repaired'
  <1>1. /\ Head(job) \in Steps /\ job # <<>> /\ Head(job).do \in {"measure", "regroup"}
        /\ job' = Tail(job) /\ Broken(Head(job).d)
    BY HeadFits DEF PassOver, Next_step, This
  <1>2. UNCHANGED <<ring, usb, srv, cache, file, req, web, requests, faults, history>>
    BY DEF PassOver
  <1>3. Query
    BY <1>1, <1>2 DEF Query, SameRequest, ring, IInv, Types, TypeOK
  <1>4. req.name \in Answered /\ req.clean => Head(job).d \notin Boards
    BY <1>1, EntryThere
  <1>5. CASE req.name \in Answered /\ req.clean
    BY <1>1, <1>2, <1>3, <1>4, <1>5, RepairedStep
  <1>6. CASE ~(req.name \in Answered /\ req.clean)
    BY <1>2, <1>3, <1>6 DEF Repaired
  <1> QED  BY <1>3, <1>5, <1>6

LEMMA RegroupStep == ASSUME IInv, Regroup PROVE Query /\ Repaired'
  <1>1. Head(job) \in Steps /\ job # <<>> /\ Head(job).do = "regroup"
    BY HeadFits DEF Regroup, Do
  <1>2. PICK d \in Known : d = This.d /\ d = Head(job).d /\ This.insist = Head(job).insist
    BY <1>1, StepKinds DEF This
  <1>3. PICK r \in Replies :
        /\ query_board(d, "group", r)
        /\ LET good == r # Raised /\ r.qt = "group" IN
           /\ job' = IF good \/ ~This.insist THEN Tail(job) ELSE <<>>
           /\ cache' = IF good /\ cache[d] # NoEntry
                       THEN [cache EXCEPT ![d]["group"] = <<r.src, r.val>>] ELSE cache
    BY <1>2 DEF Regroup
  <1>4. /\ table' \in Table /\ faults' \in 0..MaxFaults /\ SameRequest /\ (r # Raised => r \in Table)
        /\ req'.clean => req.clean /\ d \in Boards /\ r = Answer(d, "group") /\ r \in Table
    BY <1>3, QueryBoard DEF SameRequest, IInv, Types, TypeOK
  <1>5. UNCHANGED <<hw, named, total, usb, srv, file, web, requests, history>>
    BY DEF Regroup
  <1>6. PICK c \in Caches : c = cache
    BY DEF IInv, Types, TypeOK
  <1>7. /\ cache' \in Caches
        /\ \A b \in Known : \A k \in Keys \ {"group"} : cache'[b][k] = c[b][k]
        /\ \A b \in Known \ {d} : cache'[b] = c[b]
        /\ r # Raised /\ r.qt = "group" /\ c[d] # NoEntry => cache'[d]["group"] = <<r.src, r.val>>
    <2>1. CASE r # Raised /\ r.qt = "group" /\ c[d] # NoEntry
      <3>1. PICK x \in Filed : x = <<r.src, r.val>>
        BY <2>1, <1>4, TableKinds
      <3>2. cache' = GroupAt(c, d, x)
        BY <2>1, <1>3, <1>6, <3>1 DEF GroupAt
      <3>3. PICK n : n = GroupAt(c, d, x)
        OBVIOUS
      <3>4. /\ n \in Caches /\ n[d]["group"] = x
            /\ \A k \in Keys \ {"group"} : n[d][k] = c[d][k]
            /\ \A b \in Known \ {d} : n[b] = c[b]
        BY <3>3, GroupIn
      <3>5. \A b \in Known : \A k \in Keys \ {"group"} : n[b][k] = c[b][k]
        BY <3>4
      <3> QED  BY <3>1, <3>2, <3>3, <3>4, <3>5
    <2>2. CASE ~(r # Raised /\ r.qt = "group" /\ c[d] # NoEntry)
      BY <2>2, <1>3, <1>6
    <2> QED  BY <2>1, <2>2
  <1>8. Told \subseteq Keys \ {"group"} /\ PageKeys \subseteq Keys \ {"group"} /\ "error" \in Keys \ {"group"}
    BY DEF Told, PageKeys, Keys, _STICKY_KEYS
  <1>9. Query
    <2>1. /\ \A b \in Known, k \in Told : cache'[b][k] = cache[b][k]
          /\ \A b \in Known, k \in PageKeys : cache'[b][k] = cache[b][k]
      BY <1>6, <1>7, <1>8
    <2>2. job' \in {Tail(job), <<>>} /\ (Safe(Head(job)) => job' = Tail(job))
      BY <1>1, <1>2, <1>3 DEF Safe
    <2> QED  BY <1>1, <1>4, <1>5, <1>7, <2>1, <2>2 DEF Query
  <1>10. CASE req'.name \notin Answered
    BY <1>9, <1>10 DEF Repaired
  <1>11. CASE req'.name \in Answered
    <2>1. req.name \in Answered
      BY <1>4, <1>11, SameRequestKeeps DEF IInv, Types
    <2>2. req'.clean => c[d] # NoEntry
      BY <1>1, <1>2, <1>4, <1>6, <2>1, EntryThere
    <2>3. req'.clean => r # Raised /\ r.qt = "group" /\ r.src = d /\ r.val = hw[d].group
      BY <1>4, Constants DEF Answer
    <2>4. req'.clean => job' = Tail(job)
      BY <1>3, <2>3
    <2>5. ASSUME req'.clean, NEW b \in Boards
          PROVE  /\ cache'[b]["info"] = cache[b]["info"] /\ cache'[b]["error"] = cache[b]["error"]
                 /\ cache'[b]["ext_clk_freq_hz"] = cache[b]["ext_clk_freq_hz"]
                 /\ \/ cache'[b]["group"] = <<b, hw[b].group>>
                    \/ cache'[b]["group"] = cache[b]["group"] /\ b # d
      <3>1. b \in Known
        BY Constants
      <3>2. {"info", "error", "ext_clk_freq_hz"} \subseteq Keys \ {"group"}
        BY DEF Keys, _STICKY_KEYS
      <3>3. CASE b = d
        BY <2>2, <2>3, <2>5, <3>1, <3>2, <3>3, <1>6, <1>7
      <3>4. CASE b # d
        BY <3>1, <3>4, <1>6, <1>7
      <3> QED  BY <3>3, <3>4
    <2> QED  BY <1>1, <1>2, <1>9, <2>4, <2>5, RepairedStep
  <1> QED  BY <1>9, <1>10, <1>11

LEMMA MeasureStep == ASSUME IInv, Measure PROVE Query /\ Repaired'
  <1>1. Head(job) \in Steps /\ job # <<>> /\ Head(job).do = "measure"
    BY HeadFits DEF Measure, Do
  <1>2. PICK d \in Known : d = This.d /\ d = Head(job).d /\ This.insist = Head(job).insist
    BY <1>1, StepKinds DEF This
  <1>3. PICK f \in Readings \cup {0, Raised} :
        /\ \/ usb /\ Answers(d) /\ f = hw[d].clock
              /\ table' = Answer(d, "info") /\ Smooth
           \/ usb /\ Answers(d) /\ table' \in {table, Answer(d, "info")} /\ Fault
           \/ usb /\ ~Answers(d) /\ f \in Readings
              /\ UNCHANGED <<table, faults>> /\ req' = [req EXCEPT !.clean = FALSE]
           \/ ~usb /\ f = Raised /\ UNCHANGED <<table, faults>> /\ req' = [req EXCEPT !.clean = FALSE]
        /\ job' = IF f = Raised /\ This.insist THEN <<>> ELSE Tail(job)
        /\ cache' = IF f # Raised /\ cache[d] # NoEntry
                    THEN [cache EXCEPT ![d]["ext_clk_freq_hz"] = f] ELSE cache
    BY <1>2 DEF Measure
  <1>4. hw \in [Boards -> Board] /\ table \in Table /\ faults \in 0..MaxFaults
    BY DEF IInv, Types, TypeOK
  <1>5. [req EXCEPT !.clean = FALSE].clean = FALSE
    BY DEF IInv, Types
  <1>6. /\ table' \in Table /\ faults' \in 0..MaxFaults /\ SameRequest
        /\ req'.clean => req.clean /\ d \in Boards /\ f = hw[d].clock
    <2>1. d \in Boards => Answer(d, "info") \in Table
      BY <1>4, AnswerInTable
    <2>2. CASE usb /\ Answers(d) /\ f = hw[d].clock /\ table' = Answer(d, "info") /\ Smooth
      BY <1>4, <2>1, <2>2 DEF Answers, Smooth, SameRequest
    <2>3. CASE usb /\ Answers(d) /\ table' \in {table, Answer(d, "info")} /\ Fault
      BY <1>4, <1>5, <2>1, <2>3, Constants DEF Answers, Fault, SameRequest
    <2>4. CASE UNCHANGED <<table, faults>> /\ req' = [req EXCEPT !.clean = FALSE]
      BY <1>4, <1>5, <2>4 DEF SameRequest
    <2> QED  BY <1>3, <2>2, <2>3, <2>4
  <1>7. UNCHANGED <<hw, named, total, usb, srv, file, web, requests, history>>
    BY DEF Measure
  <1>8. PICK c \in Caches : c = cache
    BY DEF IInv, Types, TypeOK
  <1>9. /\ cache' \in Caches
        /\ \A b \in Known : \A k \in Keys \ {"ext_clk_freq_hz"} : cache'[b][k] = c[b][k]
        /\ \A b \in Known \ {d} : cache'[b] = c[b]
        /\ f # Raised /\ c[d] # NoEntry => cache'[d]["ext_clk_freq_hz"] = f
        /\ f = Raised => cache' = cache
    <2>1. CASE f # Raised /\ c[d] # NoEntry
      <3>1. f \in Noted /\ "ext_clk_freq_hz" \in _STICKY_KEYS
        BY <2>1, Constants DEF Noted, _STICKY_KEYS
      <3>2. cache' = NoteAt(c, d, "ext_clk_freq_hz", f)
        BY <2>1, <1>3, <1>8 DEF NoteAt
      <3>3. PICK n : n = NoteAt(c, d, "ext_clk_freq_hz", f)
        OBVIOUS
      <3>4. /\ n \in Caches /\ n[d]["ext_clk_freq_hz"] = f
            /\ \A k \in Keys \ {"ext_clk_freq_hz"} : n[d][k] = c[d][k]
            /\ \A b \in Known \ {d} : n[b] = c[b]
        BY <3>1, <3>3, NotedIn
      <3>5. \A b \in Known : \A k \in Keys \ {"ext_clk_freq_hz"} : n[b][k] = c[b][k]
        BY <3>4
      <3> QED  BY <2>1, <3>2, <3>3, <3>4, <3>5
    <2>2. CASE ~(f # Raised /\ c[d] # NoEntry)
      BY <2>2, <1>3, <1>8
    <2> QED  BY <2>1, <2>2
  <1>10. Told \subseteq Keys \ {"ext_clk_freq_hz"} /\ {"info", "group", "error"} \subseteq Keys \ {"ext_clk_freq_hz"}
    BY DEF Told, Keys, _STICKY_KEYS
  <1>11. Query
    <2>1. \A b \in Known, k \in Told : cache'[b][k] = cache[b][k]
      BY <1>8, <1>9, <1>10
    <2>2. job' \in {Tail(job), <<>>} /\ (Safe(Head(job)) => job' = Tail(job))
      BY <1>1, <1>2, <1>3 DEF Safe
    <2>3. f # Raised => job' = Tail(job)
      BY <1>3
    <2>4. \A b \in Known, k \in PageKeys : cache'[b][k] = cache[b][k] \/ job' = Tail(job)
      BY <1>9, <2>3
    <2> QED  BY <1>1, <1>6, <1>7, <1>9, <2>1, <2>2, <2>4 DEF Query
  <1>12. CASE req'.name \notin Answered
    BY <1>11, <1>12 DEF Repaired
  <1>13. CASE req'.name \in Answered
    <2>1. req.name \in Answered
      BY <1>6, <1>13, SameRequestKeeps DEF IInv, Types
    <2>2. req'.clean => c[d] # NoEntry
      BY <1>1, <1>2, <1>6, <1>8, <2>1, EntryThere
    <2>3. req'.clean => f # Raised
      <3>1. d \in Boards => hw[d].clock \in Values
        BY <1>4 DEF Board
      <3> QED  BY <3>1, <1>6, Constants
    <2>4. req'.clean => job' = Tail(job)
      BY <1>3, <2>3
    <2>5. ASSUME req'.clean, NEW b \in Boards
          PROVE  /\ cache'[b]["info"] = cache[b]["info"] /\ cache'[b]["error"] = cache[b]["error"]
                 /\ cache'[b]["group"] = cache[b]["group"]
                 /\ \/ cache'[b]["ext_clk_freq_hz"] = hw[b].clock
                    \/ cache'[b]["ext_clk_freq_hz"] = cache[b]["ext_clk_freq_hz"] /\ b # d
      <3>1. b \in Known
        BY Constants
      <3>2. CASE b = d
        BY <2>2, <2>3, <2>5, <3>1, <3>2, <1>6, <1>8, <1>9, <1>10
      <3>3. CASE b # d
        BY <3>1, <3>3, <1>8, <1>9
      <3> QED  BY <3>2, <3>3
    <2> QED  BY <1>1, <1>2, <1>11, <2>4, <2>5, RepairedStep
  <1> QED  BY <1>11, <1>12, <1>13

LEMMA AbsorbStep == ASSUME IInv, Absorb PROVE Query /\ Repaired'
  <1>1. /\ Head(job) \in Steps /\ req.name \notin Answered /\ job # <<>> /\ Head(job).do = "absorb"
        /\ job' = Tail(job)
    BY HeadFits DEF Absorb, Do, Fits, Next_step
  <1>2. PICK d \in Boards, e \in FoundEntry : d = This.d /\ e = This.e /\ d \in Known
    BY <1>1, StepKinds, Constants DEF This
  <1>3. e \in Entry /\ \A k \in Told : e[k] = None
    BY DEF FoundEntry
  <1>4. UNCHANGED <<hw, named, total, usb, srv, file, web, requests, history>>
    BY DEF Absorb
  <1>5. PICK c \in Caches : c = cache
    BY DEF IInv, Types, TypeOK
  <1>6. /\ table' \in Table /\ faults' \in 0..MaxFaults /\ SameRequest /\ cache' \in Caches
        /\ \A b \in Known, k \in Told : cache'[b][k] = c[b][k]
    <2>1. CASE UNCHANGED <<cache, table, faults, req>>
      BY <2>1, <1>5 DEF SameRequest, IInv, Types, TypeOK
    <2>2. CASE e["error"] = None
      <3>1. PICK r \in Replies :
            /\ query_board(d, "group", r)
            /\ cache' = [cache EXCEPT ![d] = _carry_sticky_fields(d,
                   IF r # Raised /\ r.qt = "group" THEN [e EXCEPT !["group"] = <<r.src, r.val>>] ELSE e)]
        BY <2>2, <1>2 DEF Absorb
      <3>2. table' \in Table /\ faults' \in 0..MaxFaults /\ SameRequest /\ (r # Raised => r \in Table)
        BY <3>1, QueryBoard DEF SameRequest, IInv, Types, TypeOK
      <3>3. PICK x : x = IF r # Raised /\ r.qt = "group" THEN [e EXCEPT !["group"] = <<r.src, r.val>>] ELSE e
        OBVIOUS
      <3>4. x \in Entry /\ \A k \in Told : x[k] = None
        <4>1. CASE r # Raised /\ r.qt = "group"
          <5>1. <<r.src, r.val>> \in Filed
            BY <4>1, <3>2, TableKinds
          <5> QED  BY <5>1, <4>1, <3>3, <1>3 DEF Entry, Told
        <4>2. CASE ~(r # Raised /\ r.qt = "group")
          BY <4>2, <3>3, <1>3
        <4> QED  BY <4>1, <4>2
      <3>5. PICK n : n = _carry_sticky_fields(d, x)
        OBVIOUS
      <3>6. n \in Entry /\ \A k \in Told : n[k] = c[d][k]
        BY <3>4, <3>5, <1>2, <1>5, Carried
      <3>7. cache' = [c EXCEPT ![d] = n]
        BY <3>1, <3>3, <3>5, <1>5
      <3>8. /\ [c EXCEPT ![d] = n] \in Caches /\ [c EXCEPT ![d] = n][d] = n
            /\ \A b \in Known \ {d} : [c EXCEPT ![d] = n][b] = c[b]
        BY <3>6, <1>2, CacheWith
      <3> QED  BY <3>2, <3>6, <3>7, <3>8
    <2> QED  BY <1>2, <2>1, <2>2 DEF Absorb
  <1>7. Query
    BY <1>1, <1>4, <1>5, <1>6 DEF Query
  <1>8. req'.name = req.name
    BY <1>6, SameRequestKeeps DEF IInv, Types
  <1> QED  BY <1>1, <1>7, <1>8, RepairedElsewhere

-----------------------------------------------------------------------------
(* The lists requests begin with.                                          *)

Truncating == [do |-> "truncate"]
Dumping == [do |-> "dump"]
StatusEvent == [do |-> "push", type |-> "status"]
ArmEvent == [do |-> "push", type |-> "arm"]

LEMMA PlainStepKinds ==
    /\ Truncating \in Steps /\ Dumping \in Steps /\ StatusEvent \in Steps /\ ArmEvent \in Steps
    /\ [do |-> "master"] \in Steps /\ [do |-> "init"] \in Steps
  <1>1. Truncating \in PlainSteps /\ Dumping \in PlainSteps /\ [do |-> "master"] \in PlainSteps /\ [do |-> "init"] \in PlainSteps
    BY DEF Truncating, Dumping, PlainSteps
  <1>2. StatusEvent \in PushSteps /\ ArmEvent \in PushSteps
    BY DEF StatusEvent, ArmEvent, PushSteps
  <1> QED  BY <1>1, <1>2 DEF Steps

LEMMA Concat ==
    ASSUME NEW S, NEW a \in Seq(S), NEW b \in Seq(S), NEW m \in Nat, NEW n \in Nat, m = Len(a), n = Len(b)
    PROVE  /\ a \o b \in Seq(S) /\ Len(a \o b) = m + n
           /\ \A i \in 1..m : (a \o b)[i] = a[i]
           /\ \A i \in 1..n : (a \o b)[m + i] = b[i]
  OBVIOUS

LEMMA ConcatRegroups ==
    ASSUME NEW a \in Seq(Steps), NEW b \in Seq(Steps), NEW c \in Seq(Steps)
    PROVE  (a \o b) \o c = a \o (b \o c)
  OBVIOUS

LEMMA FunctionList ==
    ASSUME NEW S, NEW n \in Nat, NEW a, a = [i \in 1..n |-> a[i]], \A i \in 1..n : a[i] \in S
    PROVE  a \in Seq(S) /\ Len(a) = n
  OBVIOUS

\* A list of steps that need nothing right after them, in front of a list.
LEMMA ConcatGrammar ==
    ASSUME NEW t, NEW r, Grammar(t, r), t # <<>>, Head(t).do # "record", NEW a \in Seq(Steps),
           \A i \in 1..Len(a) : /\ a[i].do \notin {"record", "truncate", "command"}
                                /\ Fits(a[i], {}, After(a, i) \cup Members(t), r)
    PROVE  /\ Grammar(a \o t, r) /\ Members(a \o t) = Members(a) \cup Members(t)
           /\ a \o t # <<>> /\ Head(a \o t).do # "record"
  <1>1. t \in Seq(Steps) /\ \A i \in 1..Len(t) : Fits(t[i], Following(t, i), After(t, i), r)
    BY DEF Grammar
  <1>2. PICK m \in Nat, n \in Nat : m = Len(a) /\ n = Len(t) /\ n >= 1 /\ Head(t) = t[1]
    BY <1>1
  <1>3. PICK q : q = a \o t
    OBVIOUS
  <1>4. /\ q \in Seq(Steps) /\ Len(q) = m + n
        /\ \A i \in 1..m : q[i] = a[i]
        /\ \A i \in 1..n : q[m + i] = t[i]
    BY <1>1, <1>2, <1>3, Concat
  <1>5. \A i \in 1..(m + n) : i \in 1..m \/ (i - m \in 1..n /\ i = m + (i - m))
    BY <1>2
  <1>6. Members(q) = Members(a) \cup Members(t)
    <2>1. ASSUME NEW i \in 1..(m + n) PROVE q[i] \in Members(a) \cup Members(t)
      <3>1. CASE i \in 1..m
        BY <3>1, <1>2, <1>4 DEF Members
      <3>2. CASE i \notin 1..m
        <4>1. PICK j \in 1..n : i = m + j
          BY <3>2, <1>5
        <4> QED  BY <4>1, <1>2, <1>4 DEF Members
      <3> QED  BY <3>1, <3>2
    <2>2. ASSUME NEW i \in 1..m PROVE a[i] \in Members(q)
      <3>1. i \in 1..(m + n)
        BY <1>2
      <3> QED  BY <3>1, <1>4 DEF Members
    <2>3. ASSUME NEW i \in 1..n PROVE t[i] \in Members(q)
      <3>1. m + i \in 1..(m + n)
        BY <1>2
      <3> QED  BY <3>1, <1>4 DEF Members
    <2>4. Members(q) \subseteq Members(a) \cup Members(t)
      <3>1. \A x \in Members(q) : \E i \in 1..(m + n) : x = q[i]
        BY <1>4 DEF Members
      <3> QED  BY <3>1, <2>1
    <2>5. Members(a) \subseteq Members(q)
      <3>1. \A x \in Members(a) : \E i \in 1..m : x = a[i]
        BY <1>2 DEF Members
      <3> QED  BY <3>1, <2>2
    <2>6. Members(t) \subseteq Members(q)
      <3>1. \A x \in Members(t) : \E i \in 1..n : x = t[i]
        BY <1>2 DEF Members
      <3> QED  BY <3>1, <2>3
    <2> QED  BY <2>4, <2>5, <2>6
  <1>7. ASSUME NEW i \in 1..(m + n) PROVE Fits(q[i], Following(q, i), After(q, i), r)
    <2>1. CASE i \in 1..m
      <3>1. \A x \in After(q, i) : x \in After(a, i) \cup Members(t)
        <4> SUFFICES ASSUME NEW j \in (i + 1)..(m + n) PROVE q[j] \in After(a, i) \cup Members(t)
          BY <1>4 DEF After
        <4>1. CASE j \in 1..m
          <5>1. j \in (i + 1)..m
            BY <4>1
          <5> QED  BY <5>1, <4>1, <1>2, <1>4 DEF After
        <4>2. CASE j \notin 1..m
          <5>1. PICK l \in 1..n : j = m + l
            <6>1. j - m \in 1..n /\ j = m + (j - m)
              BY <2>1, <4>2, <1>2
            <6> QED  BY <6>1
          <5> QED  BY <5>1, <1>2, <1>4 DEF Members
        <4> QED  BY <4>1, <4>2
      <3>2. \A x \in After(a, i) \cup Members(t) : x \in After(q, i)
        <4>1. ASSUME NEW j \in (i + 1)..m PROVE a[j] \in After(q, i)
          <5>1. j \in (i + 1)..(m + n) /\ j \in 1..m
            BY <2>1, <1>2
          <5> QED  BY <5>1, <1>4 DEF After
        <4>2. ASSUME NEW j \in 1..n PROVE t[j] \in After(q, i)
          <5>1. m + j \in (i + 1)..(m + n)
            BY <2>1, <1>2
          <5> QED  BY <5>1, <1>4 DEF After
        <4>3. \A x \in After(a, i) : \E j \in (i + 1)..m : x = a[j]
          BY <1>2 DEF After
        <4>4. \A x \in Members(t) : \E j \in 1..n : x = t[j]
          BY <1>2 DEF Members
        <4> QED  BY <4>1, <4>2, <4>3, <4>4
      <3>3. After(q, i) = After(a, i) \cup Members(t)
        BY <3>1, <3>2
      <3>4. \A x \in Following(q, i) : x.do # "record"
        <4> SUFFICES ASSUME NEW j \in {i + 1} \cap (1..(m + n)) PROVE q[j].do # "record"
          BY <1>4 DEF Following
        <4>1. CASE j \in 1..m
          BY <4>1, <1>2, <1>4
        <4>2. CASE j \notin 1..m
          <5>1. j = m + 1 /\ 1 \in 1..n
            BY <2>1, <4>2, <1>2
          <5> QED  BY <5>1, <1>2, <1>4
        <4> QED  BY <4>1, <4>2
      <3>5. q[i] = a[i] /\ a[i].do \notin {"record", "truncate", "command"}
            /\ Fits(a[i], {}, After(a, i) \cup Members(t), r)
        BY <2>1, <1>2, <1>4
      <3> QED  BY <3>3, <3>4, <3>5 DEF Fits
    <2>2. CASE i \notin 1..m
      <3>1. PICK j \in 1..n : i = m + j
        BY <2>2, <1>5
      <3>2. \A l \in (j + 1)..n : m + l \in (i + 1)..(m + n) /\ q[m + l] = t[l]
        BY <3>1, <1>2, <1>4
      <3>3. \A l \in (i + 1)..(m + n) : l - m \in (j + 1)..n /\ q[l] = t[l - m]
        <4> TAKE l \in (i + 1)..(m + n)
        <4>1. l - m \in (j + 1)..n /\ l - m \in 1..n /\ l = m + (l - m)
          BY <3>1, <1>2
        <4> QED  BY <4>1, <1>4
      <3>4. After(q, i) = After(t, j)
        <4>1. \A x \in After(q, i) : \E l \in (i + 1)..(m + n) : x = q[l]
          BY <1>4 DEF After
        <4>2. \A l \in (j + 1)..n : t[l] \in After(t, j)
          BY <1>2 DEF After
        <4>3. \A x \in After(q, i) : x \in After(t, j)
          BY <3>3, <4>1, <4>2
        <4>4. \A x \in After(t, j) : \E l \in (j + 1)..n : x = t[l]
          BY <1>2 DEF After
        <4>5. \A l \in (i + 1)..(m + n) : q[l] \in After(q, i)
          BY <1>4 DEF After
        <4>6. \A x \in After(t, j) : x \in After(q, i)
          BY <3>2, <4>4, <4>5
        <4> QED  BY <4>3, <4>6
      <3>5. i + 1 \in 1..(m + n) <=> j + 1 \in 1..n
        BY <3>1, <1>2
      <3>6. j + 1 \in 1..n => q[i + 1] = t[j + 1]
        <4>1. i + 1 = m + (j + 1)
          BY <3>1, <1>2
        <4> QED  BY <4>1, <1>4
      <3>7. Following(q, i) = Following(t, j)
        BY <3>5, <3>6, <1>2, <1>4 DEF Following
      <3>8. Fits(t[j], Following(t, j), After(t, j), r) /\ q[i] = t[j]
        BY <3>1, <1>1, <1>2, <1>4
      <3> QED  BY <3>4, <3>7, <3>8
    <2> QED  BY <2>1, <2>2
  <1>8. Grammar(q, r)
    BY <1>2, <1>4, <1>7 DEF Grammar
  <1>9. q # <<>> /\ Head(q).do # "record"
    <2>1. m + n \in Nat /\ m + n >= 1
      BY <1>2
    <2>2. q # <<>> /\ Head(q) = q[1]
      BY <2>1, <1>4
    <2>3. CASE m = 0
      <3>1. q[0 + 1] = t[1] /\ 0 + 1 = 1
        BY <2>3, <1>2, <1>4
      <3> QED  BY <2>2, <3>1, <1>2
    <2>4. CASE m # 0
      <3>1. 1 \in 1..m
        BY <2>4, <1>2
      <3> QED  BY <2>2, <3>1, <1>2, <1>4
    <2> QED  BY <2>3, <2>4
  <1> QED  BY <1>3, <1>6, <1>8, <1>9

LEMMA LastGrammar ==
    ASSUME NEW s \in Steps, NEW r, Fits(s, {}, {}, r)
    PROVE  Grammar(<<s>>, r) /\ Members(<<s>>) = {s} /\ Head(<<s>>) = s /\ <<s>> # <<>>
  <1>1. <<s>> \in Seq(Steps) /\ Len(<<s>>) = 1 /\ <<s>>[1] = s /\ Head(<<s>>) = s /\ <<s>> # <<>>
    OBVIOUS
  <1>2. Members(<<s>>) = {s} /\ After(<<s>>, 1) = {} /\ Following(<<s>>, 1) = {}
    BY <1>1 DEF Members, After, Following
  <1>3. \A i \in 1..Len(<<s>>) : i = 1
    BY <1>1
  <1> QED  BY <1>1, <1>2, <1>3 DEF Grammar

\* A list with a step put in front of it, and what that takes.
Onto(s, t) == <<s>> \o t
Leads(s, t, r) == Fits(s, {Head(t)}, Members(t), r)

LEMMA FrontGrammar ==
    ASSUME NEW t, NEW r, Grammar(t, r), t # <<>>, NEW s \in Steps, Leads(s, t, r)
    PROVE  /\ Grammar(Onto(s, t), r) /\ Members(Onto(s, t)) = {s} \cup Members(t)
           /\ Head(Onto(s, t)) = s /\ Onto(s, t) # <<>>
  BY ConsGrammar DEF Leads, Onto

\* How every request that changes the file ends.
LEMMA PersistGrammar ==
    ASSUME NEW r
    PROVE  /\ Grammar(_persist_status, r) /\ Members(_persist_status) = {Truncating, Dumping}
           /\ _persist_status # <<>> /\ Head(_persist_status) = Truncating
  <1>1. Fits(Dumping, {}, {}, r)
    BY DEF Fits, Dumping, Settles, Answered
  <1>2. PICK t : t = <<Dumping>>
    OBVIOUS
  <1>3. Grammar(t, r) /\ Members(t) = {Dumping} /\ Head(t) = Dumping /\ t # <<>>
    BY <1>1, <1>2, LastGrammar, PlainStepKinds
  <1>4. Fits(Truncating, {Dumping}, {Dumping}, r)
    BY DEF Fits, Truncating, Dumping, Settles, Safe, Answered
  <1>5. Leads(Truncating, t, r) /\ Truncating \in Steps
    BY <1>3, <1>4, PlainStepKinds DEF Leads
  <1>6. _persist_status = Onto(Truncating, t)
    BY <1>2 DEF _persist_status, Truncating, Dumping, Onto
  <1> QED  BY <1>3, <1>5, <1>6, FrontGrammar

LEMMA ClosingGrammar ==
    ASSUME NEW r, NEW t, t = PushStatus \o _persist_status
    PROVE  /\ Grammar(t, r) /\ Members(t) = {StatusEvent, Truncating, Dumping}
           /\ t # <<>> /\ Head(t) = StatusEvent
  <1>1. /\ Grammar(_persist_status, r) /\ Members(_persist_status) = {Truncating, Dumping}
        /\ _persist_status # <<>> /\ Head(_persist_status) = Truncating
    BY PersistGrammar
  <1>2. Fits(StatusEvent, {Truncating}, {Truncating, Dumping}, r)
    BY DEF Fits, Truncating, Dumping, StatusEvent, Settles, Safe, Answered
  <1>3. PICK p : p = _persist_status
    OBVIOUS
  <1>4. Leads(StatusEvent, p, r) /\ StatusEvent \in Steps
    BY <1>1, <1>2, <1>3, PlainStepKinds DEF Leads
  <1>5. t = Onto(StatusEvent, p)
    BY <1>3 DEF PushStatus, StatusEvent, Onto
  <1> QED  BY <1>1, <1>3, <1>4, <1>5, FrontGrammar

LEMMA Halves ==
    ASSUME NEW n \in Nat
    PROVE  /\ \A i \in 1..(2 * n) : i % 2 = 1 => (i - 1) \div 2 \in 0..(n - 1)
           /\ \A i \in 1..(2 * n) : i % 2 # 1 => (i - 2) \div 2 \in 0..(n - 1)
           /\ \A d \in 0..(n - 1) :
                /\ 2 * d + 1 \in 1..(2 * n) /\ (2 * d + 1) % 2 = 1 /\ (2 * d + 1 - 1) \div 2 = d
                /\ 2 * d + 2 \in 1..(2 * n) /\ (2 * d + 2) % 2 = 0 /\ (2 * d + 2 - 2) \div 2 = d
  <1>1. ASSUME NEW i \in 1..(2 * n), i % 2 = 1 PROVE (i - 1) \div 2 \in 0..(n - 1)
    BY <1>1
  <1>2. ASSUME NEW i \in 1..(2 * n), i % 2 # 1 PROVE (i - 2) \div 2 \in 0..(n - 1)
    <2>1. i % 2 = 0
      BY <1>2
    <2>2. i >= 2
      BY <2>1
    <2> QED  BY <2>1, <2>2
  <1>3. ASSUME NEW d \in 0..(n - 1)
        PROVE  /\ 2 * d + 1 \in 1..(2 * n) /\ (2 * d + 1) % 2 = 1
               /\ 2 * d + 2 \in 1..(2 * n) /\ (2 * d + 2) % 2 = 0
    OBVIOUS
  <1>4. ASSUME NEW d \in 0..(n - 1) PROVE (2 * d + 1 - 1) \div 2 = d /\ (2 * d + 2 - 2) \div 2 = d
    OBVIOUS
  <1> QED  BY <1>1, <1>2, <1>3, <1>4

LEMMA BoardStep ==
    ASSUME NEW d \in Known, NEW x \in {"ask", "measure", "regroup"}
    PROVE  Step(x, d) \in Steps /\ Step(x, d).do = x /\ Step(x, d).d = d /\ ~Step(x, d).insist
  BY DEF Step, Steps, BoardSteps

\* A refresh measures and regroups every board, and ends in the event and the write.
LEMMA DetailsGrammar ==
    ASSUME NEW n \in Nat, n >= 1, \A d \in 0..(n - 1) : d \in Known, NEW r,
           NEW t, t = PushStatus \o _persist_status
    PROVE  LET q == Details(n) \o t IN
           /\ Grammar(q, r) /\ q # <<>> /\ Head(q).do # "record"
           /\ \A s \in Members(q) : \/ s.do \in {"measure", "regroup"} /\ ~s.insist
                                    \/ s \in {StatusEvent, Truncating, Dumping}
           /\ {StatusEvent, Truncating, Dumping} \subseteq Members(q)
           /\ \A d \in 0..(n - 1) : Step("measure", d) \in Members(q) /\ Step("regroup", d) \in Members(q)
           /\ Details(n) \in Seq(Steps)
  <1>1. /\ Grammar(t, r) /\ Members(t) = {StatusEvent, Truncating, Dumping}
        /\ t # <<>> /\ Head(t) = StatusEvent
    BY ClosingGrammar
  <1>2. PICK a : a = Details(n)
    OBVIOUS
  <1>3. /\ a = [i \in 1..(2 * n) |-> a[i]]
        /\ \A i \in 1..(2 * n) : /\ i % 2 = 1 => a[i] = Step("measure", (i - 1) \div 2)
                                 /\ i % 2 # 1 => a[i] = Step("regroup", (i - 2) \div 2)
    BY <1>2 DEF Details
  <1>4. ASSUME NEW i \in 1..(2 * n)
        PROVE  a[i] \in Steps /\ a[i].do \in {"measure", "regroup"} /\ ~a[i].insist
    <2>1. CASE i % 2 = 1
      <3>1. PICK d \in Known : d = (i - 1) \div 2
        BY <2>1, Halves
      <3> QED  BY <2>1, <3>1, <1>3, BoardStep
    <2>2. CASE i % 2 # 1
      <3>1. PICK d \in Known : d = (i - 2) \div 2
        BY <2>2, Halves
      <3> QED  BY <2>2, <3>1, <1>3, BoardStep
    <2> QED  BY <2>1, <2>2
  <1>5. a \in Seq(Steps) /\ Len(a) = 2 * n
    <2>1. PICK m \in Nat : m = 2 * n
      OBVIOUS
    <2>2. a = [i \in 1..m |-> a[i]] /\ \A i \in 1..m : a[i] \in Steps
      BY <2>1, <1>3, <1>4
    <2> QED  BY <2>1, <2>2, FunctionList
  <1>6. \A s \in Members(a) : s \in Steps /\ s.do \in {"measure", "regroup"} /\ ~s.insist
    BY <1>4, <1>5 DEF Members
  <1>7. ASSUME NEW i \in 1..Len(a) PROVE Fits(a[i], {}, After(a, i) \cup Members(t), r)
    <2>1. \A s \in After(a, i) : s.do \in {"measure", "regroup"} /\ ~s.insist
      <3>1. \A j \in (i + 1)..Len(a) : j \in 1..(2 * n)
        BY <1>5
      <3> QED  BY <3>1, <1>4 DEF After
    <2>2. \A s \in After(a, i) \cup Members(t) : Safe(s) /\ s.do \notin {"master", "ask"}
      BY <2>1, <1>1 DEF Safe, StatusEvent, Truncating, Dumping
    <2>3. StatusPush(StatusEvent) /\ StatusEvent \in After(a, i) \cup Members(t)
      BY <1>1 DEF StatusPush, StatusEvent
    <2>4. a[i].do \in {"measure", "regroup"}
      BY <1>4, <1>5
    <2> QED  BY <2>2, <2>3, <2>4 DEF Fits
  <1>8. PICK q : q = a \o t
    OBVIOUS
  <1>9. \A i \in 1..Len(a) : a[i].do \notin {"record", "truncate", "command"}
    BY <1>4, <1>5
  <1>10. /\ Grammar(q, r) /\ Members(q) = Members(a) \cup Members(t)
         /\ q # <<>> /\ Head(q).do # "record"
    <2>1. Head(t).do # "record"
      BY <1>1 DEF StatusEvent
    <2> QED  BY <2>1, <1>1, <1>5, <1>7, <1>8, <1>9, ConcatGrammar
  <1>11. ASSUME NEW d \in 0..(n - 1) PROVE Step("measure", d) \in Members(a) /\ Step("regroup", d) \in Members(a)
    <2>1. \A i \in 1..(2 * n) : a[i] \in Members(a)
      BY <1>5 DEF Members
    <2>2. PICK i \in 1..(2 * n) : i = 2 * d + 1 /\ i % 2 = 1 /\ (i - 1) \div 2 = d
      BY Halves
    <2>3. PICK j \in 1..(2 * n) : j = 2 * d + 2 /\ j % 2 # 1 /\ (j - 2) \div 2 = d
      BY Halves
    <2> QED  BY <2>1, <2>2, <2>3, <1>3
  <1> QED  BY <1>1, <1>2, <1>5, <1>6, <1>8, <1>10, <1>11

LEMMA RefreshGrammar ==
    ASSUME NEW n \in Nat, n >= 1, \A d \in 0..(n - 1) : d \in Known, NEW r,
           NEW q, q = Ask(n) \o Details(n) \o PushStatus \o _persist_status
    PROVE  /\ Grammar(q, r) /\ \A s \in Members(q) : Safe(s)
           /\ Dumping \in Members(q) /\ StatusEvent \in Members(q)
           /\ q # <<>> /\ Head(q).do # "record"
           /\ \A d \in 1..(n - 1) : Step("ask", d) \in Members(q)
           /\ \A d \in 0..(n - 1) : Step("measure", d) \in Members(q) /\ Step("regroup", d) \in Members(q)
  <1>1. PICK t : t = PushStatus \o _persist_status
    OBVIOUS
  <1>2. PICK b : b = Details(n) \o t
    OBVIOUS
  <1>3. /\ Grammar(b, r) /\ b # <<>> /\ Head(b).do # "record"
        /\ \A s \in Members(b) : \/ s.do \in {"measure", "regroup"} /\ ~s.insist
                                 \/ s \in {StatusEvent, Truncating, Dumping}
        /\ {StatusEvent, Truncating, Dumping} \subseteq Members(b)
        /\ \A d \in 0..(n - 1) : Step("measure", d) \in Members(b) /\ Step("regroup", d) \in Members(b)
        /\ Details(n) \in Seq(Steps)
    BY <1>1, <1>2, DetailsGrammar
  <1>4. PICK a : a = Ask(n)
    OBVIOUS
  <1>5. a = [i \in 1..(n - 1) |-> a[i]] /\ \A i \in 1..(n - 1) : a[i] = Step("ask", i)
    BY <1>4 DEF Ask
  <1>6. ASSUME NEW i \in 1..(n - 1)
        PROVE  a[i] \in Steps /\ a[i].do = "ask" /\ ~a[i].insist /\ a[i].d = i
    <2>1. i \in Known
      OBVIOUS
    <2> QED  BY <2>1, <1>5, BoardStep
  <1>7. a \in Seq(Steps) /\ Len(a) = n - 1
    <2>1. PICK m \in Nat : m = n - 1
      OBVIOUS
    <2> QED  BY <2>1, <1>5, <1>6, FunctionList
  <1>8. \A s \in Members(a) : s.do = "ask"
    BY <1>6, <1>7 DEF Members
  <1>9. \A s \in Members(b) : Safe(s) /\ s.do \notin {"master", "ask"}
    BY <1>3 DEF Safe, StatusEvent, Truncating, Dumping
  <1>10. ASSUME NEW i \in 1..Len(a) PROVE Fits(a[i], {}, After(a, i) \cup Members(b), r)
    <2>1. \A s \in After(a, i) : s.do = "ask"
      <3>1. \A j \in (i + 1)..Len(a) : j \in 1..(n - 1)
        BY <1>7
      <3> QED  BY <3>1, <1>6 DEF After
    <2>2. \A s \in After(a, i) \cup Members(b) : Safe(s) /\ s.do # "master"
      BY <2>1, <1>9 DEF Safe
    <2>3. /\ StatusPush(StatusEvent) /\ StatusEvent \in After(a, i) \cup Members(b)
          /\ Dumping.do = "dump" /\ Dumping \in After(a, i) \cup Members(b)
      BY <1>3 DEF StatusPush, StatusEvent, Dumping
    <2>4. PICK d \in 0..(n - 1) : d = i /\ d \in Known
      BY <1>7
    <2>5. /\ Step("measure", d) \in After(a, i) \cup Members(b) /\ Step("regroup", d) \in After(a, i) \cup Members(b)
          /\ Step("measure", d).do = "measure" /\ Step("measure", d).d = d
          /\ Step("regroup", d).do = "regroup" /\ Step("regroup", d).d = d
      BY <1>3, <2>4, BoardStep
    <2>6. a[i].do = "ask" /\ a[i].d = d
      BY <1>6, <1>7, <2>4
    <2> QED  BY <2>2, <2>3, <2>5, <2>6 DEF Fits
  <1>11. PICK p : p = a \o b
    OBVIOUS
  <1>12. /\ Grammar(p, r) /\ Members(p) = Members(a) \cup Members(b)
         /\ p # <<>> /\ Head(p).do # "record"
    <2>1. \A i \in 1..Len(a) : a[i].do \notin {"record", "truncate", "command"}
      BY <1>6, <1>7
    <2> QED  BY <2>1, <1>3, <1>7, <1>10, <1>11, ConcatGrammar
  <1>13. \A d \in 1..(n - 1) : Step("ask", d) \in Members(a)
    BY <1>5, <1>7 DEF Members
  <1>14. q = p
    <2>1. PushStatus \in Seq(Steps) /\ _persist_status \in Seq(Steps) /\ t \in Seq(Steps)
      <3>1. PushStatus = <<StatusEvent>>
        BY DEF PushStatus, StatusEvent
      <3>2. _persist_status \in Seq(Steps)
        BY PersistGrammar DEF Grammar
      <3>3. <<StatusEvent>> \in Seq(Steps)
        BY PlainStepKinds
      <3> QED  BY <1>1, <3>1, <3>2, <3>3
    <2>2. PICK c, e, f : c = Details(n) /\ e = PushStatus /\ f = _persist_status
      OBVIOUS
    <2>3. c \in Seq(Steps) /\ e \in Seq(Steps) /\ f \in Seq(Steps) /\ t = e \o f /\ b = c \o t /\ q = ((a \o c) \o e) \o f
      BY <2>1, <2>2, <1>1, <1>2, <1>3, <1>4
    <2>4. (a \o c) \in Seq(Steps)
      BY <2>3, <1>7
    <2>5. ((a \o c) \o e) \o f = (a \o c) \o (e \o f)
      BY <2>3, <2>4, ConcatRegroups
    <2>6. (a \o c) \o t = a \o (c \o t)
      BY <2>1, <2>3, <1>7, ConcatRegroups
    <2> QED  BY <2>3, <2>5, <2>6, <1>11
  <1>15. \A s \in Members(p) : Safe(s)
    BY <1>8, <1>9, <1>12 DEF Safe
  <1> QED  BY <1>3, <1>12, <1>13, <1>14, <1>15

\* What Initialize leaves to be done: the events and the write, after the entries it found.
LEMMA ResultGrammar ==
    ASSUME NEW r, r.name \notin Answered, NEW b \in Caches, NEW s, s = [do |-> "result", boards |-> b],
           NEW t, t = <<s>> \o _persist_status
    PROVE  Grammar(t, r) /\ Members(t) = {s, Truncating, Dumping} /\ t # <<>> /\ Head(t) = s
  <1>1. /\ Grammar(_persist_status, r) /\ Members(_persist_status) = {Truncating, Dumping}
        /\ _persist_status # <<>> /\ Head(_persist_status) = Truncating
    BY PersistGrammar
  <1>2. s \in Steps /\ s.do = "result"
    BY DEF Steps, ResultSteps, Caches
  <1>3. Fits(s, {Truncating}, {Truncating, Dumping}, r)
    BY <1>2 DEF Fits, Truncating, Dumping, Safe
  <1>4. PICK p : p = _persist_status
    OBVIOUS
  <1>5. Leads(s, p, r) /\ t = Onto(s, p)
    BY <1>1, <1>3, <1>4 DEF Leads, Onto
  <1>6. Grammar(p, r) /\ p # <<>> /\ s \in Steps /\ Members(p) = {Truncating, Dumping}
    BY <1>1, <1>2, <1>4
  <1>7. /\ Grammar(Onto(s, p), r) /\ Members(Onto(s, p)) = {s} \cup Members(p)
        /\ Head(Onto(s, p)) = s /\ Onto(s, p) # <<>>
    BY <1>5, <1>6, FrontGrammar
  <1> QED  BY <1>5, <1>6, <1>7

LEMMA AbsorbGrammar ==
    ASSUME NEW r, r.name \notin Answered, NEW found \in Caches, \A d \in Boards : found[d] \in FoundEntry,
           NEW q, q = [i \in 1..N |-> [do |-> "absorb", d |-> i - 1, e |-> found[i - 1]]]
                      \o <<[do |-> "result", boards |-> found]>> \o _persist_status
    PROVE  Grammar(q, r) /\ q # <<>> /\ Head(q).do # "record"
  <1>1. PICK s : s = [do |-> "result", boards |-> found]
    OBVIOUS
  <1>2. PICK t : t = <<s>> \o _persist_status
    OBVIOUS
  <1>3. Grammar(t, r) /\ Members(t) = {s, Truncating, Dumping} /\ t # <<>> /\ Head(t) = s /\ s.do = "result"
    BY <1>1, <1>2, ResultGrammar
  <1>4. PICK a : a = [i \in 1..N |-> [do |-> "absorb", d |-> i - 1, e |-> found[i - 1]]]
    OBVIOUS
  <1>5. a = [i \in 1..N |-> a[i]] /\ \A i \in 1..N : a[i] = [do |-> "absorb", d |-> i - 1, e |-> found[i - 1]]
    BY <1>4
  <1>6. ASSUME NEW i \in 1..N PROVE a[i] \in Steps /\ a[i].do = "absorb"
    <2>1. i - 1 \in Boards
      BY Constants DEF Boards
    <2>2. a[i] \in AbsorbSteps /\ a[i].do = "absorb"
      BY <2>1, <1>5 DEF AbsorbSteps
    <2> QED  BY <2>2 DEF Steps
  <1>7. a \in Seq(Steps) /\ Len(a) = N
    BY <1>5, <1>6, Constants, FunctionList
  <1>8. ASSUME NEW i \in 1..Len(a)
        PROVE  /\ a[i].do \notin {"record", "truncate", "command"}
               /\ Fits(a[i], {}, After(a, i) \cup Members(t), r)
    <2>1. a[i].do = "absorb"
      BY <1>6, <1>7
    <2>2. \A x \in After(a, i) : x.do = "absorb"
      <3>1. \A j \in (i + 1)..Len(a) : j \in 1..N
        BY <1>7, Constants
      <3> QED  BY <3>1, <1>6 DEF After
    <2>3. \A x \in After(a, i) \cup Members(t) : Safe(x) /\ x.do # "master"
      BY <2>2, <1>3 DEF Safe, Truncating, Dumping
    <2>4. s \in After(a, i) \cup Members(t) /\ StatusPush(s)
      BY <1>3 DEF StatusPush
    <2> QED  BY <2>1, <2>3, <2>4 DEF Fits
  <1>9. PICK p : p = a \o t
    OBVIOUS
  <1>10. Grammar(p, r) /\ p # <<>> /\ Head(p).do # "record"
    <2>1. Head(t).do # "record"
      BY <1>3
    <2> QED  BY <2>1, <1>3, <1>7, <1>8, <1>9, ConcatGrammar
  <1>11. q = p
    <2>1. PICK e, f : e = <<s>> /\ f = _persist_status
      OBVIOUS
    <2>2. e \in Seq(Steps) /\ f \in Seq(Steps)
      <3>1. s \in Steps
        BY <1>1 DEF Steps, ResultSteps, Caches
      <3>2. f \in Seq(Steps)
        BY <2>1, PersistGrammar DEF Grammar
      <3> QED  BY <2>1, <3>1, <3>2
    <2>3. q = (a \o e) \o f /\ t = e \o f
      BY <2>1, <1>1, <1>2, <1>4
    <2> QED  BY <2>2, <2>3, <1>7, <1>9, ConcatRegroups
  <1> QED  BY <1>10, <1>11

\* The lists of the routes.  What a list must be, for a request r.
Starts(q, r) == Grammar(q, r) /\ q # <<>> /\ Head(q).do # "record"

LEMMA MasterStarts == ASSUME NEW r PROVE Starts(refresh_all_status, r) /\ Members(refresh_all_status) = {[do |-> "master"]}
  <1>1. PICK s \in Steps : s = [do |-> "master"]
    BY PlainStepKinds
  <1>2. Fits(s, {}, {}, r)
    BY <1>1 DEF Fits, Answered
  <1> QED  BY <1>1, <1>2, LastGrammar DEF Starts, refresh_all_status

LEMMA InitStarts == ASSUME NEW r, r.name \notin Answered PROVE Starts(<<[do |-> "init"]>>, r)
  <1>1. PICK s \in Steps : s = [do |-> "init"]
    BY PlainStepKinds
  <1>2. Fits(s, {}, {}, r)
    BY <1>1 DEF Fits
  <1> QED  BY <1>1, <1>2, LastGrammar DEF Starts

LEMMA InsistStep ==
    ASSUME NEW d \in Known, NEW x \in {"measure", "regroup"}
    PROVE  Insist(x, d) \in Steps /\ Insist(x, d).do = x /\ Insist(x, d).d = d
  BY DEF Insist, Steps, BoardSteps

LEMMA TellStep ==
    ASSUME NEW d \in Boards, NEW k \in Told \cup {"info", "group"}, NEW v \in Values
    PROVE  /\ Tell(d, k, v) \in Steps /\ TellOnly(d, k, v) \in Steps
           /\ Tell(d, k, v).do = "command" /\ TellOnly(d, k, v).do = "command"
           /\ Tell(d, k, v).d = d /\ Tell(d, k, v).k = k /\ Tell(d, k, v).v = v /\ TellOnly(d, k, v).told
  <1>1. Tell(d, k, v) \in CommandSteps /\ TellOnly(d, k, v) \in CommandSteps
    BY DEF Tell, TellOnly, CommandSteps
  <1> QED  BY <1>1 DEF Tell, TellOnly, Steps

LEMMA NoteStep ==
    ASSUME NEW d \in Boards, NEW k \in Told, NEW v \in Values
    PROVE  /\ Note(d, k, v) \in Steps /\ Note(d, k, v).do = "record"
           /\ Note(d, k, v).d = d /\ Note(d, k, v).k = k /\ Note(d, k, v).v = v
  BY DEF Note, Steps, RecordSteps

LEMMA ConsultedStep ==
    ASSUME NEW d \in Boards
    PROVE  /\ Consulted(d, "other") \in Steps /\ Consulted(d, "other").do = "consult"
           /\ Glance(d) \in Steps /\ Glance(d).do = "consult" /\ ~Glance(d).insist
  BY DEF Consulted, Glance, Steps, ConsultSteps

LEMMA MeasureStarts ==
    ASSUME NEW r, r.name \notin Answered, NEW d \in Boards,
           NEW q, q = <<Insist("measure", d)>> \o PushStatus \o _persist_status
    PROVE  Starts(q, r)
  <1>1. PICK t : t = PushStatus \o _persist_status
    OBVIOUS
  <1>2. Grammar(t, r) /\ Members(t) = {StatusEvent, Truncating, Dumping} /\ t # <<>> /\ Head(t) = StatusEvent
    BY <1>1, ClosingGrammar
  <1>3. PICK s \in Steps : s = Insist("measure", d) /\ s.do = "measure" /\ s.d = d
    BY InsistStep, Constants
  <1>4. Leads(s, t, r)
    <2>1. StatusPush(StatusEvent)
      BY DEF StatusPush, StatusEvent
    <2> QED  BY <2>1, <1>2, <1>3 DEF Leads, Fits, Safe, StatusEvent, Truncating, Dumping
  <1>5. q = Onto(s, t)
    BY <1>1, <1>3 DEF Onto, PushStatus, _persist_status
  <1>6. Grammar(q, r) /\ Members(q) = {s} \cup Members(t) /\ Head(q) = s /\ q # <<>>
    <2>1. Grammar(t, r) /\ t # <<>>
      BY <1>2
    <2> QED  BY <2>1, <1>3, <1>4, <1>5, FrontGrammar
  <1> QED  BY <1>2, <1>3, <1>4, <1>6 DEF Starts

LEMMA RegroupStarts ==
    ASSUME NEW r, r.name \notin Answered, NEW d \in Boards,
           NEW q, q = <<Insist("regroup", d)>> \o _persist_status
    PROVE  /\ Starts(q, r) /\ Head(q) = Insist("regroup", d)
           /\ Members(q) = {Insist("regroup", d), Truncating, Dumping}
  <1>1. PICK t : t = _persist_status
    OBVIOUS
  <1>2. Grammar(t, r) /\ Members(t) = {Truncating, Dumping} /\ t # <<>> /\ Head(t) = Truncating
    BY <1>1, PersistGrammar
  <1>3. PICK s \in Steps : s = Insist("regroup", d) /\ s.do = "regroup" /\ s.d = d
    BY InsistStep, Constants
  <1>4. Leads(s, t, r)
    BY <1>2, <1>3 DEF Leads, Fits, Safe, Truncating, Dumping
  <1>5. q = Onto(s, t)
    BY <1>1, <1>3 DEF Onto
  <1>6. Grammar(q, r) /\ Members(q) = {s} \cup Members(t) /\ Head(q) = s /\ q # <<>>
    <2>1. Grammar(t, r) /\ t # <<>>
      BY <1>2
    <2> QED  BY <2>1, <1>3, <1>4, <1>5, FrontGrammar
  <1> QED  BY <1>2, <1>3, <1>4, <1>6 DEF Starts

LEMMA SetGroupStarts ==
    ASSUME NEW r, r.name \notin Answered, NEW d \in Boards, NEW v \in Values,
           NEW q, q = <<Tell(d, "group", v), Insist("regroup", d)>> \o _persist_status
    PROVE  Starts(q, r)
  <1>1. PICK t : t = <<Insist("regroup", d)>> \o _persist_status
    OBVIOUS
  <1>2. Starts(t, r) /\ Head(t).do = "regroup" /\ \A x \in Members(t) : x.do # "master"
    <2>1. PICK i \in Steps : i = Insist("regroup", d) /\ i.do = "regroup"
      BY InsistStep, Constants
    <2>2. Starts(t, r) /\ Head(t) = i /\ Members(t) = {i, Truncating, Dumping}
      BY <1>1, <2>1, RegroupStarts
    <2> QED  BY <2>1, <2>2 DEF Truncating, Dumping
  <1>3. PICK s \in Steps : s = Tell(d, "group", v) /\ s.do = "command" /\ s.k = "group"
    BY TellStep
  <1>4. Leads(s, t, r)
    BY <1>2, <1>3 DEF Leads, Fits, Settles, Told
  <1>5. q = Onto(s, t)
    BY <1>1, <1>3 DEF Onto, _persist_status
  <1>6. Grammar(q, r) /\ Members(q) = {s} \cup Members(t) /\ Head(q) = s /\ q # <<>>
    <2>1. Grammar(t, r) /\ t # <<>>
      BY <1>2 DEF Starts
    <2> QED  BY <2>1, <1>3, <1>4, <1>5, FrontGrammar
  <1> QED  BY <1>2, <1>3, <1>4, <1>6 DEF Starts

LEMMA SetInfoStarts ==
    ASSUME NEW r, r.name \notin Answered, NEW d \in Boards, NEW v \in Values,
           NEW q, q = <<Tell(d, "info", v), [do |-> "reread", d |-> d]>> \o PushStatus \o _persist_status
    PROVE  Starts(q, r)
  <1>1. PICK t : t = PushStatus \o _persist_status
    OBVIOUS
  <1>2. Grammar(t, r) /\ Members(t) = {StatusEvent, Truncating, Dumping} /\ t # <<>> /\ Head(t) = StatusEvent
    BY <1>1, ClosingGrammar
  <1>3. PICK s : s = [do |-> "reread", d |-> d]
    OBVIOUS
  <1>4. s \in Steps /\ s.do = "reread"
    BY <1>3 DEF Steps, RereadSteps
  <1>5. Leads(s, t, r)
    <2>1. StatusPush(StatusEvent)
      BY DEF StatusPush, StatusEvent
    <2> QED  BY <2>1, <1>2, <1>4 DEF Leads, Fits, Safe, StatusEvent, Truncating, Dumping
  <1>6. PICK u : u = Onto(s, t)
    OBVIOUS
  <1>7. Grammar(u, r) /\ Members(u) = {s, StatusEvent, Truncating, Dumping} /\ u # <<>> /\ Head(u) = s
    BY <1>2, <1>4, <1>5, <1>6, FrontGrammar
  <1>8. PICK c \in Steps : c = Tell(d, "info", v) /\ c.do = "command" /\ c.k = "info"
    <2>1. Tell(d, "info", v) \in Steps /\ Tell(d, "info", v).do = "command" /\ Tell(d, "info", v).k = "info"
      BY DEF Tell, Steps, CommandSteps
    <2> QED  BY <2>1
  <1>9. Leads(c, u, r)
    BY <1>4, <1>7, <1>8 DEF Leads, Fits, Settles, Told, StatusEvent, Truncating, Dumping
  <1>10. q = Onto(c, u)
    BY <1>1, <1>3, <1>6, <1>8 DEF Onto, PushStatus, _persist_status
  <1>11. Grammar(q, r) /\ Members(q) = {c} \cup Members(u) /\ Head(q) = c /\ q # <<>>
    <2>1. Grammar(u, r) /\ u # <<>>
      BY <1>7
    <2> QED  BY <2>1, <1>8, <1>9, <1>10, FrontGrammar
  <1> QED  BY <1>7, <1>8, <1>9, <1>11 DEF Starts

\* A setting is told, noted and written.
LEMMA NotedStarts ==
    ASSUME NEW r, r.name \notin Answered, NEW d \in Boards, NEW k \in Told, k # "armed_ddr", NEW v \in Values,
           r.d = d, r.k = k, NEW q, q = <<Tell(d, k, v), Note(d, k, v)>> \o _persist_status
    PROVE  Starts(q, r)
  <1>1. PICK t : t = _persist_status
    OBVIOUS
  <1>2. Grammar(t, r) /\ Members(t) = {Truncating, Dumping} /\ t # <<>> /\ Head(t) = Truncating
    BY <1>1, PersistGrammar
  <1>3. PICK s \in Steps : s = Note(d, k, v) /\ s.do = "record" /\ s.d = d /\ s.k = k /\ s.v = v
    BY NoteStep
  <1>4. Leads(s, t, r)
    BY <1>2, <1>3 DEF Leads, Fits, Safe, Truncating, Dumping
  <1>5. PICK u : u = Onto(s, t)
    OBVIOUS
  <1>6. Grammar(u, r) /\ Members(u) = {s, Truncating, Dumping} /\ u # <<>> /\ Head(u) = s
    BY <1>2, <1>4, <1>5, FrontGrammar
  <1>7. PICK c \in Steps : c = Tell(d, k, v) /\ c.do = "command" /\ c.d = d /\ c.k = k /\ c.v = v
    BY TellStep
  <1>8. Leads(c, u, r)
    BY <1>3, <1>6, <1>7 DEF Leads, Fits, Settles, Truncating, Dumping
  <1>9. q = Onto(c, u)
    BY <1>1, <1>3, <1>5, <1>7 DEF Onto, _persist_status
  <1>10. Grammar(q, r) /\ Members(q) = {c} \cup Members(u) /\ Head(q) = c /\ q # <<>>
    <2>1. Grammar(u, r) /\ u # <<>>
      BY <1>6
    <2> QED  BY <2>1, <1>7, <1>8, <1>9, FrontGrammar
  <1> QED  BY <1>6, <1>7, <1>8, <1>10 DEF Starts

\* A waveform is armed, noted and written, and the pages are told.
LEMMA ArmedStarts ==
    ASSUME NEW r, r.name \notin Answered, NEW d \in Boards, NEW v \in Values,
           r.d = d, r.k = "armed_ddr", NEW q, q = Armed(d, v)
    PROVE  Starts(q, r) /\ Head(q).do = "command" /\ \A x \in Members(q) : x.do # "master"
  <1>1. PICK t : t = <<ArmEvent>>
    OBVIOUS
  <1>2. Grammar(t, r) /\ Members(t) = {ArmEvent} /\ t # <<>> /\ Head(t) = ArmEvent
    <2>1. Fits(ArmEvent, {}, {}, r)
      BY DEF Fits, ArmEvent
    <2> QED  BY <1>1, <2>1, LastGrammar, PlainStepKinds
  <1>3. PICK u : u = Onto(Dumping, t)
    OBVIOUS
  <1>4. Grammar(u, r) /\ Members(u) = {Dumping, ArmEvent} /\ u # <<>> /\ Head(u) = Dumping
    <2>1. Leads(Dumping, t, r)
      BY <1>2 DEF Leads, Fits, Safe, Dumping, ArmEvent
    <2> QED  BY <1>2, <1>3, <2>1, FrontGrammar, PlainStepKinds
  <1>5. PICK w : w = Onto(Truncating, u)
    OBVIOUS
  <1>6. Grammar(w, r) /\ Members(w) = {Truncating, Dumping, ArmEvent} /\ w # <<>> /\ Head(w) = Truncating
    <2>1. Leads(Truncating, u, r)
      BY <1>4 DEF Leads, Fits, Safe, Truncating, Dumping, ArmEvent
    <2> QED  BY <1>4, <1>5, <2>1, FrontGrammar, PlainStepKinds
  <1>7. PICK s \in Steps : s = Note(d, "armed_ddr", v) /\ s.do = "record" /\ s.d = d /\ s.k = "armed_ddr" /\ s.v = v
    BY NoteStep DEF Told
  <1>8. PICK y : y = Onto(s, w)
    OBVIOUS
  <1>9. Grammar(y, r) /\ Members(y) = {s, Truncating, Dumping, ArmEvent} /\ y # <<>> /\ Head(y) = s
    <2>1. Leads(s, w, r)
      BY <1>6, <1>7 DEF Leads, Fits, Safe, Truncating, Dumping, ArmEvent
    <2> QED  BY <1>6, <1>8, <2>1, FrontGrammar
  <1>10. PICK c \in Steps : /\ c = Tell(d, "armed_ddr", v) /\ c.do = "command" /\ c.d = d
                            /\ c.k = "armed_ddr" /\ c.v = v
    BY TellStep DEF Told
  <1>11. PICK z : z = Onto(c, y)
    OBVIOUS
  <1>12. Starts(z, r) /\ Members(z) = {c, s, Truncating, Dumping, ArmEvent} /\ Head(z) = c
    <2>1. Leads(c, y, r)
      BY <1>7, <1>9, <1>10 DEF Leads, Fits, Settles, Truncating, Dumping, ArmEvent
    <2> QED  BY <1>9, <1>10, <1>11, <2>1, FrontGrammar DEF Starts
  <1>13. q = z
    BY <1>1, <1>3, <1>5, <1>7, <1>8, <1>10, <1>11
       DEF Onto, Armed, _persist_status, PushArm, Truncating, Dumping, ArmEvent
  <1>14. \A x \in Members(z) : x.do # "master"
    BY <1>7, <1>10, <1>12 DEF Truncating, Dumping, ArmEvent
  <1> QED  BY <1>10, <1>12, <1>13, <1>14

LEMMA PanelStarts ==
    ASSUME NEW r, r.name \notin Answered, NEW d \in Boards, NEW v \in Values,
           r.d = d, r.k = "armed_ddr", NEW q, q = Panel(d, v)
    PROVE  Starts(q, r) /\ Head(q).do = "command" /\ \A x \in Members(q) : x.do # "master"
  <1>1. PICK t : t = Armed(d, v)
    OBVIOUS
  <1>2. Grammar(t, r) /\ t # <<>> /\ Head(t).do = "command" /\ \A x \in Members(t) : x.do # "master"
    BY <1>1, ArmedStarts DEF Starts
  <1>3. PICK s \in Steps : s = TellOnly(d, "info", 0) /\ s.do = "command" /\ s.told
    BY TellStep, Constants
  <1>4. Leads(s, t, r)
    BY <1>2, <1>3 DEF Leads, Fits, Settles
  <1>5. q = Onto(s, t)
    BY <1>1, <1>3 DEF Onto, Panel
  <1>6. Grammar(q, r) /\ Members(q) = {s} \cup Members(t) /\ Head(q) = s /\ q # <<>>
    <2>1. Grammar(t, r) /\ t # <<>>
      BY <1>2
    <2> QED  BY <2>1, <1>3, <1>4, <1>5, FrontGrammar
  <1> QED  BY <1>2, <1>3, <1>4, <1>6 DEF Starts

LEMMA AskedPanelStarts ==
    ASSUME NEW r, r.name \notin Answered, NEW d \in Boards, NEW v \in Values,
           r.d = d, r.k = "armed_ddr", NEW q, q = <<Consulted(d, "other")>> \o Panel(d, v)
    PROVE  Starts(q, r)
  <1>1. PICK t : t = Panel(d, v)
    OBVIOUS
  <1>2. Grammar(t, r) /\ t # <<>> /\ Head(t).do = "command" /\ \A x \in Members(t) : x.do # "master"
    BY <1>1, PanelStarts DEF Starts
  <1>3. PICK s \in Steps : s = Consulted(d, "other") /\ s.do = "consult"
    BY ConsultedStep
  <1>4. Leads(s, t, r)
    BY <1>2, <1>3 DEF Leads, Fits, Settles
  <1>5. q = Onto(s, t)
    BY <1>1, <1>3 DEF Onto
  <1>6. Grammar(q, r) /\ Members(q) = {s} \cup Members(t) /\ Head(q) = s /\ q # <<>>
    <2>1. Grammar(t, r) /\ t # <<>>
      BY <1>2
    <2> QED  BY <2>1, <1>3, <1>4, <1>5, FrontGrammar
  <1> QED  BY <1>2, <1>3, <1>4, <1>6 DEF Starts

LEMMA OneStepStarts ==
    ASSUME NEW r, r.name \notin Answered, NEW s \in Steps,
           s.do = "consult" \/ (s.do = "command" /\ s.told)
    PROVE  Starts(<<s>>, r)
  <1>1. Fits(s, {}, {}, r)
    BY DEF Fits
  <1>2. Grammar(<<s>>, r) /\ Head(<<s>>) = s /\ <<s>> # <<>>
    BY <1>1, LastGrammar
  <1> QED  BY <1>2 DEF Starts

LEMMA GlancesStart ==
    ASSUME NEW r, r.name \notin Answered, NEW q, q = [i \in 1..N |-> Glance(i - 1)]
    PROVE  Starts(q, r)
  <1>1. q = [i \in 1..N |-> q[i]]
    OBVIOUS
  <1>2. ASSUME NEW i \in 1..N PROVE q[i] \in Steps /\ q[i].do = "consult" /\ ~q[i].insist
    <2>1. i - 1 \in Boards
      BY Constants DEF Boards
    <2> QED  BY <2>1, ConsultedStep
  <1>3. q \in Seq(Steps) /\ Len(q) = N
    BY <1>1, <1>2, Constants, FunctionList
  <1>4. ASSUME NEW i \in 1..Len(q) PROVE Fits(q[i], Following(q, i), After(q, i), r)
    <2>1. \A x \in After(q, i) : x.do = "consult"
      <3>1. \A j \in (i + 1)..Len(q) : j \in 1..N
        BY <1>3, Constants
      <3> QED  BY <3>1, <1>2 DEF After
    <2>2. \A x \in Following(q, i) : x.do = "consult"
      <3>1. \A j \in {i + 1} \cap (1..Len(q)) : j \in 1..N
        BY <1>3, Constants
      <3> QED  BY <3>1, <1>2 DEF Following
    <2>3. q[i].do = "consult"
      BY <1>2, <1>3
    <2> QED  BY <2>1, <2>2, <2>3 DEF Fits, Settles
  <1>5. q # <<>> /\ Head(q) = q[1] /\ 1 \in 1..N
    BY <1>3, Constants
  <1> QED  BY <1>2, <1>3, <1>4, <1>5 DEF Grammar, Starts

-----------------------------------------------------------------------------
(* A request comes in.                                                     *)

Opened ==
    /\ Idle /\ req' \in Requests
    /\ req'.name # "startup" /\ (req'.name = "refresh" => Coming("master")')
    /\ Starts(job', req') /\ requests' \in 0..MaxRequests
    /\ UNCHANGED <<ring, usb, srv, cache, file, web, faults, history>>

LEMMA RequestOpens ==
    ASSUME IInv, NEW name \in Names, name # "startup", NEW d \in Boards, NEW k \in Told \cup {"none"}, Request(name, d, k),
           Starts(job', req'), name = "refresh" => Coming("master")'
    PROVE  Opened
  <1>1. req' = [name |-> name, d |-> d, k |-> k, clean |-> TRUE]
    BY DEF Request
  <1>2. /\ req' \in Requests
        /\ req'.name = name /\ req'.d = d /\ req'.k = k
    BY <1>1 DEF Requests
  <1>3. requests' \in 0..MaxRequests
    BY Constants DEF Request, IInv, Types, TypeOK
  <1>4. Idle /\ UNCHANGED <<ring, usb, srv, cache, file, web, faults, history>>
    BY DEF Request
  <1> QED  BY <1>2, <1>3, <1>4 DEF Opened

LEMMA RequestIs ==
    ASSUME NEW name, NEW d, NEW k, Request(name, d, k)
    PROVE  req'.name = name /\ req'.d = d /\ req'.k = k
  BY DEF Request

LEMMA RouteOpens == ASSUME IInv, Route PROVE Opened
  <1> USE DEF Answered, Names, Told
  <1>0. 0 \in Boards /\ Settings \subseteq Values /\ Readings \subseteq Values
    BY Constants
  <1>1. CASE api_status_refresh
    <2>1. \A r : Starts(job', r)
      BY <1>1, MasterStarts DEF api_status_refresh
    <2>2. Coming("master")'
      <3>1. [do |-> "master"] \in Members(job')
        BY <1>1, MasterStarts DEF api_status_refresh
      <3> QED  BY <3>1 DEF Coming
    <2>4. Starts(job', req')
      BY <1>1, <2>1, RequestIs DEF api_status_refresh
    <2> QED  BY <1>0, <1>1, <2>2, <2>4, RequestOpens DEF api_status_refresh
  <1>2. CASE api_init
    <2>1. \A r : r.name = "init" => Starts(job', r)
      BY <1>2, InitStarts DEF api_init
    <2>4. Starts(job', req')
      BY <1>2, <2>1, RequestIs DEF api_init
    <2> QED  BY <1>0, <1>2, <2>4, RequestOpens DEF api_init
  <1>3. CASE api_board_ext_clk_freq_refresh
    <2>1. PICK d \in Boards : Request("measure", d, "none") /\ job' = <<Insist("measure", d)>> \o PushStatus \o _persist_status
      BY <1>3 DEF api_board_ext_clk_freq_refresh
    <2>2. \A r : r.name = "measure" => Starts(job', r)
      BY <2>1, MeasureStarts
    <2>4. Starts(job', req')
      BY <2>1, <2>2, RequestIs
    <2> QED  BY <2>1, <2>4, RequestOpens
  <1>4. CASE \E d \in Boards, v \in Settings : Request("arm", d, "armed_ddr") /\ job' = Armed(d, v)
    <2>1. PICK d \in Boards, v \in Settings : Request("arm", d, "armed_ddr") /\ job' = Armed(d, v)
      BY <1>4
    <2>2. \A r : r.name = "arm" /\ r.d = d /\ r.k = "armed_ddr" => Starts(job', r)
      BY <2>1, <1>0, ArmedStarts
    <2>4. Starts(job', req')
      BY <2>1, <2>2, RequestIs
    <2> QED  BY <2>1, <2>4, RequestOpens
  <1>5. CASE api_board_arm_stereo_same
    <2>1. PICK d \in Boards, v \in Settings :
            Request("arm_stereo_same", d, "armed_ddr") /\ job' = <<TellOnly(d, "armed_ddr", v)>>
      BY <1>5 DEF api_board_arm_stereo_same
    <2>2. PICK s \in Steps : s = TellOnly(d, "armed_ddr", v) /\ s.do = "command" /\ s.told
      BY <1>0, TellStep DEF Told
    <2>3. \A r : r.name = "arm_stereo_same" => Starts(job', r)
      BY <2>1, <2>2, OneStepStarts
    <2>4. Starts(job', req')
      BY <2>1, <2>3, RequestIs
    <2> QED  BY <2>1, <2>4, RequestOpens
  <1>6. CASE \E d \in Boards, v \in Settings :
               Request("arm", d, "armed_ddr") /\ job' = <<Consulted(d, "other")>> \o Panel(d, v)
    <2>1. PICK d \in Boards, v \in Settings :
            Request("arm", d, "armed_ddr") /\ job' = <<Consulted(d, "other")>> \o Panel(d, v)
      BY <1>6
    <2>2. \A r : r.name = "arm" /\ r.d = d /\ r.k = "armed_ddr" => Starts(job', r)
      BY <2>1, <1>0, AskedPanelStarts
    <2>4. Starts(job', req')
      BY <2>1, <2>2, RequestIs
    <2> QED  BY <2>1, <2>4, RequestOpens
  <1>7. CASE \E d \in Boards, v \in Settings : Request("arm", d, "armed_ddr") /\ job' = Panel(d, v)
    <2>1. PICK d \in Boards, v \in Settings : Request("arm", d, "armed_ddr") /\ job' = Panel(d, v)
      BY <1>7
    <2>2. \A r : r.name = "arm" /\ r.d = d /\ r.k = "armed_ddr" => Starts(job', r)
      BY <2>1, <1>0, PanelStarts
    <2>4. Starts(job', req')
      BY <2>1, <2>2, RequestIs
    <2> QED  BY <2>1, <2>4, RequestOpens
  <1>8. CASE api_trigger
    <2>1. Request("trigger", 0, "none") /\ job' = [i \in 1..N |-> Glance(i - 1)]
      BY <1>8 DEF api_trigger
    <2>2. \A r : r.name = "trigger" => Starts(job', r)
      BY <2>1, GlancesStart
    <2>4. Starts(job', req')
      BY <2>1, <2>2, RequestIs
    <2> QED  BY <1>0, <2>1, <2>4, RequestOpens
  <1>9. CASE api_board_status
    <2>1. PICK d \in Boards : Request("look", d, "none") /\ job' = <<Consulted(d, "other")>>
      BY <1>9 DEF api_board_status
    <2>2. PICK s \in Steps : s = Consulted(d, "other") /\ s.do = "consult"
      BY ConsultedStep
    <2>3. \A r : r.name = "look" => Starts(job', r)
      BY <2>1, <2>2, OneStepStarts
    <2>4. Starts(job', req')
      BY <2>1, <2>3, RequestIs
    <2> QED  BY <2>1, <2>4, RequestOpens
  <1>10. CASE api_board_trig_group_set
    <2>1. PICK d \in Boards, v \in Readings :
            /\ Request("group", d, "none")
            /\ job' = <<Tell(d, "group", v), Insist("regroup", d)>> \o _persist_status
      BY <1>10 DEF api_board_trig_group_set
    <2>2. \A r : r.name = "group" => Starts(job', r)
      BY <2>1, <1>0, SetGroupStarts
    <2>4. Starts(job', req')
      BY <2>1, <2>2, RequestIs
    <2> QED  BY <2>1, <2>4, RequestOpens
  <1>11. CASE api_board_trig_group_get
    <2>1. PICK d \in Boards : Request("group", d, "none") /\ job' = <<Insist("regroup", d)>> \o _persist_status
      BY <1>11 DEF api_board_trig_group_get
    <2>2. \A r : r.name = "group" => Starts(job', r)
      BY <2>1, RegroupStarts
    <2>4. Starts(job', req')
      BY <2>1, <2>2, RequestIs
    <2> QED  BY <2>1, <2>4, RequestOpens
  <1>12. CASE \E d \in Boards, v \in Readings :
                /\ Request("info", d, "none")
                /\ job' = <<Tell(d, "info", v), [do |-> "reread", d |-> d]>> \o PushStatus \o _persist_status
    <2>1. PICK d \in Boards, v \in Readings :
            /\ Request("info", d, "none")
            /\ job' = <<Tell(d, "info", v), [do |-> "reread", d |-> d]>> \o PushStatus \o _persist_status
      BY <1>12
    <2>2. \A r : r.name = "info" => Starts(job', r)
      BY <2>1, <1>0, SetInfoStarts
    <2>4. Starts(job', req')
      BY <2>1, <2>2, RequestIs
    <2> QED  BY <2>1, <2>4, RequestOpens
  <1>13. CASE api_board_sine_slot_set
    <2>1. PICK d \in Boards, v \in Settings :
            /\ Request("sine_slot", d, "sine_slots")
            /\ job' = <<Tell(d, "sine_slots", v), Note(d, "sine_slots", v)>> \o _persist_status
      BY <1>13 DEF api_board_sine_slot_set
    <2>2. "sine_slots" \in Told /\ v \in Values
      BY <1>0 DEF Told
    <2>3. \A r : r.name = "sine_slot" /\ r.d = d /\ r.k = "sine_slots" => Starts(job', r)
      BY <2>1, <2>2, NotedStarts
    <2>4. Starts(job', req')
      BY <2>1, <2>3, RequestIs
    <2> QED  BY <2>1, <2>4, RequestOpens
  <1>14. CASE api_board_trig_timer_set
    <2>1. PICK d \in Boards, v \in Settings :
            /\ Request("trig_timer", d, "trig_timer")
            /\ job' = <<Tell(d, "trig_timer", v), Note(d, "trig_timer", v)>> \o _persist_status
      BY <1>14 DEF api_board_trig_timer_set
    <2>2. "trig_timer" \in Told /\ v \in Values
      BY <1>0 DEF Told
    <2>3. \A r : r.name = "trig_timer" /\ r.d = d /\ r.k = "trig_timer" => Starts(job', r)
      BY <2>1, <2>2, NotedStarts
    <2>4. Starts(job', req')
      BY <2>1, <2>3, RequestIs
    <2> QED  BY <2>1, <2>4, RequestOpens
  <1> QED  BY <1>1, <1>2, <1>3, <1>4, <1>5, <1>6, <1>7, <1>8, <1>9, <1>10, <1>11, <1>12, <1>13, <1>14
           DEF Route, api_board_arm, api_board_arm_ddr_freq_slots, api_board_arm_stereo_staircase,
               api_board_arm_multitone_pattern, api_board_arm_test1, api_board_test1_stop,
               _api_arm_rotation, _api_stop_rotation, api_board_trig_delay_set, api_board_dac_mode_ramp_set

LEMMA RouteKeeps == ASSUME IInv, Route PROVE IInv'
  <1>1. Opened
    BY RouteOpens
  <1>2. Grammar(job', req') /\ ~RecordsHead'
    BY <1>1 DEF Opened, Starts, RecordsHead
  <1>3. srv = "up" /\ job = <<>> /\ Members(job) = {}
    BY <1>1, EmptyGrammar DEF Opened, Idle
  <1>4. ~WillDump /\ ~RecordsHead /\ \A d, k : ~WillPush(d, k)
    BY <1>3 DEF WillDump, RecordsHead, WillPush, Coming
  <1>5. /\ UNCHANGED <<hw, named, total, table, usb, srv, cache, file, sub, inbox, page, faults, unsure, kept>>
        /\ UNCHANGED web
    BY <1>1 DEF Opened, ring, web, history
  <1>6. Types'
    <2>1. TypeOK'
      BY <1>1, <1>5 DEF Opened, TypeOK, IInv, Types
    <2> QED  BY <1>1, <1>2, <1>3, <1>5, <2>1 DEF Opened, IInv, Types
  <1>7. RecordDue'
    BY <1>2 DEF RecordDue
  <1>8. CacheTrue'
    BY <1>4, <1>5 DEF IInv, CacheTrue, Sure
  <1>9. FileTrue'
    BY <1>4, <1>5 DEF IInv, FileTrue, Sure
  <1>10. FileCurrent'
    BY <1>3, <1>4, <1>5 DEF IInv, FileCurrent, SameTold
  <1>11. KeptComes'
    BY <1>1, <1>3, <1>5 DEF Opened, IInv, KeptComes
  <1>12. Repaired'
    BY <1>1 DEF Opened, Repaired, Answered
  <1>13. PagesFollow'
    BY <1>4, <1>5, PagesKept DEF IInv
  <1> QED  BY <1>6, <1>7, <1>8, <1>9, <1>10, <1>11, <1>12, <1>13 DEF IInv

-----------------------------------------------------------------------------
(* The browsers.                                                           *)

\* Of the invariant, what no browser has a part in.
Server == /\ RecordDue /\ CacheTrue /\ FileTrue /\ FileCurrent /\ KeptComes /\ Repaired

LEMMA ServerStill ==
    ASSUME IInv, UNCHANGED <<hw, cache, file, srv, req, job, unsure, kept>>
    PROVE  Server'
  <1>1. RecordDue' /\ CacheTrue'
    BY DEF IInv, RecordDue, CacheTrue, RecordsHead, Sure
  <1>2. WillDump' = WillDump
    BY DEF WillDump, Unstoppable, Coming
  <1>3. FileTrue'
    BY <1>2 DEF IInv, FileTrue, Sure
  <1>4. FileCurrent'
    BY <1>2 DEF IInv, FileCurrent, SameTold
  <1>5. KeptComes'
    BY DEF IInv, KeptComes, SameTold
  <1>6. Repaired'
    BY DEF IInv, Repaired, Coming, ComingFor
  <1> QED  BY <1>1, <1>3, <1>4, <1>5, <1>6 DEF Server

LEMMA PushStill ==
    ASSUME UNCHANGED <<req, job>>, NEW d, NEW k
    PROVE  WillPush(d, k)' <=> WillPush(d, k)
  BY DEF WillPush, Unstoppable, Pushes

\* Seen by a browser alone: what its page shows once its queue is read is what the cache has.
Upto(q, p, live, d, k) ==
    \/ \E i \in 1..Len(q) :
         /\ Alters(q[i], d, k) /\ Right(q[i], d, k)
         /\ \A j \in (i + 1)..Len(q) : ~Alters(q[j], d, k)
    \/ (\A i \in 1..Len(q) : ~Alters(q[i], d, k)) /\ (live => Shows(p, d, k))

LEMMA UptoIs ==
    ASSUME NEW v, NEW d, NEW k
    PROVE  UpToDate(v, d, k) <=> Upto(inbox[v], page[v][d], sub[v] = "live", d, k)
  BY DEF UpToDate, Upto

LEMMA OthersUpTo ==
    ASSUME UNCHANGED cache, NEW v, NEW d, NEW k, UpToDate(v, d, k),
           inbox'[v] = inbox[v], page'[v] = page[v], sub'[v] = sub[v]
    PROVE  UpToDate(v, d, k)'
  BY DEF UpToDate, Right, Shows

LEMMA SubscribeKeeps == ASSUME IInv, NEW v \in Viewers, Subscribe(v) PROVE IInv'
  <1>1. /\ UNCHANGED <<hw, named, total, table, usb, srv, cache, file, req, job, inbox, page, requests, faults, unsure, kept>>
        /\ srv = "up" /\ sub[v] = "off" /\ sub' = [sub EXCEPT ![v] = "queued"]
    BY DEF Subscribe, ring, history
  <1>2. sub \in [Viewers -> {"off", "queued", "live"}] /\ inbox[v] = <<>>
    BY <1>1 DEF IInv, Types, TypeOK
  <1>3. sub'[v] = "queued" /\ \A w \in Viewers \ {v} : sub'[w] = sub[w]
    BY <1>1, <1>2
  <1>4. Types'
    <2>1. TypeOK'
      BY <1>1, <1>2 DEF IInv, Types, TypeOK
    <2>2. Grammar(job', req')
      BY <1>1 DEF IInv, Types
    <2>3. \A w \in Viewers : /\ srv' # "up" => sub'[w] = "off"
                             /\ sub'[w] = "off" => inbox'[w] = <<>>
      BY <1>1, <1>3 DEF IInv, Types
    <2> QED  BY <1>1, <2>1, <2>2, <2>3 DEF IInv, Types
  <1>5. Server'
    BY <1>1, ServerStill
  <1>6. PagesFollow'
    <2> SUFFICES ASSUME NEW w \in Viewers, sub'[w] # "off", NEW d \in Known, NEW k \in PageKeys
                 PROVE  UpToDate(w, d, k)' \/ WillPush(d, k)'
      BY DEF PagesFollow
    <2>1. CASE w = v
      <3>1. inbox'[v] = <<>> /\ sub'[v] # "live" /\ Len(<<>>) = 0
        BY <1>1, <1>2, <1>3
      <3> QED  BY <2>1, <3>1 DEF UpToDate
    <2>2. CASE w # v
      <3>1. UpToDate(w, d, k) \/ WillPush(d, k)
        BY <1>3, <2>2 DEF IInv, PagesFollow
      <3> QED  BY <3>1, <1>1, <1>3, <2>2, OthersUpTo, PushStill
    <2> QED  BY <2>1, <2>2
  <1> QED  BY <1>4, <1>5, <1>6 DEF IInv, Server

LEMMA SnapshotKeeps == ASSUME IInv, NEW v \in Viewers, Snapshot(v) PROVE IInv'
  <1>1. /\ UNCHANGED <<hw, named, total, table, usb, srv, cache, file, req, job, inbox, requests, faults, unsure, kept>>
        /\ sub[v] = "queued" /\ sub' = [sub EXCEPT ![v] = "live"] /\ page' = [page EXCEPT ![v] = cache]
    BY DEF Snapshot, ring, history
  <1>2. sub \in [Viewers -> {"off", "queued", "live"}] /\ page \in [Viewers -> Caches] /\ cache \in Caches
    BY DEF IInv, Types, TypeOK
  <1>3. /\ sub'[v] = "live" /\ page'[v] = cache
        /\ \A w \in Viewers \ {v} : sub'[w] = sub[w] /\ page'[w] = page[w]
    BY <1>1, <1>2
  <1>4. Types'
    <2>1. TypeOK'
      BY <1>1, <1>2 DEF IInv, Types, TypeOK
    <2>2. Grammar(job', req')
      BY <1>1 DEF IInv, Types
    <2>3. \A w \in Viewers : /\ srv' # "up" => sub'[w] = "off"
                             /\ sub'[w] = "off" => inbox'[w] = <<>>
      BY <1>1, <1>3 DEF IInv, Types
    <2> QED  BY <1>1, <2>1, <2>2, <2>3 DEF IInv, Types
  <1>5. Server'
    BY <1>1, ServerStill
  <1>6. PagesFollow'
    <2> SUFFICES ASSUME NEW w \in Viewers, sub'[w] # "off", NEW d \in Known, NEW k \in PageKeys
                 PROVE  UpToDate(w, d, k)' \/ WillPush(d, k)'
      BY DEF PagesFollow
    <2>1. UpToDate(w, d, k) \/ WillPush(d, k)
      BY <1>1, <1>3 DEF IInv, PagesFollow
    <2>2. CASE w = v
      <3>1. UpToDate(v, d, k) => UpToDate(v, d, k)'
        BY <1>1, <1>3 DEF UpToDate, Right, Shows
      <3> QED  BY <2>1, <2>2, <3>1, <1>1, PushStill
    <2>3. CASE w # v
      BY <2>1, <2>3, <1>1, <1>3, OthersUpTo, PushStill
    <2> QED  BY <2>2, <2>3
  <1> QED  BY <1>4, <1>5, <1>6 DEF IInv, Server

LEMMA HandledIn ==
    ASSUME NEW ev \in Events, page \in [Viewers -> Caches], NEW v \in Viewers
    PROVE  handleEvent(v, ev) \in Caches
  <1>1. PICK p \in Caches : p = page[v]
    OBVIOUS
  <1>2. PICK b \in Known, c \in Caches : b = ev.d /\ c = ev.boards
    BY Constants DEF Events
  <1>3. PICK x \in Noted : x = c[b]["armed_ddr"]
    <2>1. c[b] \in Entry
      BY DEF Caches
    <2> QED  BY <2>1, EntryKeys DEF Told
  <1>4. NoteAt(p, b, "armed_ddr", x) \in Caches
    <2>1. "armed_ddr" \in _STICKY_KEYS
      BY DEF _STICKY_KEYS, Told
    <2> QED  BY <2>1, NotedIn
  <1> QED  BY <1>1, <1>2, <1>3, <1>4 DEF handleEvent, NoteAt

\* What a page shows after the next event of its queue.
LEMMA Handled ==
    ASSUME NEW ev \in Events, page \in [Viewers -> Caches], NEW v \in Viewers, NEW d \in Known, NEW k \in PageKeys
    PROVE  /\ Alters(ev, d, k) /\ Right(ev, d, k) => Shows(handleEvent(v, ev)[d], d, k)
           /\ ~Alters(ev, d, k) /\ Shows(page[v][d], d, k) => Shows(handleEvent(v, ev)[d], d, k)
  <1>1. PICK p \in Caches : p = page[v]
    OBVIOUS
  <1>2. ev.type \in {"status", "arm"} /\ ev.d \in Known /\ ev.boards \in Caches
    BY Constants DEF Events
  <1>3. CASE ev.type = "status"
    <2>1. handleEvent(v, ev) = ev.boards
      BY <1>3 DEF handleEvent
    <2> QED  BY <1>2, <1>3, <2>1 DEF Alters, Right
  <1>4. CASE ev.type = "arm" /\ p[ev.d] = NoEntry
    <2>1. handleEvent(v, ev) = p
      BY <1>1, <1>4 DEF handleEvent
    <2> QED  BY <1>1, <1>4, <2>1 DEF Alters, Shows
  <1>5. CASE ev.type = "arm" /\ p[ev.d] # NoEntry
    <2>1. PICK x \in Noted : x = ev.boards[ev.d]["armed_ddr"]
      <3>1. ev.boards[ev.d] \in Entry
        BY <1>2 DEF Caches
      <3> QED  BY <3>1, EntryKeys DEF Told
    <2>2. handleEvent(v, ev) = NoteAt(p, ev.d, "armed_ddr", x)
      BY <1>1, <1>5, <2>1 DEF handleEvent, NoteAt
    <2>3. PICK n : n = NoteAt(p, ev.d, "armed_ddr", x)
      OBVIOUS
    <2>4. /\ n \in Caches /\ n[ev.d]["armed_ddr"] = x
          /\ \A j \in Keys \ {"armed_ddr"} : n[ev.d][j] = p[ev.d][j]
          /\ \A b \in Known \ {ev.d} : n[b] = p[b]
      <3>1. "armed_ddr" \in _STICKY_KEYS
        BY DEF _STICKY_KEYS, Told
      <3>2. PICK b \in Known : b = ev.d
        BY <1>2
      <3>3. n = NoteAt(p, b, "armed_ddr", x)
        BY <2>3, <3>2
      <3> QED  BY <3>1, <3>2, <3>3, NotedIn
    <2>5. CASE ev.d = d
      <3>1. n[d]["error"] = p[d]["error"]
        BY <2>4, <2>5 DEF Keys
      <3>2. k # "armed_ddr" => n[d][k] = p[d][k]
        BY <2>4, <2>5 DEF Keys, _STICKY_KEYS, PageKeys
      <3>3. CASE k = "armed_ddr"
        BY <1>5, <2>1, <2>2, <2>3, <2>4, <2>5, <3>3 DEF Alters, Right, Shows
      <3>4. CASE k # "armed_ddr"
        BY <1>1, <1>5, <2>2, <2>3, <2>4, <2>5, <3>1, <3>2, <3>4 DEF Alters, Shows
      <3> QED  BY <3>3, <3>4
    <2>6. CASE ev.d # d
      BY <1>1, <1>5, <2>2, <2>3, <2>4, <2>6 DEF Alters, Shows
    <2> QED  BY <2>5, <2>6
  <1> QED  BY <1>1, <1>2, <1>3, <1>4, <1>5

LEMMA DeliverKeeps == ASSUME IInv, NEW v \in Viewers, Deliver(v) PROVE IInv'
  <1>1. /\ UNCHANGED <<hw, named, total, table, usb, srv, cache, file, req, job, sub, requests, faults, unsure, kept>>
        /\ sub[v] = "live" /\ inbox[v] # <<>>
        /\ page' = [page EXCEPT ![v] = handleEvent(v, Head(inbox[v]))]
        /\ inbox' = [inbox EXCEPT ![v] = Tail(@)]
    BY DEF Deliver, ring, history
  <1>2. page \in [Viewers -> Caches] /\ inbox \in [Viewers -> Seq(Events)]
    BY DEF IInv, Types, TypeOK
  <1>3. PICK q \in Seq(Events), n \in Nat : q = inbox[v] /\ n = Len(q) /\ q # <<>>
    BY <1>1, <1>2
  <1>4. PICK t \in Seq(Events) : /\ t = Tail(q) /\ Len(t) = n - 1 /\ n >= 1 /\ Head(q) = q[1] /\ q[1] \in Events
                                 /\ \A i \in 1..(n - 1) : t[i] = q[i + 1]
    <2>1. /\ Tail(q) \in Seq(Events) /\ Len(q) \in Nat /\ Len(q) >= 1 /\ Len(Tail(q)) = Len(q) - 1
          /\ Head(q) = q[1] /\ q[1] \in Events
          /\ \A i \in 1..(Len(q) - 1) : Tail(q)[i] = q[i + 1]
      BY <1>3, Rests
    <2> QED  BY <1>3, <2>1
  <1>5. PICK p \in Caches : p = handleEvent(v, q[1])
    BY <1>2, <1>4, HandledIn
  <1>6. /\ page' = [page EXCEPT ![v] = p] /\ inbox' = [inbox EXCEPT ![v] = t]
        /\ page'[v] = p /\ inbox'[v] = t
        /\ \A w \in Viewers \ {v} : page'[w] = page[w] /\ inbox'[w] = inbox[w]
    BY <1>1, <1>2, <1>3, <1>4, <1>5
  <1>7. Types'
    <2>1. page' \in [Viewers -> Caches] /\ inbox' \in [Viewers -> Seq(Events)]
      BY <1>2, <1>6
    <2>2. TypeOK'
      BY <1>1, <2>1 DEF IInv, Types, TypeOK
    <2>3. Grammar(job', req')
      BY <1>1 DEF IInv, Types
    <2>4. \A w \in Viewers : /\ srv' # "up" => sub'[w] = "off"
                             /\ sub'[w] = "off" => inbox'[w] = <<>>
      BY <1>1, <1>6 DEF IInv, Types
    <2> QED  BY <1>1, <2>1, <2>2, <2>3, <2>4 DEF IInv, Types
  <1>8. Server'
    BY <1>1, ServerStill
  <1>9. ASSUME NEW d \in Known, NEW k \in PageKeys, Upto(q, page[v][d], TRUE, d, k) PROVE Upto(t, p[d], TRUE, d, k)
    <2>1. CASE \E i \in 1..n : /\ Alters(q[i], d, k) /\ Right(q[i], d, k)
                               /\ \A j \in (i + 1)..n : ~Alters(q[j], d, k)
      <3>1. PICK i \in 1..n : /\ Alters(q[i], d, k) /\ Right(q[i], d, k)
                              /\ \A j \in (i + 1)..n : ~Alters(q[j], d, k)
        BY <2>1
      <3>2. CASE i = 1
        <4>1. Shows(p[d], d, k)
          BY <1>2, <1>4, <1>5, <3>1, <3>2, Handled
        <4>2. \A j \in 1..(n - 1) : j + 1 \in (i + 1)..n /\ ~Alters(t[j], d, k)
          BY <1>4, <3>1, <3>2
        <4> QED  BY <1>4, <4>1, <4>2 DEF Upto
      <3>3. CASE i # 1
        <4>1. PICK m \in 1..(n - 1) : i = m + 1
          <5>1. i - 1 \in 1..(n - 1) /\ i = (i - 1) + 1
            BY <3>3
          <5> QED  BY <5>1
        <4>2. t[m] = q[i] /\ \A j \in (m + 1)..(n - 1) : j + 1 \in (i + 1)..n /\ t[j] = q[j + 1]
          BY <1>4, <4>1
        <4>3. \A j \in (m + 1)..(n - 1) : ~Alters(t[j], d, k)
          BY <3>1, <4>2
        <4> QED  BY <1>4, <3>1, <4>2, <4>3 DEF Upto
      <3> QED  BY <3>2, <3>3
    <2>2. CASE (\A i \in 1..n : ~Alters(q[i], d, k)) /\ Shows(page[v][d], d, k)
      <3>1. ~Alters(q[1], d, k) /\ \A j \in 1..(n - 1) : ~Alters(t[j], d, k)
        <4>1. \A j \in 1..(n - 1) : j + 1 \in 1..n
          OBVIOUS
        <4> QED  BY <4>1, <1>4, <2>2
      <3>2. Shows(p[d], d, k)
        BY <1>2, <1>4, <1>5, <2>2, <3>1, Handled
      <3> QED  BY <1>4, <3>1, <3>2 DEF Upto
    <2> QED  BY <1>3, <1>9, <2>1, <2>2 DEF Upto
  <1>10. PagesFollow'
    <2> SUFFICES ASSUME NEW w \in Viewers, sub'[w] # "off", NEW d \in Known, NEW k \in PageKeys
                 PROVE  UpToDate(w, d, k)' \/ WillPush(d, k)'
      BY DEF PagesFollow
    <2>1. UpToDate(w, d, k) \/ WillPush(d, k)
      BY <1>1 DEF IInv, PagesFollow
    <2>2. CASE w = v
      <3>1. UpToDate(v, d, k) => Upto(q, page[v][d], TRUE, d, k)
        BY <1>1, <1>3, UptoIs
      <3>2. UpToDate(v, d, k) => Upto(t, p[d], TRUE, d, k)
        BY <1>9, <3>1
      <3>3. Upto(t, p[d], TRUE, d, k) => UpToDate(v, d, k)'
        BY <1>1, <1>6 DEF Upto, UpToDate, Right, Shows
      <3> QED  BY <2>1, <2>2, <3>2, <3>3, <1>1, PushStill
    <2>3. CASE w # v
      BY <2>1, <2>3, <1>1, <1>6, OthersUpTo, PushStill
    <2> QED  BY <2>2, <2>3
  <1> QED  BY <1>7, <1>8, <1>10 DEF IInv, Server

-----------------------------------------------------------------------------
(* The process and the boards.                                             *)

LEMMA NothingComes == ASSUME job = <<>> PROVE ~WillDump /\ ~RecordsHead /\ \A d, k : ~WillPush(d, k)
  <1>1. Members(job) = {}
    BY EmptyGrammar
  <1> QED  BY <1>1 DEF WillDump, WillPush, Coming, RecordsHead

LEMMA CrashKeeps == ASSUME IInv, Crash PROVE IInv'
  <1>1. /\ srv # "down" /\ srv' = "down" /\ usb' = FALSE /\ cache' = Empty /\ job' = <<>>
        /\ faults' = faults + 1 /\ faults < MaxFaults
        /\ kept' = IF Idle THEN cache ELSE IF srv = "starting" /\ req.clean /\ file # Torn THEN kept ELSE Torn
        /\ unsure' = IF job # <<>> THEN Doubt(req.d, req.k) ELSE unsure
        /\ sub' = [v \in Viewers |-> "off"] /\ inbox' = [v \in Viewers |-> <<>>]
        /\ UNCHANGED <<hw, named, total, table, file, req, page, requests>>
    BY DEF Crash, ring
  <1>2. unsure \subseteq unsure' /\ unsure' \subseteq Boards \X Told
    BY <1>1 DEF Doubt, IInv, Types, TypeOK
  <1>3. Types'
    <2>1. kept' \in Caches \cup {Torn} /\ cache' \in Caches /\ faults' \in 0..MaxFaults
      BY <1>1, NoEntries, Constants DEF IInv, Types, TypeOK
    <2>2. TypeOK'
      BY <1>1, <1>2, <2>1 DEF IInv, Types, TypeOK
    <2>3. <<>> \in Seq(Events)
      OBVIOUS
    <2>4. inbox' \in [Viewers -> Seq(Events)] /\ \A v \in Viewers : sub'[v] = "off" /\ inbox'[v] = <<>>
      BY <1>1, <2>3
    <2>5. Grammar(job', req')
      BY <1>1, EmptyGrammar
    <2> QED  BY <1>1, <2>2, <2>4, <2>5 DEF IInv, Types
  <1>4. RecordDue' /\ ~RecordsHead'
    BY <1>1 DEF RecordDue, RecordsHead
  <1>5. CacheTrue'
    <2>1. \A d \in Boards, k \in Told : Empty[d][k] = None
      BY Constants, NoEntries DEF Empty, Keys, _STICKY_KEYS
    <2> QED  BY <1>1, <2>1 DEF CacheTrue
  <1>6. FileTrue'
    <2> SUFFICES ASSUME NEW d \in Boards, NEW k \in Told, Sure(d, k)', file' # Torn
                 PROVE  file'[d][k] \in {None, hw'[d][k]}
      BY DEF FileTrue
    <2>1. Sure(d, k)
      BY <1>2 DEF Sure
    <2>2. ~(job # <<>> /\ req.d = d /\ req.k = k)
      BY <1>1 DEF Doubt, Sure
    <2>3. ~(WillDump /\ req.d = d /\ req.k = k)
      BY <2>2, NothingComes
    <2> QED  BY <1>1, <2>1, <2>3 DEF IInv, FileTrue
  <1>7. FileCurrent' /\ Repaired' /\ PagesFollow'
    BY <1>1 DEF FileCurrent, Repaired, PagesFollow
  <1>8. KeptComes'
    <2> SUFFICES ASSUME kept' # Torn PROVE file # Torn /\ SameTold(file, kept')
      BY <1>1 DEF KeptComes, SameTold
    <2>1. CASE Idle
      BY <1>1, <2>1, NothingComes DEF Idle, IInv, FileCurrent
    <2>2. CASE ~Idle
      <3>1. srv = "starting" /\ req.clean /\ file # Torn /\ kept' = kept
        BY <1>1, <2>2
      <3> QED  BY <3>1 DEF IInv, Types, KeptComes
    <2> QED  BY <2>1, <2>2
  <1> QED  BY <1>3, <1>4, <1>5, <1>6, <1>7, <1>8 DEF IInv

LEMMA StartKeeps == ASSUME IInv, Start PROVE IInv'
  <1>1. /\ srv = "down" /\ srv' = "starting" /\ cache' = (IF file = Torn THEN Empty ELSE file)
        /\ usb' \in BOOLEAN /\ job' = refresh_all_status
        /\ req' = [name |-> "startup", d |-> 0, k |-> "none", clean |-> TRUE]
        /\ UNCHANGED <<hw, named, total, table, file, sub, inbox, page, requests, faults, unsure, kept>>
    BY DEF Start, _load_status, connect, ring, web, history
  <1>2. job = <<>> /\ ~WillDump
    BY <1>1, NothingComes DEF IInv, Types
  <1>3. Grammar(job', req') /\ ~RecordsHead' /\ Members(job') = {[do |-> "master"]}
    BY <1>1, MasterStarts DEF Starts, RecordsHead
  <1>4. /\ req' \in Requests
        /\ req'.name = "startup" /\ req'.clean
    BY <1>1, Constants DEF Requests, Names
  <1>5. Types'
    <2>1. cache' \in Caches
      BY <1>1, NoEntries DEF IInv, Types, TypeOK
    <2>2. TypeOK'
      BY <1>1, <2>1 DEF IInv, Types, TypeOK
    <2> QED  BY <1>1, <1>3, <1>4, <2>2 DEF IInv, Types
  <1>6. RecordDue'
    BY <1>3 DEF RecordDue
  <1>7. CacheTrue'
    <2>1. \A d \in Boards, k \in Told : Empty[d][k] = None
      BY Constants, NoEntries DEF Empty, Keys, _STICKY_KEYS
    <2> QED  BY <1>1, <1>2, <2>1 DEF IInv, FileTrue, CacheTrue, Sure
  <1>8. FileTrue'
    BY <1>1, <1>2 DEF IInv, FileTrue, Sure
  <1>9. Coming("master")' /\ WillDump'
    <2>1. [do |-> "master"].do = "master"
      OBVIOUS
    <2> QED  BY <1>3, <2>1 DEF Coming, WillDump, Unstoppable, Safe
  <1>10. FileCurrent' /\ Repaired'
    BY <1>9 DEF FileCurrent, Repaired
  <1>11. KeptComes'
    BY <1>1 DEF IInv, KeptComes, SameTold
  <1>12. PagesFollow'
    BY <1>1 DEF IInv, Types, PagesFollow
  <1> QED  BY <1>5, <1>6, <1>7, <1>8, <1>10, <1>11, <1>12 DEF IInv

LEMMA ServeKeeps == ASSUME IInv, Serve PROVE IInv'
  <1>1. /\ srv = "starting" /\ srv' = "up"
        /\ UNCHANGED <<hw, named, total, table, usb, cache, file, req, job, sub, inbox, page, requests, faults, unsure, kept>>
    BY DEF Serve, ring, web, history
  <1>2. Types'
    <2>1. TypeOK'
      BY <1>1 DEF IInv, Types, TypeOK
    <2> QED  BY <1>1, <2>1 DEF IInv, Types
  <1>3. RecordDue' /\ CacheTrue'
    BY <1>1 DEF IInv, RecordDue, CacheTrue, RecordsHead, Sure
  <1>4. WillDump' = WillDump
    BY <1>1 DEF WillDump, Unstoppable, Coming
  <1>5. FileTrue'
    BY <1>1, <1>4 DEF IInv, FileTrue, Sure
  <1>6. FileCurrent'
    BY <1>1, <1>4 DEF IInv, FileCurrent, SameTold
  <1>7. KeptComes'
    BY <1>1 DEF IInv, KeptComes, SameTold
  <1>8. Repaired'
    BY <1>1 DEF IInv, Repaired, Coming, ComingFor
  <1>9. PagesFollow'
    BY <1>1 DEF IInv, Types, PagesFollow
  <1> QED  BY <1>2, <1>3, <1>5, <1>6, <1>7, <1>8, <1>9 DEF IInv

\* What happens to the boards, behind the process's back.
LEMMA BoardsChange ==
    ASSUME IInv, hw' \in [Boards -> Board], named' \in {named, FALSE}, total' \in {0, N}, named' => total' = N,
           table' \in Table, usb' \in BOOLEAN, faults' \in 0..MaxFaults, unsure' \subseteq Boards \X Told,
           unsure \subseteq unsure',
           \A d \in Boards, k \in Told : Sure(d, k)' => hw'[d][k] = hw[d][k],
           req' = [req EXCEPT !.clean = FALSE],
           UNCHANGED <<srv, cache, file, job, sub, inbox, page, requests, kept>>
    PROVE  IInv'
  <1>1. SameRequest /\ ~req'.clean
    <2>1. [req EXCEPT !.clean = FALSE].clean = FALSE
      BY DEF IInv, Types, Requests
    <2> QED  BY <2>1 DEF SameRequest
  <1>2. /\ req' \in Requests
        /\ req'.name = req.name /\ req'.d = req.d /\ req'.k = req.k
        /\ Grammar(job, req')
    BY <1>1, SameRequestKeeps DEF IInv, Types
  <1>3. Types'
    <2>1. TypeOK'
      BY DEF IInv, Types, TypeOK
    <2> QED  BY <1>2, <2>1 DEF IInv, Types
  <1>4. \A d \in Boards, k \in Told : Sure(d, k)' => Sure(d, k)
    BY DEF Sure
  <1>5. RecordDue'
    <2> SUFFICES ASSUME RecordsHead, Sure(Head(job).d, Head(job).k)'
                 PROVE  hw'[Head(job).d][Head(job).k] = Head(job).v
      BY DEF RecordDue, RecordsHead, Sure
    <2>1. Head(job).d \in Boards /\ Head(job).k \in Told
      BY HeadFits, StepKinds DEF RecordsHead
    <2> QED  BY <1>4, <2>1 DEF IInv, RecordDue
  <1>6. CacheTrue'
    BY <1>4 DEF IInv, CacheTrue, RecordsHead
  <1>7. WillDump' = WillDump
    BY DEF WillDump, Unstoppable, Coming
  <1>8. FileTrue'
    BY <1>2, <1>4, <1>7 DEF IInv, FileTrue
  <1>9. FileCurrent'
    BY <1>7 DEF IInv, FileCurrent, SameTold
  <1>10. KeptComes' /\ Repaired'
    BY <1>1 DEF IInv, KeptComes, SameTold, Repaired
  <1>11. PagesFollow'
    <2>1. \A d, k : WillPush(d, k)' <=> WillPush(d, k)
      BY <1>2 DEF WillPush, Unstoppable, Pushes
    <2> QED  BY <2>1, PagesKept DEF IInv, web
  <1> QED  BY <1>3, <1>5, <1>6, <1>8, <1>9, <1>10, <1>11 DEF IInv

LEMMA PowerCycleKeeps == ASSUME IInv, PowerCycle PROVE IInv'
  <1>1. /\ faults < MaxFaults /\ faults' = faults + 1
        /\ hw' = [d \in Boards |-> [PowerOn EXCEPT !.clock = hw[d].clock]] /\ named' = FALSE /\ total' = 0
        /\ table' = [qt |-> "none", src |-> 0, val |-> 0]
        /\ usb' = FALSE /\ unsure' = Boards \X Told /\ req' = [req EXCEPT !.clean = FALSE]
        /\ UNCHANGED <<srv, cache, file, job, sub, inbox, page, requests, kept>>
    BY DEF PowerCycle, web
  <1>2. hw' \in [Boards -> Board]
    <2>1. \A d \in Boards : hw[d].clock \in Values
      BY DEF IInv, Types, TypeOK, Board
    <2>2. \A c \in Values : [PowerOn EXCEPT !.clock = c] \in Board
      BY Constants DEF PowerOn, Board, Good
    <2> QED  BY <1>1, <2>1, <2>2
  <1>3. table' \in Table /\ faults' \in 0..MaxFaults /\ unsure \subseteq unsure'
    BY <1>1, Constants DEF Table, IInv, Types, TypeOK
  <1>4. \A d \in Boards, k \in Told : ~Sure(d, k)'
    BY <1>1 DEF Sure
  <1> QED  BY <1>1, <1>2, <1>3, <1>4, BoardsChange

LEMMA ClockChangesKeeps == ASSUME IInv, ClockChanges PROVE IInv'
  <1>1. /\ faults < MaxFaults /\ faults' = faults + 1 /\ req' = [req EXCEPT !.clean = FALSE]
        /\ UNCHANGED <<named, total, table, usb, srv, cache, file, job, sub, inbox, page, requests, unsure, kept>>
    BY DEF ClockChanges, web, history
  <1>2. PICK d \in Boards, c \in Readings \cup {0} : hw' = [hw EXCEPT ![d].clock = c]
    BY DEF ClockChanges
  <1>3. hw \in [Boards -> Board] /\ c \in Values
    BY Constants DEF IInv, Types, TypeOK
  <1>4. hw' \in [Boards -> Board] /\ \A b \in Boards, k \in Told : hw'[b][k] = hw[b][k]
    BY <1>2, <1>3 DEF Board, Told
  <1>5. faults' \in 0..MaxFaults
    BY <1>1, Constants DEF IInv, Types, TypeOK
  <1> QED  BY <1>1, <1>4, <1>5, BoardsChange DEF IInv, Types, TypeOK

-----------------------------------------------------------------------------
(* The commands and what is recorded of them.                              *)

Racks == [Boards -> Board]
SetAt(boards, d, k, x) == [boards EXCEPT ![d][k] = x]
LEMMA SettingIn ==
    ASSUME NEW h \in Racks, NEW d \in Boards, NEW k \in Told \cup {"info", "group"}, NEW x \in Values
    PROVE  /\ SetAt(h, d, k, x) \in Racks /\ SetAt(h, d, k, x)[d][k] = x
           /\ \A j \in Told \ {k} : SetAt(h, d, k, x)[d][j] = h[d][j]
           /\ \A b \in Boards \ {d} : SetAt(h, d, k, x)[b] = h[b]
  <1>1. PICK e, o : o = h[d] /\ e = BoardAt(o, k, x)
    OBVIOUS
  <1>2. e \in Board /\ e[k] = x /\ \A j \in Told \ {k} : e[j] = h[d][j]
    <2>1. o \in Board
      BY <1>1 DEF Racks
    <2> QED  BY <1>1, <2>1, BoardSetting
  <1>3. SetAt(h, d, k, x) = [h EXCEPT ![d] = e]
    BY <1>1 DEF SetAt, BoardAt
  <1>4. PICK n : n = [h EXCEPT ![d] = e]
    OBVIOUS
  <1>5. n \in Racks /\ n[d] = e /\ \A b \in Boards \ {d} : n[b] = h[b]
    BY <1>2, <1>4 DEF Racks
  <1> QED  BY <1>2, <1>3, <1>4, <1>5

\* A record is of what its request is about, and the write of the file follows it.
LEMMA RecordLeads ==
    ASSUME NEW q, NEW r, Grammar(q, r), q # <<>>, Head(q).do = "record"
    PROVE  /\ Head(q).d = r.d /\ Head(q).k = r.k
           /\ \A s \in Members(q) : Safe(s)
           /\ \E s \in Members(q) : s.do = "dump"
  <1>1. PICK h, t : h = Head(q) /\ t = Tail(q)
    OBVIOUS
  <1>2. /\ Fits(h, IF t = <<>> THEN {} ELSE {Head(t)}, Members(t), r)
        /\ Members(q) = {h} \cup Members(t)
    BY <1>1, TailGrammar
  <1> QED  BY <1>1, <1>2 DEF Fits, Settles, Safe

\* The boards after a command, and what can be trusted of them.
Commands ==
    /\ job # <<>> /\ Head(job).do = "command" /\ job' \in {Tail(job), <<>>}
    /\ hw' \in Racks /\ unsure' \subseteq Boards \X Told /\ faults' \in 0..MaxFaults /\ SameRequest
    /\ \A b \in Boards, j \in Told : Sure(b, j)' =>
         \/ Sure(b, j) /\ hw'[b][j] = hw[b][j]
         \/ RecordsHead' /\ Head(job').d = b /\ Head(job').k = j
    /\ RecordDue'
    /\ UNCHANGED <<named, total, table, usb, srv, cache, file, web, requests, kept>>

LEMMA CommandIs == ASSUME IInv, Command PROVE Commands
  <1>1. PICK h, t : h = Head(job) /\ t = Tail(job)
    OBVIOUS
  <1>2. job # <<>> /\ h \in Steps /\ h.do = "command" /\ This = h
    BY <1>1, HeadFits DEF Command, Do, This
  <1>3. PICK d \in Boards, k \in Told \cup {"info", "group"}, v \in Values : d = h.d /\ k = h.k /\ v = h.v
    BY <1>2, StepKinds
  <1>4. Fits(h, IF t = <<>> THEN {} ELSE {Head(t)}, Members(t), req) /\ Grammar(t, req)
    BY <1>1, <1>2, HeadFits
  <1>5. PICK boards \in Racks : boards = hw
    BY DEF IInv, Types, TypeOK, Racks
  <1>6. UNCHANGED <<named, total, table, usb, srv, cache, file, web, requests, kept>>
    BY DEF Command
  <1>7. /\ unsure \subseteq Boards \X Told /\ Doubt(d, k) \subseteq Boards \X Told
        /\ faults \in 0..MaxFaults /\ unsure \subseteq Doubt(d, k)
        /\ k \in Told => <<d, k>> \in Doubt(d, k)
    BY DEF Doubt, IInv, Types, TypeOK
  <1>8. Fault => faults' \in 0..MaxFaults /\ SameRequest
    <2>1. [req EXCEPT !.clean = FALSE].clean = FALSE
      BY DEF IInv, Types, Requests
    <2> QED  BY <1>7, <2>1, Constants DEF Fault, SameRequest
  <1>9. CASE /\ job' = t /\ Smooth
             /\ hw' = IF named THEN SetAt(boards, d, k, v) ELSE boards
             /\ unsure' = IF named /\ ~h.told THEN unsure \ {<<d, k>>} ELSE Doubt(d, k)
    <2>1. PICK n : n = SetAt(boards, d, k, v)
      OBVIOUS
    <2>2. /\ n \in Racks /\ n[d][k] = v
          /\ \A j \in Told \ {k} : n[d][j] = boards[d][j]
          /\ \A b \in Boards \ {d} : n[b] = boards[b]
      BY <2>1, SettingIn
    <2>3. /\ hw' \in Racks /\ unsure' \subseteq Boards \X Told /\ faults' \in 0..MaxFaults /\ SameRequest
      BY <1>7, <1>9, <2>1, <2>2 DEF Smooth, SameRequest
    <2>4. \A b \in Boards, j \in Told : b # d \/ j # k => hw'[b][j] = hw[b][j]
      BY <1>5, <1>9, <2>1, <2>2
    <2>5. ASSUME NEW b \in Boards, NEW j \in Told, b # d \/ j # k, Sure(b, j)' PROVE Sure(b, j)
      BY <1>7, <1>9, <2>5 DEF Sure
    <2>6. k \in Told /\ Sure(d, k)' => named /\ ~h.told /\ hw'[d][k] = v
      BY <1>7, <1>9, <2>1, <2>2 DEF Sure
    <2>7. RecordsHead' => Head(t).d = d /\ Head(t).k = k /\ Head(t).v = v /\ k \in Told
      <3>1. ASSUME t # <<>>, Head(t).do = "record" PROVE Head(t).d = d /\ Head(t).k = k /\ Head(t).v = v
        BY <1>3, <1>4, <3>1 DEF Fits
      <3>2. ASSUME t # <<>>, Head(t).do = "record" PROVE Head(t).k \in Told
        BY <1>4, <3>2, TailGrammar, StepKinds
      <3> QED  BY <1>9, <3>1, <3>2 DEF RecordsHead
    <2>8. k \in Told /\ ~h.told => RecordsHead'
      BY <1>2, <1>3, <1>4, <1>9 DEF Fits, RecordsHead
    <2>9. RecordDue'
      BY <1>9, <2>6, <2>7 DEF RecordDue, Sure
    <2>10. ASSUME NEW b \in Boards, NEW j \in Told, Sure(b, j)'
           PROVE  \/ Sure(b, j) /\ hw'[b][j] = hw[b][j]
                  \/ RecordsHead' /\ Head(job').d = b /\ Head(job').k = j
      <3>1. CASE b # d \/ j # k
        BY <2>4, <2>5, <2>10, <3>1
      <3>2. CASE b = d /\ j = k
        BY <1>9, <2>6, <2>7, <2>8, <2>10, <3>2
      <3> QED  BY <3>1, <3>2
    <2> QED  BY <1>1, <1>2, <1>6, <1>9, <2>3, <2>9, <2>10 DEF Commands
  <1>10. CASE job' = <<>> /\ Fault /\ unsure' = Doubt(d, k)
              /\ hw' \in {boards} \cup (IF named /\ k = "armed_ddr" THEN {SetAt(boards, d, k, 0)} ELSE {})
    <2>1. PICK n : n = SetAt(boards, d, k, 0)
      OBVIOUS
    <2>2. /\ n \in Racks
          /\ \A j \in Told \ {k} : n[d][j] = boards[d][j]
          /\ \A b \in Boards \ {d} : n[b] = boards[b]
      <3>1. PICK z \in Values : z = 0
        BY Constants
      <3> QED  BY <2>1, <3>1, SettingIn
    <2>3. hw' \in Racks /\ \A b \in Boards, j \in Told : b # d \/ j # k => hw'[b][j] = hw[b][j]
      BY <1>5, <1>10, <2>1, <2>2
    <2>4. ASSUME NEW b \in Boards, NEW j \in Told, Sure(b, j)' PROVE Sure(b, j) /\ (b # d \/ j # k)
      BY <1>7, <1>10, <2>4 DEF Sure
    <2>5. RecordDue'
      BY <1>10 DEF RecordDue, RecordsHead
    <2> QED  BY <1>1, <1>2, <1>6, <1>7, <1>8, <1>10, <2>3, <2>4, <2>5 DEF Commands
  <1>11. CASE job' = <<>> /\ UNCHANGED <<hw, faults, unsure>> /\ req' = [req EXCEPT !.clean = FALSE]
    <2>1. SameRequest
      <3>1. [req EXCEPT !.clean = FALSE].clean = FALSE
        BY DEF IInv, Types, Requests
      <3> QED  BY <1>11, <3>1 DEF SameRequest
    <2>2. RecordDue' /\ \A b \in Boards, j \in Told : Sure(b, j)' => Sure(b, j)
      BY <1>11 DEF RecordDue, RecordsHead, Sure
    <2> QED  BY <1>1, <1>2, <1>5, <1>6, <1>7, <1>11, <2>1, <2>2 DEF Commands
  <1> QED  BY <1>1, <1>2, <1>3, <1>5, <1>9, <1>10, <1>11 DEF Command, Next_step, SetAt

LEMMA CommandKeeps == ASSUME IInv, Command PROVE IInv'
  <1>1. Commands
    BY CommandIs
  <1>2. /\ req' \in Requests
        /\ req'.name = req.name /\ req'.d = req.d /\ req'.k = req.k
        /\ req'.clean => req.clean
        /\ \A q : Grammar(q, req) => Grammar(q, req')
    BY <1>1, SameRequestKeeps DEF Commands, IInv, Types
  <1>3. Grammar(job', req')
    <2>1. Grammar(Tail(job), req)
      BY <1>1, HeadFits DEF Commands
    <2>2. Grammar(Tail(job), req') /\ Grammar(<<>>, req')
      BY <2>1, <1>2, EmptyGrammar
    <2> QED  BY <1>1, <2>2 DEF Commands
  <1>4. UNCHANGED <<named, total, table, usb, srv, cache, file, sub, inbox, page, requests, kept>>
    BY <1>1 DEF Commands, web
  <1>5. Types'
    <2>1. TypeOK'
      BY <1>1, <1>4 DEF Commands, IInv, Types, TypeOK, Racks
    <2>2. srv # "down"
      BY <1>1, HeadFits DEF Commands
    <2> QED  BY <1>2, <1>3, <1>4, <2>1, <2>2 DEF IInv, Types
  <1>6. ~Unstoppable /\ req.name \notin Answered /\ ~RecordsHead
    <2>1. Head(job) \in Members(job)
      BY <1>1, HeadFits DEF Commands
    <2>2. ~Safe(Head(job))
      BY <1>1 DEF Commands, Safe
    <2>3. req.name \notin Answered
      BY <1>1, HeadFits DEF Commands, Fits
    <2> QED  BY <1>1, <2>1, <2>2, <2>3 DEF Commands, Unstoppable, RecordsHead
  <1>7. ~WillDump /\ \A d, k : ~WillPush(d, k)
    BY <1>6 DEF WillDump, WillPush
  <1>8. RecordsHead' => WillDump' /\ Head(job').d = req'.d /\ Head(job').k = req'.k
    BY <1>3, RecordLeads DEF RecordsHead, WillDump, Unstoppable, Coming
  <1>9. \A b \in Boards, j \in Told : Sure(b, j)' =>
           \/ Sure(b, j) /\ hw'[b][j] = hw[b][j]
           \/ RecordsHead' /\ Head(job').d = b /\ Head(job').k = j
    BY <1>1 DEF Commands
  <1>10. CacheTrue'
    BY <1>4, <1>6, <1>9 DEF IInv, CacheTrue
  <1>11. FileTrue'
    BY <1>4, <1>7, <1>8, <1>9 DEF IInv, FileTrue
  <1>12. FileCurrent'
    BY <1>4, <1>7 DEF IInv, FileCurrent, SameTold
  <1>13. KeptComes' /\ Repaired'
    BY <1>2, <1>4, <1>6 DEF IInv, KeptComes, SameTold, Repaired, Answered
  <1>14. PagesFollow'
    BY <1>4, <1>7, PagesKept DEF IInv, web
  <1> QED  BY <1>1, <1>5, <1>10, <1>11, <1>12, <1>13, <1>14 DEF IInv, Commands

LEMMA RecordKeeps == ASSUME IInv, Record PROVE IInv'
  <1>1. PICK h, t : h = Head(job) /\ t = Tail(job)
    OBVIOUS
  <1>2. /\ job # <<>> /\ h \in Steps /\ h.do = "record" /\ This = h /\ job' = t /\ srv # "down"
        /\ Fits(h, IF t = <<>> THEN {} ELSE {Head(t)}, Members(t), req) /\ Grammar(t, req) /\ Grammar(job, req)
    BY <1>1, HeadFits DEF Record, Do, This, Next_step, IInv, Types
  <1>3. PICK d \in Boards, k \in Told, v \in Values : d = h.d /\ k = h.k /\ v = h.v
    BY <1>2, StepKinds
  <1>4. d = req.d /\ k = req.k /\ req.name \notin Answered
    BY <1>2, <1>3 DEF Fits
  <1>5. /\ UNCHANGED <<hw, named, total, table, usb, srv, file, req, sub, inbox, page, requests, faults, unsure, kept>>
        /\ UNCHANGED web
    BY DEF Record, ring, web, history
  <1>6. PICK c \in Caches : c = cache
    BY DEF IInv, Types, TypeOK
  <1>7. /\ cache' \in Caches /\ cache'[d][k] = v
        /\ \A j \in Keys \ {k} : cache'[d][j] = cache[d][j]
        /\ \A b \in Known \ {d} : cache'[b] = cache[b]
    <2>1. PICK n : n = NoteAt(c, d, k, v)
      OBVIOUS
    <2>2. cache' = n
      BY <1>2, <1>3, <1>6, <2>1 DEF Record, NoteAt
    <2>3. k \in _STICKY_KEYS /\ v \in Noted /\ d \in Known
      BY Constants DEF _STICKY_KEYS, Noted
    <2>4. /\ n \in Caches /\ n[d][k] = v
          /\ \A j \in Keys \ {k} : n[d][j] = c[d][j]
          /\ \A b \in Known \ {d} : n[b] = c[b]
      BY <2>1, <2>3, NotedIn
    <2> QED  BY <1>6, <2>2, <2>4
  <1>8. \A b \in Known, j \in Keys : b # d \/ j # k => cache'[b][j] = cache[b][j]
    BY <1>7
  <1>9. \A b \in Boards, j \in Told : b \in Known /\ j \in Keys
    BY Constants DEF Keys, _STICKY_KEYS
  <1>10. Types'
    <2>1. TypeOK'
      BY <1>5, <1>7 DEF IInv, Types, TypeOK
    <2> QED  BY <1>2, <1>5, <2>1 DEF IInv, Types
  <1>11. RecordDue'
    <2>1. ~RecordsHead'
      BY <1>1, <1>2, NoRecordNext
    <2> QED  BY <2>1 DEF RecordDue
  <1>12. RecordsHead /\ (Sure(d, k) => hw[d][k] = v)
    BY <1>1, <1>2, <1>3 DEF IInv, RecordDue, RecordsHead
  <1>13. CacheTrue'
    <2> SUFFICES ASSUME NEW b \in Boards, NEW j \in Told, Sure(b, j) PROVE cache'[b][j] \in {None, hw[b][j]}
      BY <1>5 DEF CacheTrue, Sure
    <2>1. CASE b = d /\ j = k
      BY <2>1, <1>7, <1>12
    <2>2. CASE b # d \/ j # k
      BY <2>2, <1>1, <1>3, <1>8, <1>9 DEF IInv, CacheTrue
    <2> QED  BY <2>1, <2>2
  <1>14. WillDump'
    BY <1>1, <1>2, SettledRest DEF Settles
  <1>15. FileTrue'
    BY <1>4, <1>5, <1>14 DEF IInv, FileTrue, Sure
  <1>16. FileCurrent' /\ KeptComes' /\ Repaired'
    BY <1>2, <1>4, <1>5, <1>14 DEF FileCurrent, KeptComes, Repaired, Answered
  <1>17. PagesFollow'
    <2>1. ASSUME NEW b \in Known, NEW j \in PageKeys
          PROVE  /\ cache'[b][j] = cache[b][j] \/ WillPush(b, j)'
                 /\ WillPush(b, j) => WillPush(b, j)'
      <3>1. ~Pushes(h, b, j)
        BY <1>2 DEF Pushes, StatusPush
      <3>2. WillPush(b, j) => WillPush(b, j)'
        BY <1>1, <1>2, <1>5, <3>1, PushStillComes
      <3>3. CASE b = d /\ j = k
        <4>1. k = "armed_ddr"
          BY <3>3 DEF PageKeys, Told
        <4>2. PICK s \in Members(t) : s.do = "push"
          BY <1>2, <1>3, <4>1 DEF Fits
        <4>3. Pushes(s, b, j)'
          BY <1>4, <1>5, <3>3, <4>1, <4>2 DEF Pushes
        <4>4. Unstoppable'
          BY <1>1, <1>2, SettledRest DEF Settles
        <4>5. WillPush(b, j)'
          BY <1>2, <4>2, <4>3, <4>4 DEF WillPush
        <4> QED  BY <4>5
      <3>4. CASE b # d \/ j # k
        <4>1. j \in Keys
          BY DEF PageKeys, Keys, _STICKY_KEYS, Told
        <4> QED  BY <1>8, <3>2, <3>4, <4>1
      <3> QED  BY <3>2, <3>3, <3>4
    <2> QED  BY <2>1, <1>5, PagesKept DEF IInv
  <1> QED  BY <1>10, <1>11, <1>13, <1>15, <1>16, <1>17 DEF IInv
-----------------------------------------------------------------------------
(* The file and the events.                                                *)

Onward ==
    /\ job # <<>> /\ Head(job).do \in {"truncate", "dump", "push", "result"} /\ job' = Tail(job)
    /\ file' \in Caches \cup {Torn} /\ inbox' \in [Viewers -> Seq(Events)]
    /\ \A v \in Viewers : sub[v] = "off" => inbox'[v] = <<>>
    /\ UNCHANGED <<hw, named, total, table, usb, srv, cache, req, sub, page, requests, faults, unsure, kept>>

LEMMA OnwardKeeps ==
    ASSUME IInv, Onward
    PROVE  /\ Types' /\ RecordDue' /\ CacheTrue' /\ Repaired' /\ srv # "down"
           /\ \A d \in Boards, k \in Told : Sure(d, k) => cache[d][k] \in {None, hw[d][k]}
           /\ \A d, k : ~Pushes(Head(job), d, k) /\ WillPush(d, k) => WillPush(d, k)'
           /\ Head(job).do # "dump" /\ WillDump => WillDump'
  <1>1. PICK h, t : h = Head(job) /\ t = Tail(job)
    OBVIOUS
  <1>2. /\ job # <<>> /\ h \in Steps /\ job' = t /\ srv # "down" /\ h.do \in {"truncate", "dump", "push", "result"}
        /\ Fits(h, IF t = <<>> THEN {} ELSE {Head(t)}, Members(t), req) /\ Grammar(t, req) /\ Grammar(job, req)
        /\ Members(job) = {h} \cup Members(t)
    BY <1>1, HeadFits DEF Onward, IInv, Types
  <1>3. Types'
    <2>1. TypeOK'
      BY DEF Onward, IInv, Types, TypeOK
    <2> QED  BY <1>2, <2>1 DEF Onward, IInv, Types
  <1>4. ~RecordsHead /\ ~RecordsHead'
    BY <1>1, <1>2, NoRecordNext DEF RecordsHead
  <1>5. \A d \in Boards, k \in Told : Sure(d, k) => cache[d][k] \in {None, hw[d][k]}
    BY <1>4 DEF IInv, CacheTrue
  <1>6. CacheTrue' /\ RecordDue'
    BY <1>4, <1>5 DEF Onward, CacheTrue, RecordDue, Sure
  <1>7. Repaired'
    <2>1. ~Coming("master")
      BY <1>2 DEF Coming, Fits
    <2>2. \A x, d : x \in {"ask", "measure", "regroup"} /\ ComingFor(x, d) => ComingFor(x, d)'
      BY <1>2 DEF ComingFor
    <2> QED  BY <2>1, <2>2 DEF Onward, IInv, Repaired
  <1>8. ASSUME NEW d, NEW k, ~Pushes(h, d, k), WillPush(d, k) PROVE WillPush(d, k)'
    BY <1>1, <1>2, <1>8, PushStillComes DEF Onward
  <1>9. h.do # "dump" /\ WillDump => WillDump'
    BY <1>1, <1>2, DumpStillComes
  <1> QED  BY <1>1, <1>2, <1>3, <1>5, <1>6, <1>7, <1>8, <1>9

LEMMA TruncateKeeps == ASSUME IInv, Truncate PROVE IInv'
  <1>1. /\ job # <<>> /\ Head(job).do = "truncate" /\ job' = Tail(job) /\ file' = Torn
        /\ UNCHANGED <<hw, named, total, table, usb, srv, cache, req, sub, inbox, page, requests, faults, unsure, kept>>
    BY DEF Truncate, Do, Next_step, ring, web, history
  <1>2. Onward
    BY <1>1 DEF Onward, IInv, Types
  <1>3. WillDump'
    BY <1>1, SettledRest DEF Settles, IInv, Types
  <1>4. FileTrue' /\ FileCurrent'
    BY <1>1, <1>3 DEF FileTrue, FileCurrent
  <1>5. KeptComes'
    BY <1>1, <1>2, OnwardKeeps DEF IInv, KeptComes, SameTold
  <1>6. PagesFollow'
    <2>1. \A d, k : ~Pushes(Head(job), d, k)
      BY <1>1 DEF Pushes, StatusPush
    <2>2. \A d, k : WillPush(d, k) => WillPush(d, k)'
      BY <1>2, <2>1, OnwardKeeps
    <2> QED  BY <1>1, <2>2, PagesKept DEF IInv, web
  <1> QED  BY <1>2, <1>4, <1>5, <1>6, OnwardKeeps DEF IInv

LEMMA DumpKeeps == ASSUME IInv, Dump PROVE IInv'
  <1>1. /\ job # <<>> /\ Head(job).do = "dump" /\ job' = Tail(job) /\ file' = cache
        /\ UNCHANGED <<hw, named, total, table, usb, srv, cache, req, sub, inbox, page, requests, faults, unsure, kept>>
    BY DEF Dump, Do, Next_step, ring, web, history
  <1>2. cache \in Caches /\ cache # Torn
    BY Constants DEF IInv, Types, TypeOK
  <1>3. Onward
    BY <1>1, <1>2 DEF Onward, IInv, Types
  <1>4. FileTrue'
    BY <1>1, <1>3, OnwardKeeps DEF FileTrue, Sure
  <1>5. FileCurrent'
    BY <1>1, <1>2 DEF FileCurrent, SameTold
  <1>6. KeptComes'
    BY <1>1, <1>3, OnwardKeeps DEF IInv, KeptComes, SameTold
  <1>7. PagesFollow'
    <2>1. \A d, k : ~Pushes(Head(job), d, k)
      BY <1>1 DEF Pushes, StatusPush
    <2>2. \A d, k : WillPush(d, k) => WillPush(d, k)'
      BY <1>3, <2>1, OnwardKeeps
    <2> QED  BY <1>1, <2>2, PagesKept DEF IInv, web
  <1> QED  BY <1>3, <1>4, <1>5, <1>6, <1>7, OnwardKeeps DEF IInv

\* What a queue says once an event more is in it.
LEMMA UptoMore ==
    ASSUME NEW q \in Seq(Events), NEW ev \in Events, NEW p, NEW live, NEW d, NEW k
    PROVE  /\ Alters(ev, d, k) /\ Right(ev, d, k) => Upto(Append(q, ev), p, live, d, k)
           /\ ~Alters(ev, d, k) /\ Upto(q, p, live, d, k) => Upto(Append(q, ev), p, live, d, k)
  <1>0. PICK n \in Nat : n = Len(q)
    OBVIOUS
  <1>1. PICK a : n = Len(q) /\ a = Append(q, ev)
    BY <1>0
  <1>2. Len(a) = n + 1 /\ a[n + 1] = ev /\ \A i \in 1..n : a[i] = q[i]
    BY <1>1
  <1>3. ASSUME Alters(ev, d, k), Right(ev, d, k) PROVE Upto(a, p, live, d, k)
    <2>1. n + 1 \in 1..Len(a) /\ \A j \in (n + 2)..Len(a) : FALSE
      BY <1>2
    <2>2. (n + 1) + 1 = n + 2
      OBVIOUS
    <2> QED  BY <1>2, <1>3, <2>1, <2>2 DEF Upto
  <1>4. ASSUME ~Alters(ev, d, k), Upto(q, p, live, d, k) PROVE Upto(a, p, live, d, k)
    <2>1. CASE \E i \in 1..n : /\ Alters(q[i], d, k) /\ Right(q[i], d, k)
                               /\ \A j \in (i + 1)..n : ~Alters(q[j], d, k)
      <3>1. PICK i \in 1..n : /\ Alters(q[i], d, k) /\ Right(q[i], d, k)
                              /\ \A j \in (i + 1)..n : ~Alters(q[j], d, k)
        BY <2>1
      <3>2. ASSUME NEW j \in (i + 1)..(n + 1) PROVE ~Alters(a[j], d, k)
        <4>1. CASE j = n + 1
          BY <1>2, <1>4, <4>1
        <4>2. CASE j # n + 1
          <5>1. j \in (i + 1)..n /\ j \in 1..n
            BY <4>2
          <5> QED  BY <1>2, <3>1, <5>1
        <4> QED  BY <4>1, <4>2
      <3>3. i \in 1..Len(a) /\ a[i] = q[i]
        BY <1>2
      <3> QED  BY <1>2, <3>1, <3>2, <3>3 DEF Upto
    <2>2. CASE (\A i \in 1..n : ~Alters(q[i], d, k)) /\ (live => Shows(p, d, k))
      <3>1. \A i \in 1..(n + 1) : i = n + 1 \/ i \in 1..n
        OBVIOUS
      <3>2. \A i \in 1..(n + 1) : ~Alters(a[i], d, k)
        BY <1>2, <1>4, <2>2, <3>1
      <3> QED  BY <1>2, <2>2, <3>2 DEF Upto
    <2> QED  BY <1>1, <1>4, <2>1, <2>2 DEF Upto
  <1> QED  BY <1>1, <1>3, <1>4

\* An event that says of what it alters what the cache has.
LEMMA BroadcastKeeps ==
    ASSUME IInv, NEW ev \in Events, broadcast(ev),
           job # <<>>, Head(job).do \in {"push", "result"}, job' = Tail(job),
           \A d \in Known, k \in PageKeys : IF Alters(ev, d, k) THEN Right(ev, d, k) ELSE ~Pushes(Head(job), d, k),
           UNCHANGED <<hw, named, total, table, usb, srv, cache, file, req, sub, page, requests, faults, unsure, kept>>
    PROVE  IInv'
  <1>1. inbox \in [Viewers -> Seq(Events)]
    BY DEF IInv, Types
  <1>2. \A v \in Viewers : inbox'[v] = IF sub[v] # "off" THEN Append(inbox[v], ev) ELSE inbox[v]
    BY DEF broadcast
  <1>3. inbox' \in [Viewers -> Seq(Events)]
    BY <1>1 DEF broadcast
  <1>4. Onward
    BY <1>2, <1>3 DEF Onward, IInv, Types, TypeOK
  <1>5. WillDump => WillDump'
    BY <1>4, OnwardKeeps
  <1>6. FileTrue'
    BY <1>5 DEF IInv, FileTrue, Sure
  <1>7. FileCurrent'
    BY <1>5 DEF IInv, FileCurrent, SameTold
  <1>8. KeptComes'
    BY DEF IInv, KeptComes, SameTold
  <1>9. PagesFollow'
    <2> SUFFICES ASSUME NEW v \in Viewers, sub'[v] # "off", NEW d \in Known, NEW k \in PageKeys
                 PROVE  UpToDate(v, d, k)' \/ WillPush(d, k)'
      BY DEF PagesFollow
    <2>1. UpToDate(v, d, k) \/ WillPush(d, k)
      BY DEF IInv, PagesFollow
    <2>0. PICK q \in Seq(Events) : q = inbox[v]
      BY <1>1
    <2>2. PICK p, live : q = inbox[v] /\ p = page[v][d] /\ live = (sub[v] = "live")
      BY <2>0
    <2>3. UpToDate(v, d, k) <=> Upto(q, p, live, d, k)
      BY <2>2, UptoIs
    <2>4. Upto(Append(q, ev), p, live, d, k) => UpToDate(v, d, k)'
      BY <1>2, <2>2 DEF Upto, UpToDate, Right, Shows
    <2>5. CASE Alters(ev, d, k)
      BY <2>4, <2>5, UptoMore
    <2>6. CASE ~Alters(ev, d, k)
      <3>1. WillPush(d, k) => WillPush(d, k)'
        BY <1>4, <2>6, OnwardKeeps
      <3>2. Upto(q, p, live, d, k) => Upto(Append(q, ev), p, live, d, k)
        BY <2>6, UptoMore
      <3> QED  BY <2>1, <2>3, <2>4, <3>1, <3>2
    <2> QED  BY <2>5, <2>6
  <1> QED  BY <1>4, <1>6, <1>7, <1>8, <1>9, OnwardKeeps DEF IInv

LEMMA PushKeeps == ASSUME IInv, Push PROVE IInv'
  <1>1. PICK h : h = Head(job)
    OBVIOUS
  <1>2. /\ job # <<>> /\ h \in Steps /\ h.do = "push" /\ job' = Tail(job)
        /\ broadcast([type |-> h.type, d |-> req.d, boards |-> cache])
        /\ UNCHANGED <<hw, named, total, table, usb, srv, cache, file, req, sub, page, requests, faults, unsure, kept>>
    BY <1>1, HeadFits DEF Push, Do, This, Next_step, ring, history
  <1>3. PICK ev : ev = [type |-> h.type, d |-> req.d, boards |-> cache]
    OBVIOUS
  <1>4. ev \in Events /\ ev.type = h.type /\ ev.d = req.d /\ ev.boards = cache
    <2>1. h.type \in {"status", "arm"}
      BY <1>2, StepKinds
    <2>2. req.d \in Boards /\ cache \in Caches
      BY DEF IInv, Types, TypeOK, Requests
    <2> QED  BY <1>3, <2>1, <2>2 DEF Events
  <1>5. ASSUME NEW d \in Known, NEW k \in PageKeys
        PROVE  IF Alters(ev, d, k) THEN Right(ev, d, k) ELSE ~Pushes(h, d, k)
    BY <1>2, <1>4 DEF Alters, Right, Shows, Pushes, StatusPush
  <1> QED  BY <1>1, <1>2, <1>3, <1>4, <1>5, BroadcastKeeps

LEMMA ResultKeeps == ASSUME IInv, Result PROVE IInv'
  <1>1. PICK h : h = Head(job)
    OBVIOUS
  <1>2. PICK b : b = [d \in Known |->
           IF h.boards[d] = NoEntry \/ h.boards[d]["error"] # None THEN h.boards[d] ELSE cache[d]]
    OBVIOUS
  <1>3. /\ job # <<>> /\ h \in Steps /\ h.do = "result" /\ job' = Tail(job)
        /\ broadcast([type |-> "status", d |-> 0, boards |-> b])
        /\ UNCHANGED <<hw, named, total, table, usb, srv, cache, file, req, sub, page, requests, faults, unsure, kept>>
    BY <1>1, <1>2, HeadFits DEF Result, Do, This, Next_step, ring, history
  <1>4. b \in Caches
    <2>1. h.boards \in Caches /\ cache \in Caches
      BY <1>3, StepKinds DEF IInv, Types, TypeOK
    <2> QED  BY <1>2, <2>1 DEF Caches
  <1>5. PICK ev : ev = [type |-> "status", d |-> 0, boards |-> b]
    OBVIOUS
  <1>6. ev \in Events /\ ev.type = "status" /\ ev.boards = b
    BY <1>4, <1>5, Constants DEF Events
  <1>7. ASSUME NEW d \in Known, NEW k \in PageKeys
        PROVE  IF Alters(ev, d, k) THEN Right(ev, d, k) ELSE ~Pushes(h, d, k)
    BY <1>2, <1>6 DEF Alters, Right, Shows
  <1> QED  BY <1>1, <1>3, <1>5, <1>6, <1>7, BroadcastKeeps

-----------------------------------------------------------------------------
(* The refresh and Initialize.                                             *)

\* The boards a refresh goes through: those of the ring, or those of the map.
Lengths == {N, Nominal}
Refreshing(n) == Ask(n) \o Details(n) \o PushStatus \o _persist_status

LEMMA RefreshComes ==
    ASSUME NEW n \in Lengths, job' = Refreshing(n), NEW r
    PROVE  /\ Grammar(job', r) /\ ~RecordsHead' /\ WillDump' /\ \A d, k : WillPush(d, k)'
           /\ \A d \in 1..(n - 1) : ComingFor("ask", d)'
           /\ \A d \in 0..(n - 1) : ComingFor("measure", d)' /\ ComingFor("regroup", d)'
  <1>1. n \in Nat /\ n >= 1 /\ \A d \in 0..(n - 1) : d \in Known
    BY Constants DEF Lengths, Known
  <1>2. PICK q : q = Ask(n) \o Details(n) \o PushStatus \o _persist_status
    OBVIOUS
  <1>3. /\ Grammar(q, r) /\ \A s \in Members(q) : Safe(s)
        /\ Dumping \in Members(q) /\ StatusEvent \in Members(q)
        /\ q # <<>> /\ Head(q).do # "record"
        /\ \A d \in 1..(n - 1) : Step("ask", d) \in Members(q)
        /\ \A d \in 0..(n - 1) : Step("measure", d) \in Members(q) /\ Step("regroup", d) \in Members(q)
    BY <1>1, <1>2, RefreshGrammar
  <1>4. job' = q
    BY <1>2 DEF Refreshing
  <1>5. Unstoppable' /\ Grammar(job', r) /\ ~RecordsHead'
    BY <1>3, <1>4 DEF Unstoppable, RecordsHead
  <1>6. WillDump'
    <2>1. Dumping.do = "dump"
      BY DEF Dumping
    <2> QED  BY <2>1, <1>3, <1>4, <1>5 DEF WillDump, Coming
  <1>7. \A d, k : WillPush(d, k)'
    <2>1. TAKE d, k
    <2>2. Pushes(StatusEvent, d, k)'
      BY DEF Pushes, StatusPush, StatusEvent
    <2> QED  BY <2>2, <1>3, <1>4, <1>5 DEF WillPush
  <1>8. ASSUME NEW x \in {"ask", "measure", "regroup"}, NEW d \in Known, Step(x, d) \in Members(q)
        PROVE  ComingFor(x, d)'
    BY <1>4, <1>8, BoardStep DEF ComingFor
  <1>9. \A d \in 1..(n - 1) : d \in 0..(n - 1)
    BY <1>1
  <1> QED  BY <1>1, <1>3, <1>5, <1>6, <1>7, <1>8, <1>9

LEMMA AskMasterKeeps == ASSUME IInv, AskMaster PROVE IInv'
  <1>1. /\ job # <<>> /\ Head(job).do = "master" /\ srv # "down"
        /\ UNCHANGED <<hw, named, total, usb, srv, file, sub, inbox, page, requests, unsure, kept>>
    BY HeadFits DEF AskMaster, Do, web, history
  <1>2. PICK r \in Replies :
        /\ query_board(0, "info", r)
        /\ cache' = [cache EXCEPT ![0] = Asked(r, 0)]
        /\ job' = Refreshing(IF r = Raised \/ (r # Raised /\ r.qt # "info") \/ total = 0 THEN Nominal ELSE total)
    BY DEF AskMaster, Refreshing
  <1>3. PICK n \in Lengths : n = IF r = Raised \/ (r # Raised /\ r.qt # "info") \/ total = 0 THEN Nominal ELSE total
    BY DEF Lengths, IInv, Types, TypeOK
  <1>4. /\ table' \in Table /\ faults' \in 0..MaxFaults /\ SameRequest /\ (r # Raised => r \in Table)
        /\ req'.clean => named /\ r = Answer(0, "info") /\ r \in Table
    BY <1>2, QueryBoard DEF SameRequest, IInv, Types, TypeOK
  <1>5. /\ req' \in Requests
        /\ req'.name = req.name /\ req'.d = req.d /\ req'.k = req.k
        /\ req'.clean => req.clean
    BY <1>4, SameRequestKeeps DEF IInv, Types
  <1>6. job' = Refreshing(n)
    BY <1>2, <1>3
  <1>7. /\ Grammar(job', req') /\ ~RecordsHead' /\ WillDump' /\ \A d, k : WillPush(d, k)'
        /\ \A d \in 1..(n - 1) : ComingFor("ask", d)'
        /\ \A d \in 0..(n - 1) : ComingFor("measure", d)' /\ ComingFor("regroup", d)'
    BY <1>6, RefreshComes
  <1>8. PICK e, z, c : e = Asked(r, 0) /\ z = 0 /\ c = cache
    OBVIOUS
  <1>9. c \in Caches /\ z \in Known /\ z \in Boards
    BY <1>8, Constants DEF IInv, Types, TypeOK
  <1>10. /\ e \in Entry
         /\ \A k \in Told : e[k] = cache[z][k] \/ (r = Raised /\ e[k] = None)
         /\ r # Raised /\ r.qt = "info" => e["info"] = <<r.src, r.val>> /\ e["error"] = None
    BY <1>4, <1>8, <1>9, AskedEntry
  <1>11. cache' \in Caches /\ cache'[z] = e /\ \A b \in Known \ {z} : cache'[b] = cache[b]
    <2>1. /\ [c EXCEPT ![z] = e] \in Caches /\ [c EXCEPT ![z] = e][z] = e
          /\ \A b \in Known \ {z} : [c EXCEPT ![z] = e][b] = c[b]
      BY <1>9, <1>10, CacheWith
    <2>2. cache' = [c EXCEPT ![z] = e]
      BY <1>2, <1>8
    <2> QED  BY <2>1, <2>2, <1>8
  <1>12. \A d \in Boards, k \in Told : cache'[d][k] = cache[d][k] \/ (r = Raised /\ cache'[d][k] = None)
    BY <1>10, <1>11, Constants
  <1>13. req'.clean => r # Raised /\ r.qt = "info" /\ r.src = 0 /\ r.val = hw[0].info
    BY <1>4, Constants DEF Answer
  <1>14. Types'
    <2>1. TypeOK'
      BY <1>1, <1>4, <1>11 DEF IInv, Types, TypeOK
    <2> QED  BY <1>1, <1>5, <1>7, <2>1 DEF IInv, Types
  <1>15. ~RecordsHead
    BY <1>1 DEF RecordsHead
  <1>16. RecordDue'
    BY <1>7 DEF RecordDue
  <1>17. CacheTrue'
    BY <1>1, <1>12, <1>15 DEF IInv, CacheTrue, Sure
  <1>18. FileTrue'
    BY <1>1, <1>5, <1>7 DEF IInv, FileTrue, Sure
  <1>19. FileCurrent'
    BY <1>7 DEF FileCurrent
  <1>20. KeptComes'
    BY <1>1, <1>5, <1>12, <1>13 DEF IInv, KeptComes, SameTold
  <1>21. PagesFollow'
    BY <1>7 DEF PagesFollow
  <1>22. Repaired'
    <2> SUFFICES ASSUME req'.clean, NEW d \in Boards
                 PROVE  /\ ComingFor("ask", d)' \/ (cache'[d]["info"] = <<d, hw'[d].info>> /\ cache'[d]["error"] = None)
                        /\ ComingFor("measure", d)' /\ ComingFor("regroup", d)'
      BY DEF Repaired
    <2>1. n = N
      <3>1. total = N /\ N # 0
        BY <1>4, Constants DEF IInv, Types
      <3> QED  BY <1>3, <1>13, <3>1
    <2>2. d \in 0..(n - 1) /\ (d = z \/ d \in 1..(n - 1))
      BY <1>8, <2>1, Constants DEF Boards
    <2>3. d = z => cache'[d]["info"] = <<d, hw'[d].info>> /\ cache'[d]["error"] = None
      BY <1>1, <1>8, <1>10, <1>11, <1>13
    <2> QED  BY <1>7, <2>2, <2>3
  <1> QED  BY <1>14, <1>16, <1>17, <1>18, <1>19, <1>20, <1>21, <1>22 DEF IInv

\* What Initialize leaves of the boards, and to be done.
Initializes ==
    /\ job # <<>> /\ Head(job).do = "init"
    /\ hw' \in Racks /\ \A d \in Boards, k \in Told : hw'[d][k] = hw[d][k]
    /\ named' \in BOOLEAN /\ total' \in {0, N} /\ (named' => total' = N)
    /\ table' \in Table /\ usb' \in BOOLEAN /\ faults' \in 0..MaxFaults /\ SameRequest
    /\ Grammar(job', req) /\ ~RecordsHead'
    /\ UNCHANGED <<srv, cache, file, web, requests, history>>

LEMMA InitializesKeeps == ASSUME IInv, Initializes PROVE IInv'
  <1>1. /\ UNCHANGED <<srv, cache, file, sub, inbox, page, requests, unsure, kept>>
        /\ srv # "down"
    BY HeadFits DEF Initializes, web, history
  <1>2. /\ req' \in Requests
        /\ req'.name = req.name /\ req'.d = req.d /\ req'.k = req.k
        /\ req'.clean => req.clean
        /\ Grammar(job', req')
    BY SameRequestKeeps DEF Initializes, IInv, Types
  <1>3. Types'
    <2>1. TypeOK'
      BY <1>1 DEF Initializes, Racks, IInv, Types, TypeOK
    <2>2. named' => total' = N
      BY DEF Initializes
    <2> QED  BY <1>1, <1>2, <2>1, <2>2 DEF IInv, Types
  <1>4. ~Unstoppable /\ req.name \notin Answered /\ ~RecordsHead
    <2>1. Head(job) \in Members(job)
      BY HeadFits DEF Initializes
    <2>2. ~Safe(Head(job))
      BY DEF Initializes, Safe
    <2>3. req.name \notin Answered
      BY HeadFits DEF Initializes, Fits
    <2> QED  BY <2>1, <2>2, <2>3 DEF Initializes, Unstoppable, RecordsHead
  <1>5. ~WillDump /\ \A d, k : ~WillPush(d, k)
    BY <1>4 DEF WillDump, WillPush
  <1>6. RecordDue'
    BY DEF Initializes, RecordDue
  <1>7. CacheTrue'
    BY <1>1, <1>4 DEF Initializes, IInv, CacheTrue, Sure
  <1>8. FileTrue'
    BY <1>1, <1>5 DEF Initializes, IInv, FileTrue, Sure
  <1>9. FileCurrent'
    BY <1>1, <1>5 DEF IInv, FileCurrent, SameTold
  <1>10. KeptComes' /\ Repaired'
    BY <1>1, <1>2, <1>4 DEF IInv, KeptComes, SameTold, Repaired, Answered
  <1>11. PagesFollow'
    BY <1>1, <1>5, PagesKept DEF IInv, web
  <1> QED  BY <1>3, <1>6, <1>7, <1>8, <1>9, <1>10, <1>11 DEF IInv

FoundAt(x, y) == [NoEntry EXCEPT !["info"] = x, !["ext_clk_freq_hz"] = y]
LEMMA FoundIn ==
    /\ \A x \in Filed, y \in Noted : FoundAt(x, y) \in FoundEntry
    /\ ErrorEntry \in FoundEntry
  <1>1. ASSUME NEW x \in Filed, NEW y \in Noted PROVE FoundAt(x, y) \in FoundEntry
    <2>1. None \in Filed /\ None \in Noted
      BY DEF Filed, Noted
    <2> QED  BY <2>1 DEF FoundAt, FoundEntry, NoEntry, Entry, Keys, _STICKY_KEYS, Told
  <1>2. ErrorEntry \in FoundEntry
    BY NoEntries DEF FoundEntry, Keys, _STICKY_KEYS, Told
  <1> QED  BY <1>1, <1>2

LEMMA RunInitIs == ASSUME IInv, RunInit PROVE Initializes
  <1>1. /\ job # <<>> /\ Head(job).do = "init" /\ req.name \notin Answered
        /\ UNCHANGED <<srv, cache, file, web, requests, history>>
    BY HeadFits DEF RunInit, Do, Fits
  <1>2. /\ hw \in Racks /\ named \in BOOLEAN /\ total \in {0, N} /\ (named => total = N)
        /\ table \in Table /\ faults \in 0..MaxFaults
    BY DEF IInv, Types, TypeOK, Racks
  <1>3. /\ Smooth => faults' \in 0..MaxFaults /\ SameRequest
        /\ Fault => faults' \in 0..MaxFaults /\ SameRequest
    <2>1. [req EXCEPT !.clean = FALSE].clean = FALSE
      BY DEF IInv, Types, Requests
    <2>2. Smooth => faults' \in 0..MaxFaults /\ SameRequest
      BY <1>2 DEF Smooth, SameRequest
    <2>3. Fault => faults' \in 0..MaxFaults /\ SameRequest
      BY <1>2, <2>1, Constants DEF Fault, SameRequest
    <2> QED  BY <2>2, <2>3
  <1>4. CASE \E ok \in BOOLEAN :
          /\ connect(ok) /\ job' = <<>> /\ Fault
          /\ named' \in (IF ok THEN {named, TRUE} ELSE {named}) /\ total' = (IF named' THEN N ELSE total)
          /\ UNCHANGED <<hw, table>>
    <2>1. named' \in BOOLEAN /\ usb' \in BOOLEAN /\ job' = <<>> /\ Fault /\ total' = (IF named' THEN N ELSE total)
          /\ UNCHANGED <<hw, table>>
      BY <1>2, <1>4 DEF connect
    <2>2. Grammar(job', req) /\ ~RecordsHead'
      BY <2>1, EmptyGrammar DEF RecordsHead
    <2>3. total' \in {0, N} /\ (named' => total' = N)
      BY <1>2, <2>1
    <2> QED  BY <1>1, <1>2, <1>3, <2>1, <2>2, <2>3 DEF Initializes
  <1>5. CASE /\ connect(TRUE) /\ UNCHANGED <<hw, named, total, table>> /\ Fault
             /\ job' = <<[do |-> "result", boards |-> Empty]>> \o _persist_status
    <2>1. PICK s, b : b = Empty /\ s = [do |-> "result", boards |-> b]
      OBVIOUS
    <2>2. PICK t : t = <<s>> \o _persist_status
      OBVIOUS
    <2>3. b \in Caches
      BY <2>1, NoEntries
    <2>4. PICK r : r = req /\ r.name \notin Answered
      BY <1>1
    <2>5. Grammar(t, r) /\ t # <<>> /\ Head(t) = s
      BY <2>1, <2>2, <2>3, <2>4, ResultGrammar
    <2>6. job' = t
      BY <1>5, <2>1, <2>2
    <2>7. Grammar(job', req) /\ ~RecordsHead'
      BY <2>1, <2>4, <2>5, <2>6 DEF RecordsHead
    <2> QED  BY <1>1, <1>2, <1>3, <1>5, <2>7 DEF Initializes, connect
  <1>6. ASSUME NEW bad \in SUBSET Boards, NEW measured \in BOOLEAN,
          connect(TRUE), named' = TRUE, total' = N,
          hw' = IF measured /\ \A d \in Boards : hw[d].clock = Good
                THEN [d \in Boards |-> [hw[d] EXCEPT !.info = 0]] ELSE hw,
          table' = Answer(N - 1, "other"),
          Smooth \/ Fault,
          LET found == [d \in Known |-> IF d \in Boards THEN Found(d, bad, measured) ELSE NoEntry] IN
          job' = [i \in 1..N |-> [do |-> "absorb", d |-> i - 1, e |-> found[i - 1]]]
                 \o <<[do |-> "result", boards |-> found]>> \o _persist_status
        PROVE  Initializes
    <2>1. hw' \in Racks /\ \A d \in Boards, k \in Told : hw'[d][k] = hw[d][k]
      <3>1. PICK o : o = [d \in Boards |-> [hw[d] EXCEPT !.info = 0]]
        OBVIOUS
      <3>2. o \in Racks /\ \A d \in Boards, k \in Told : o[d][k] = hw[d][k]
        BY <1>2, <3>1, Constants DEF Racks, Board, Told
      <3> QED  BY <1>2, <1>6, <3>1, <3>2
    <2>2. table' \in Table
      <3>1. N - 1 \in Boards
        BY Constants DEF Boards
      <3> QED  BY <1>2, <1>6, <3>1, AnswerInTable DEF Racks
    <2>3. PICK found : found = [d \in Known |-> IF d \in Boards THEN Found(d, bad, measured) ELSE NoEntry]
      OBVIOUS
    <2>4. \A d \in Boards : Found(d, bad, measured) \in FoundEntry
      <3>1. TAKE d \in Boards
      <3>2. <<d, hw'[d].info>> \in Filed /\ hw[d].clock \in Noted /\ None \in Noted
        BY <1>2, <2>1 DEF Racks, Board, Filed, Noted
      <3>3. PICK x, y : x = <<d, hw'[d].info>> /\ y = IF measured THEN hw[d].clock ELSE None
        OBVIOUS
      <3>4. Found(d, bad, measured) = IF d \in bad THEN ErrorEntry ELSE FoundAt(x, y)
        BY <3>3 DEF Found, FoundAt
      <3>5. x \in Filed /\ y \in Noted
        BY <3>2, <3>3
      <3> QED  BY <3>4, <3>5, FoundIn
    <2>5. found \in Caches /\ \A d \in Boards : found[d] \in FoundEntry
      BY <2>3, <2>4, NoEntries, Constants DEF Caches, FoundEntry
    <2>6. PICK q : q = [i \in 1..N |-> [do |-> "absorb", d |-> i - 1, e |-> found[i - 1]]]
                       \o <<[do |-> "result", boards |-> found]>> \o _persist_status
      OBVIOUS
    <2>7. PICK r : r = req /\ r.name \notin Answered
      BY <1>1
    <2>8. Grammar(q, r) /\ q # <<>> /\ Head(q).do # "record"
      BY <2>5, <2>6, <2>7, AbsorbGrammar
    <2>9. job' = q
      BY <1>6, <2>3, <2>6
    <2>10. Grammar(job', req) /\ ~RecordsHead'
      BY <2>7, <2>8, <2>9 DEF RecordsHead
    <2> QED  BY <1>1, <1>3, <1>6, <2>1, <2>2, <2>10 DEF Initializes, connect
  <1>7. CASE \E bad \in SUBSET Boards, measured \in BOOLEAN :
          /\ connect(TRUE) /\ named' = TRUE /\ total' = N
          /\ LET done == measured /\ \A d \in Boards : hw[d].clock = Good IN
             hw' = IF done THEN [d \in Boards |-> [hw[d] EXCEPT !.info = 0]] ELSE hw
          /\ table' = Answer(N - 1, "other")
          /\ IF measured THEN bad = {} /\ Smooth ELSE Fault
          /\ LET found == [d \in Known |-> IF d \in Boards THEN Found(d, bad, measured) ELSE NoEntry] IN
             job' = [i \in 1..N |-> [do |-> "absorb", d |-> i - 1, e |-> found[i - 1]]]
                    \o <<[do |-> "result", boards |-> found]>> \o _persist_status
    <2>1. PICK bad \in SUBSET Boards, measured \in BOOLEAN :
          /\ connect(TRUE) /\ named' = TRUE /\ total' = N
          /\ hw' = IF measured /\ \A d \in Boards : hw[d].clock = Good
                   THEN [d \in Boards |-> [hw[d] EXCEPT !.info = 0]] ELSE hw
          /\ table' = Answer(N - 1, "other")
          /\ IF measured THEN bad = {} /\ Smooth ELSE Fault
          /\ LET found == [d \in Known |-> IF d \in Boards THEN Found(d, bad, measured) ELSE NoEntry] IN
             job' = [i \in 1..N |-> [do |-> "absorb", d |-> i - 1, e |-> found[i - 1]]]
                    \o <<[do |-> "result", boards |-> found]>> \o _persist_status
      BY <1>7, Zenon
    <2>2. Smooth \/ Fault
      BY <2>1
    <2> QED  BY <2>1, <2>2, <1>6
  <1> QED  BY <1>4, <1>5, <1>7 DEF RunInit

-----------------------------------------------------------------------------
(* The invariant holds, and with it what the runs check.                   *)

LEMMA QueriesKeep ==
    ASSUME IInv, Consult \/ Reread \/ Regroup \/ Measure \/ PassOver \/ AskBoard \/ Absorb
    PROVE  IInv'
  <1>1. Query /\ Repaired'
    BY ConsultStep, RereadStep, RegroupStep, MeasureStep, PassOverStep, AskBoardStep, AbsorbStep
  <1>2. Rest'
    BY <1>1, QueryKeeps
  <1> QED  BY <1>1, <1>2 DEF Rest, IInv

LEMMA InitKeeps == Init => IInv
  <1> SUFFICES ASSUME Init PROVE IInv
    OBVIOUS
  <1>1. job = <<>> /\ srv = "down" /\ cache = Empty /\ file = Empty /\ kept = Torn
    BY DEF Init
  <1>2. Empty \in Caches /\ Empty # Torn /\ \A d \in Boards, k \in Told : Empty[d][k] = None
    BY Constants, NoEntries DEF Empty, Keys, _STICKY_KEYS
  <1>3. Types
    <2>1. hw \in [Boards -> Board]
      BY Constants DEF Init, PowerOn, Board, Good
    <2>2. table \in Table /\ req \in Requests
      BY Constants DEF Init, Table, Requests, Names
    <2>3. page \in [Viewers -> Caches] /\ sub \in [Viewers -> {"off", "queued", "live"}]
          /\ \A v \in Viewers : sub[v] = "off" /\ inbox[v] = <<>>
      BY <1>2 DEF Init
    <2>4. inbox \in [Viewers -> Seq(Events)]
      <3>1. <<>> \in Seq(Events)
        OBVIOUS
      <3> QED  BY <3>1 DEF Init
    <2>5. requests \in 0..MaxRequests /\ faults \in 0..MaxFaults /\ unsure \subseteq Boards \X Told
      BY Constants DEF Init
    <2>6. named = FALSE /\ total = 0 /\ usb = FALSE
      BY DEF Init
    <2>7. TypeOK
      BY <1>1, <1>2, <2>1, <2>2, <2>3, <2>5, <2>6 DEF TypeOK
    <2>8. Grammar(job, req)
      BY <1>1, EmptyGrammar
    <2> QED  BY <1>1, <2>2, <2>3, <2>4, <2>6, <2>7, <2>8 DEF Types
  <1>4. RecordDue /\ CacheTrue /\ FileTrue /\ FileCurrent /\ KeptComes /\ Repaired
    BY <1>1, <1>2 DEF RecordDue, RecordsHead, CacheTrue, FileTrue, FileCurrent, KeptComes, Repaired
  <1>5. PagesFollow
    BY DEF Init, PagesFollow
  <1> QED  BY <1>3, <1>4, <1>5 DEF IInv

LEMMA StutterKeeps == ASSUME IInv, UNCHANGED vars PROVE IInv'
  <1>1. UNCHANGED <<hw, named, total, table, usb, srv, cache, file, req, job, sub, inbox, page, requests,
                    faults, unsure, kept>>
    BY DEF vars, ring, web, history
  <1>2. Types'
    BY <1>1 DEF IInv, Types, TypeOK
  <1>3. Server'
    BY <1>1, ServerStill
  <1>4. PagesFollow'
    BY <1>1, PagesKept, PushStill DEF IInv, web
  <1> QED  BY <1>2, <1>3, <1>4 DEF IInv, Server

LEMMA StepKeeps == IInv /\ [Next]_vars => IInv'
  <1> SUFFICES ASSUME IInv, [Next]_vars PROVE IInv'
    OBVIOUS
  <1>1. CASE Route
    BY <1>1, RouteKeeps
  <1>2. CASE Work
    BY <1>2, CommandKeeps, QueriesKeep, RecordKeeps, PushKeeps, TruncateKeeps, DumpKeeps,
       AskMasterKeeps, RunInitIs, InitializesKeeps, ResultKeeps DEF Work
  <1>3. CASE Browse
    BY <1>3, SubscribeKeeps, SnapshotKeeps, DeliverKeeps DEF Browse
  <1>4. CASE Happens
    BY <1>4, CrashKeeps, StartKeeps, ServeKeeps, PowerCycleKeeps, ClockChangesKeeps DEF Happens
  <1>5. CASE UNCHANGED vars
    BY <1>5, StutterKeeps
  <1> QED  BY <1>1, <1>2, <1>3, <1>4, <1>5 DEF Next

\* app.py and its browsers never leave the invariant, whatever the interleaving of their steps.
THEOREM ConsoleStaysTrue == Spec => []IInv
  BY InitKeeps, StepKeeps, PTL DEF Spec

\* Every variable of the console keeps its type: in particular each entry of _status_cache has
\* the fields of an entry, whoever wrote it.
THEOREM ConsoleTypeCorrect == Spec => []TypeOK
  <1>1. IInv => TypeOK
    BY DEF IInv, Types
  <1> QED  BY <1>1, ConsoleStaysTrue, PTL

\* refresh_all_status leaves what the boards hold, if they answered (api_status_refresh, __main__).
THEOREM RefreshPutsRight == Spec => []RefreshRepairs
  <1>1. ASSUME IInv PROVE RefreshRepairs
    <2> SUFFICES ASSUME Idle, req.clean, req.name \in {"refresh", "startup"}, NEW d \in Boards
                 PROVE  /\ cache[d]["info"] = <<d, hw[d].info>> /\ cache[d]["group"] = <<d, hw[d].group>>
                        /\ cache[d]["ext_clk_freq_hz"] = hw[d].clock /\ cache[d]["error"] = None
      BY DEF RefreshRepairs
    <2>1. Members(job) = {} /\ srv # "down"
      BY EmptyGrammar DEF Idle
    <2>2. ~Coming("master") /\ \A x : ~ComingFor(x, d)
      BY <2>1 DEF Coming, ComingFor
    <2> QED  BY <1>1, <2>1, <2>2 DEF IInv, Repaired, Answered
  <1> QED  BY <1>1, ConsoleStaysTrue, PTL

\* A browser that has read its queue shows what _status_cache has (api_events, broadcast).
THEOREM PagesShowCache == Spec => []PagesAgree
  <1>1. ASSUME IInv PROVE PagesAgree
    <2> SUFFICES ASSUME NEW v \in Viewers, Idle, sub[v] = "live", inbox[v] = <<>>, NEW d \in Known,
                        page[v][d] # NoEntry, page[v][d]["error"] = None, NEW k \in PageKeys
                 PROVE  page[v][d][k] = cache[d][k]
      BY DEF PagesAgree, PageKeys
    <2>1. ~WillPush(d, k)
      BY NothingComes DEF Idle
    <2>2. UpToDate(v, d, k)
      BY <1>1, <2>1 DEF IInv, PagesFollow
    <2>3. Len(inbox[v]) = 0
      OBVIOUS
    <2>4. \A i \in 1..Len(inbox[v]) : FALSE
      BY <2>3
    <2> QED  BY <2>2, <2>4 DEF UpToDate, Shows
  <1> QED  BY <1>1, ConsoleStaysTrue, PTL

\* What _status_cache says of a setting that cannot be read back is what the board was told.
THEOREM RecordsAreTrue == Spec => []RecordsTrue
  <1>1. ASSUME IInv PROVE RecordsTrue
    <2>1. Idle => ~RecordsHead
      BY NothingComes DEF Idle
    <2> QED  BY <1>1, <2>1 DEF IInv, CacheTrue, RecordsTrue, Sure
  <1> QED  BY <1>1, ConsoleStaysTrue, PTL

\* What an idle process had recorded is there after the start (_load_status, _persist_status).
THEOREM RestartBringsBack == Spec => []RestartKeeps
  <1>1. IInv => RestartKeeps
    BY DEF IInv, KeptComes, SameTold, RestartKeeps, Idle
  <1> QED  BY <1>1, ConsoleStaysTrue, PTL
===============================================================================
