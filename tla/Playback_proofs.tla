---------------------------- MODULE Playback_proofs ----------------------------
(***************************************************************************)
(* What holds in every state of Playback, for any number of modules, slots *)
(* and bursts, any layouts of the waveforms and any mixture of requests,   *)
(* failures and triggers: a module that is on plays the waveforms of one   *)
(* request, whole and in order; a Stop that did not fail leaves every module *)
(* on the zeroes it armed; and what an undisturbed rotation counts down is *)
(* the duration of the set its modules play.                               *)
(*                                                                         *)
(* The invariant that is inductive, IInv, says what is true between any two *)
(* packets: what a request still has to send tells what it has done so far *)
(* (Requested), a module that is on plays a list that is whole (Players), a *)
(* Stop is on its way to silence (Stopping), and the scheduler of a rotation *)
(* counts in step with its players (Round).                                *)
(***************************************************************************)
EXTENDS Playback, WellFoundedInduction, SequenceTheorems, TLAPS

\* The modules an arm function is called with, and the lengths each of them is given.
Coverings == Covers \cup {Modules}
Lengths == Layouts \cup {<<len>> : len \in Lens} \cup {<<len, len>> : len \in Lens}
Zeroes == [m \in Modules |-> <<1, 1>>]
Sized(S, lens) == \A m \in S : Len(lens[m]) = n_groups

-----------------------------------------------------------------------------
(* The packets of a request.                                               *)

Steps(what, S, lens) == UNION {{Step(what, m, lens[m], i) : i \in 0..(Len(lens[m]) - 1)} : m \in S}
Fires(groups) == [do |-> "trigger", groups |-> groups]
Group(S, g) == [do |-> "group", modules |-> S, group |-> g]
NoSched == [do |-> "sched", slot |-> 0, depth |-> 0, run |-> FALSE, modules |-> {}, groups |-> {},
            intv |-> None]
Interval(k, long) == [set |-> IF k = 0 THEN n_groups - 1 ELSE k - 1, long |-> long]
Sched(S, k, long) ==
    [do |-> "sched", slot |-> k, depth |-> n_groups, run |-> k = n_groups - 1, modules |-> S,
     groups |-> {1}, intv |-> Interval(k, long)]

Packets(S, lens) ==
    {Off, Play(S, lens), NoSched} \cup Steps("wave", S, lens) \cup Steps("list", S, lens)
    \cup {Mode(T, v) : T \in Coverings, v \in {"ddr", "sine"}}
    \cup {Fires(groups) : groups \in SUBSET Groups}
    \cup {Group(T, g) : T \in Coverings, g \in Groups}
    \cup {Sched(S, k, long) : k \in 0..(n_groups - 1), long \in BOOLEAN}

\* Their order in a request.  The writes may come in any order, but that a slot is not listed
\* before its waveform is stored.
Rank(p) ==
    CASE p.do = "sched" /\ p.depth = 0 -> 0
      [] p.do = "mode" -> 1
      [] p.do = "off" -> 2
      [] p.do \in {"wave", "list"} -> 3
      [] p.do = "play" -> 4
      [] p.do \in {"trigger", "group"} -> 5
      [] p.do = "sched" /\ p.depth # 0 -> 6 + p.slot
Before(p, q) ==
    \/ Rank(p) < Rank(q)
    \/ /\ Rank(p) = 3 /\ Rank(q) = 3
       /\ ~(p.do = "list" /\ q.do = "wave" /\ p.m = q.m /\ p.slot = q.slot)
Ordered(s) == \A i, j \in 1..Len(s) : i < j => Before(s[i], s[j])

-----------------------------------------------------------------------------
(* The request that is under way.                                          *)

AllOff == \A m \in Modules : ~on[m]
Pending(p) == p \in Range(job)

Slot(m, lens, i) == [addr |-> _module_base_addr(m) + Begins(lens)[i], len |-> lens[i + 1]]
Holds(m, serial, slot, i) ==
    slot \in Entry /\ \A a \in Bursts(slot.addr, slot.len) : mem[a] = <<serial, m, i>>
Written(m, lens, i) ==
    /\ Slot(m, lens, i).addr + Slot(m, lens, i).len <= _module_base_addr(m) + Region
    /\ Holds(m, req.serial, Slot(m, lens, i), i)

\* Nothing is written while a module is on, and before play every waveform has been stored
\* and listed, or will be.
Writing(S, lens) ==
    /\ \A p \in Range(job) : Rank(p) \in {3, 4} => (AllOff \/ Pending(Off)) /\ Pending(Play(S, lens))
    /\ Pending(Play(S, lens)) => \A m \in S : \A i \in 0..(Len(lens[m]) - 1) :
        /\ Pending(Step("wave", m, lens[m], i)) \/ Written(m, lens[m], i)
        /\ Pending(Step("list", m, lens[m], i)) \/ list[m][i] = Slot(m, lens[m], i)

\* A rotation is set up after its modules are, entry by entry.
Rotating(S, lens) ==
    \A k \in 0..(n_groups - 1), long \in BOOLEAN : Pending(Sched(S, k, long)) =>
        /\ Sized(S, lens) /\ Pending(Sched(S, n_groups - 1, long)) /\ ~Pending(NoSched)
        /\ \A p \in Range(job) : Rank(p) >= 5 =>
            p = Group(S, 1) \/ \E e \in 0..(n_groups - 1) : p = Sched(S, e, long)
        /\ IF Pending(Off) THEN Pending(Play(S, lens)) ELSE rot = NoRotation
        /\ Pending(Play(S, lens)) \/ \A m \in S : on[m] /\ armed[m].n = n_groups
        /\ Pending(Group(S, 1)) \/ \A m \in S : gid[m] = 1
        /\ \A e \in 0..(n_groups - 1) :
            Pending(Sched(S, e, long)) \/ (sched.intv[e] = Interval(e, long) /\ sched.group[e] = {1})

Request(S, lens) ==
    /\ job \in Seq(Packets(S, lens)) /\ Ordered(job)
    /\ Writing(S, lens) /\ Rotating(S, lens)
Requested == \E S \in Coverings : \E lens \in [S -> Lengths] : Request(S, lens)

\* A Stop that has not failed.
Stopping ==
    req.name = "stop" /\ ~req.failed =>
        /\ Pending(NoSched) \/ ~sched.running
        /\ \A p \in Range(job) : Rank(p) <= 5
        /\ IF Pending(Play(Modules, Zeroes)) THEN Pending(All)
           ELSE ~Pending(Off) /\ \A m \in Modules : on[m] /\ armed[m].serial = req.serial
        /\ Pending(All) \/ \A m \in Modules : play_pos[m] >= 0
        /\ ~req.joined =>
            /\ Pending(NoSched) => Pending(Mode(Modules, "ddr"))
            /\ \/ Pending(Mode(Modules, "ddr")) /\ Pending(All)
                  /\ \A p \in Range(job) : Rank(p) = 1 => p = Mode(Modules, "ddr")
               \/ /\ \A p \in Range(job) : Rank(p) # 1
                  /\ \/ Pending(All) /\ \A m \in Modules : idle[m] = "ddr"
                     \/ job = <<>> /\ \A m \in Modules : active[m] = "ddr"

-----------------------------------------------------------------------------
(* The players and the scheduler.                                          *)

Succ(i, n) == IF i = n - 1 THEN 0 ELSE i + 1
Pred(i, n) == IF i = 0 THEN n - 1 ELSE i - 1

Resting(m) == fsm[m] = "idle" /\ cur[m] = 0 /\ play_pos[m] = -1
Playing(m) ==
    LET n == armed[m].n IN
    /\ n \in 1..MaxSlots /\ depth[m] = n % MaxSlots
    /\ \A i \in 0..(n - 1) : Holds(m, armed[m].serial, list[m][i], i)
    /\ cur[m] \in 0..(n - 1) /\ next[m] = Succ(cur[m], n)
    /\ fsm[m] # "idle"
    /\ fsm[m] = "running" => loads[m] = list[m][cur[m]]
    /\ fsm[m] = "refill" => play_pos[m] >= 0
    /\ play_pos[m] = -1 => cur[m] = 0
    /\ play_pos[m] >= 0 => /\ shows[m] = list[m][Pred(cur[m], n)]
                           /\ n < MaxSlots => play_pos[m] = Pred(cur[m], n)
Players == \A m \in Modules : IF on[m] THEN Playing(m) ELSE Resting(m)

\* An undisturbed rotation.
Round ==
    isMaster /\ sched.running /\ rot.long /\ rot.modules # {} =>
        /\ rot.modules \subseteq Modules
        /\ sched.depth = n_groups /\ sched.idx \in 0..(n_groups - 1)
        /\ sched.left = Interval(sched.idx, TRUE)
        /\ \A e \in 0..(n_groups - 1) : sched.intv[e] = Interval(e, TRUE) /\ sched.group[e] = {1}
        /\ \A m \in rot.modules :
            /\ on[m] /\ armed[m].n = n_groups /\ gid[m] = 1
            /\ IF play_pos[m] = -1 THEN sched.idx = 0 ELSE play_pos[m] = Pred(sched.idx, n_groups)

Intervals == {None} \cup [set : 0..(n_groups - 1), long : BOOLEAN]
Types ==
    /\ TypeOK /\ DOMAIN loads = Modules
    /\ mem \in [Addresses -> {None} \cup (Nat \X Modules \X Slots)]
    /\ list \in [Modules -> [Slots -> {None} \cup Entry]]
    /\ sched \in [intv : [Slots -> Intervals], group : [Slots -> SUBSET Groups], depth : 0..MaxSlots,
                  running : BOOLEAN, idx : Slots, left : Intervals]
    /\ DOMAIN req = {"name", "serial", "failed", "joined"} /\ req.serial \in Nat
    /\ armed \in [Modules -> [serial : Nat, n : Nat]]
    /\ rot \in [modules : SUBSET Modules, long : BOOLEAN]

IInv == Types /\ Requested /\ Players /\ Stopping /\ Round

-----------------------------------------------------------------------------
(* Functions that are defined from their value before, and counting modulo n. *)

LEMMA NatInSet ==
    ASSUME NEW T, 0 \in T, \A n \in Nat : n \in T => n + 1 \in T
    PROVE  Nat \subseteq T
  <1> DEFINE R == OpToRel(<, Nat)
             U == Nat \ T
  <1>1. IsWellFoundedOn(R, Nat)
    BY NatLessThanWellFounded
  <1>2. \A x, y \in Nat : x < y => <<x, y>> \in R
    BY DEF OpToRel
  <1> HIDE DEF R
  <1>3. CASE U # {}
    <2>1. PICK x \in U : \A y \in U : ~ (<<y, x>> \in R)
      BY <1>1, <1>3, WFMin
    <2>2. x # 0 /\ x \in Nat
      BY <2>1
    <2>3. x - 1 \in Nat /\ (x - 1) + 1 = x /\ x - 1 < x
      BY <2>2
    <2>4. x - 1 \in T
      BY <1>2, <2>1, <2>2, <2>3
    <2>5. x \in T
      BY <2>3, <2>4
    <2> QED  BY <2>1, <2>5
  <1> QED  BY <1>3

\* A function that is defined from its value before exists.
Updates(X, N) == [1..N -> [X -> X]]
Iterated(g, X, b, N, F) ==
    g \in [0..N -> X] /\ g[0] = b /\ \A i \in 1..N : g[i] = F[i][g[i - 1]]

LEMMA Iterates ==
    ASSUME NEW X, NEW b \in X, NEW N \in Nat, NEW F \in Updates(X, N)
    PROVE  \E g : Iterated(g, X, b, N, F)
  <1> DEFINE T == {n \in Nat : n <= N =>
                     \E g \in [0..n -> X] : g[0] = b /\ \A i \in 1..n : g[i] = F[i][g[i - 1]]}
  <1>1. 0 \in T
    <2> DEFINE g == [k \in 0..0 |-> b]
    <2>1. g \in [0..0 -> X] /\ g[0] = b /\ \A i \in 1..0 : g[i] = F[i][g[i - 1]]
      OBVIOUS
    <2> QED BY <2>1
  <1>2. ASSUME NEW n \in Nat, n \in T PROVE n + 1 \in T
    <2>1. CASE ~(n + 1 <= N) BY <2>1
    <2>2. CASE n + 1 <= N
      <3>1. PICK g \in [0..n -> X] : g[0] = b /\ \A i \in 1..n : g[i] = F[i][g[i - 1]]
        BY <1>2, <2>2
      <3>2. n + 1 \in 1..N /\ n \in 0..n /\ F[n + 1] \in [X -> X] /\ g[n] \in X
        BY <2>2, <3>1 DEF Updates
      <3> DEFINE h == [k \in 0..(n + 1) |-> IF k = n + 1 THEN F[n + 1][g[n]] ELSE g[k]]
      <3>3. h \in [0..(n + 1) -> X]
        BY <3>1, <3>2
      <3>4. h[0] = b
        BY <3>1
      <3>5. ASSUME NEW i \in 1..(n + 1) PROVE h[i] = F[i][h[i - 1]]
        <4>1. CASE i = n + 1
          <5>1. h[i] = F[n + 1][g[n]] /\ i - 1 = n /\ i - 1 \in 0..(n + 1) /\ i - 1 # n + 1
            BY <4>1
          <5>2. h[i - 1] = g[n] BY <5>1
          <5> QED BY <4>1, <5>1, <5>2
        <4>2. CASE i # n + 1
          <5>1. i \in 1..n /\ i - 1 \in 0..(n + 1) /\ i - 1 # n + 1 /\ i \in 0..(n + 1)
            BY <4>2
          <5>2. h[i] = g[i] /\ h[i - 1] = g[i - 1] BY <4>2, <5>1
          <5> QED BY <3>1, <5>1, <5>2
        <4> QED BY <4>1, <4>2
      <3> HIDE DEF h
      <3> QED BY <3>3, <3>4, <3>5
    <2> QED BY <2>1, <2>2
  <1>3. N \in T
    <2> HIDE DEF T
    <2> QED BY <1>1, <1>2, NatInSet
  <1> QED BY <1>3 DEF Iterated

\* Two ways to count modulo n.
LEMMA ModLess == ASSUME NEW n \in Nat \ {0}, NEW a \in 0..(n - 1) PROVE a % n = a
  OBVIOUS
LEMMA ModOver == ASSUME NEW n \in Nat \ {0}, NEW a \in n..(2 * n - 1) PROVE a % n = a - n
  OBVIOUS
LEMMA ModBound == ASSUME NEW n \in Nat \ {0}, NEW a \in Nat PROVE a % n \in 0..(n - 1)
  OBVIOUS

LEMMA BeginsRec ==
    ASSUME NEW lens \in Seq(Nat)
    PROVE /\ Begins(lens) \in [0..Len(lens) -> Nat] /\ Begins(lens)[0] = 0
          /\ \A k \in 1..Len(lens) : Begins(lens)[k] = Begins(lens)[k - 1] + lens[k] + Margin
  <1> DEFINE P(g) == g = [k \in 0..Len(lens) |-> IF k = 0 THEN 0 ELSE g[k - 1] + lens[k] + Margin]
             F == [k \in 1..Len(lens) |-> [x \in Nat |-> x + lens[k] + Margin]]
  <1>0. Len(lens) \in Nat /\ Margin \in Nat /\ \A k \in 1..Len(lens) : lens[k] \in Nat
    BY PlaybackAssumption DEF PlaybackAssumption
  <1>1. F \in [1..Len(lens) -> [Nat -> Nat]]
    BY <1>0
  <1>2. PICK g \in [0..Len(lens) -> Nat] : g[0] = 0 /\ \A k \in 1..Len(lens) : g[k] = F[k][g[k - 1]]
    <2>1. F \in Updates(Nat, Len(lens)) BY <1>1 DEF Updates
    <2> HIDE DEF F
    <2>2. \E g : Iterated(g, Nat, 0, Len(lens), F) BY <1>0, <2>1, Iterates
    <2> QED BY <2>2 DEF Iterated
  <1>3. ASSUME NEW k \in 1..Len(lens) PROVE g[k - 1] \in Nat
    <2>1. k - 1 \in 0..Len(lens) BY <1>0
    <2> QED BY <1>2, <2>1
  <1>4. \A k \in 1..Len(lens) : g[k] = g[k - 1] + lens[k] + Margin
    BY <1>2, <1>3
  <1>5. P(g)
    BY <1>0, <1>2, <1>4
  <1>6. Begins(lens) = CHOOSE f : P(f)
    BY DEF Begins
  <1>7. P(Begins(lens))
    BY <1>5, <1>6
  <1> DEFINE B == Begins(lens)
  <1>8. /\ DOMAIN B = 0..Len(lens) /\ B[0] = 0
        /\ \A k \in 1..Len(lens) : B[k] = B[k - 1] + lens[k] + Margin
    BY <1>0, <1>7
  <1> HIDE DEF B
  <1> DEFINE T == {n \in Nat : n <= Len(lens) => B[n] \in Nat}
  <1>9. 0 \in T BY <1>8
  <1>10. \A n \in Nat : n \in T => n + 1 \in T
    <2> SUFFICES ASSUME NEW n \in Nat, n \in T, n + 1 <= Len(lens) PROVE B[n + 1] \in Nat
      OBVIOUS
    <2>1. n + 1 \in 1..Len(lens) /\ (n + 1) - 1 = n /\ B[n] \in Nat
      BY <1>0
    <2>2. B[n + 1] = B[n] + lens[n + 1] + Margin
      BY <1>8, <2>1
    <2> QED BY <1>0, <2>1, <2>2
  <1>11. Nat \subseteq T
    <2> HIDE DEF T
    <2> QED BY <1>9, <1>10, NatInSet
  <1>12. \A k \in 0..Len(lens) : B[k] \in Nat
    BY <1>0, <1>11
  <1>13. B = [k \in 0..Len(lens) |-> B[k]]
    BY <1>7 DEF B
  <1>14. B \in [0..Len(lens) -> Nat]
    BY <1>12, <1>13
  <1> QED BY <1>8, <1>14 DEF B

-----------------------------------------------------------------------------
(* What a sequence of sequences holds when it is flattened.                *)

LEMMA RangeOf ==
    ASSUME NEW T, NEW s \in Seq(T), NEW x
    PROVE  x \in Range(s) <=> \E k \in 1..Len(s) : x = s[k]
  BY DEF Range

LEMMA ConcatRange ==
    ASSUME NEW T, NEW s \in Seq(T), NEW t \in Seq(T)
    PROVE  s \o t \in Seq(T) /\ Range(s \o t) = Range(s) \cup Range(t)
  <1>1. /\ s \o t \in Seq(T) /\ Len(s \o t) = Len(s) + Len(t)
        /\ \A k \in 1..(Len(s) + Len(t)) : (s \o t)[k] = IF k <= Len(s) THEN s[k] ELSE t[k - Len(s)]
    OBVIOUS
  <1>2. ASSUME NEW x \in Range(s \o t) PROVE x \in Range(s) \cup Range(t)
    <2>0. PICK k \in 1..Len(s \o t) : x = (s \o t)[k]
      BY <1>1, RangeOf
    <2>1. k \in 1..(Len(s) + Len(t)) /\ x = (s \o t)[k]
      BY <1>1, <2>0
    <2>2. CASE k <= Len(s)
      <3>1. k \in 1..Len(s) /\ x = s[k] BY <1>1, <2>1, <2>2
      <3> QED BY <3>1, RangeOf
    <2>3. CASE ~(k <= Len(s))
      <3>1. k - Len(s) \in 1..Len(t) /\ x = t[k - Len(s)] BY <1>1, <2>1, <2>3
      <3> QED BY <3>1, RangeOf
    <2> QED BY <2>2, <2>3
  <1>3. ASSUME NEW x \in Range(s) PROVE x \in Range(s \o t)
    <2>1. PICK k \in 1..Len(s) : x = s[k]
      BY RangeOf
    <2>2. k \in 1..Len(s \o t) /\ x = (s \o t)[k] BY <1>1, <2>1
    <2> QED BY <1>1, <2>2, RangeOf
  <1>4. ASSUME NEW x \in Range(t) PROVE x \in Range(s \o t)
    <2>1. PICK k \in 1..Len(t) : x = t[k]
      BY RangeOf
    <2>2. k + Len(s) \in 1..Len(s \o t) /\ (k + Len(s)) - Len(s) = k /\ ~(k + Len(s) <= Len(s))
      BY <1>1
    <2>3. (s \o t)[k + Len(s)] = t[k] BY <1>1, <2>2
    <2> QED BY <1>1, <2>1, <2>2, <2>3, RangeOf
  <1> QED BY <1>1, <1>2, <1>3, <1>4

LEMMA FlattenRec ==
    ASSUME NEW T, NEW ss \in Seq(Seq(T)), Len(ss) >= 1
    PROVE  \E f \in [1..Len(ss) -> Seq(T)] :
             /\ FlattenSeq(ss) = f[Len(ss)] /\ f[1] = ss[1]
             /\ \A i \in 2..Len(ss) : f[i] = f[i - 1] \o ss[i]
  <1> DEFINE N == Len(ss)
             P(f) == f = [i \in 1..N |-> IF i = 1 THEN ss[i] ELSE f[i - 1] \o ss[i]]
             F == [i \in 1..(N - 1) |-> [x \in Seq(T) |-> x \o ss[i + 1]]]
  <1>0. N \in Nat /\ N - 1 \in Nat /\ \A k \in 1..N : ss[k] \in Seq(T)
    OBVIOUS
  <1>1. F \in Updates(Seq(T), N - 1)
    <2>1. ASSUME NEW i \in 1..(N - 1), NEW x \in Seq(T) PROVE x \o ss[i + 1] \in Seq(T)
      <3>1. ss[i + 1] \in Seq(T) BY <1>0
      <3> QED BY <3>1
    <2> QED BY <2>1 DEF Updates
  <1>2. PICK g : Iterated(g, Seq(T), ss[1], N - 1, F)
    <2>1. ss[1] \in Seq(T) BY <1>0
    <2> HIDE DEF F, N
    <2> QED BY <1>0, <1>1, <2>1, Iterates
  <1> DEFINE h == [i \in 1..N |-> g[i - 1]]
  <1>3. ASSUME NEW i \in 1..N PROVE g[i - 1] \in Seq(T)
    <2>1. i - 1 \in 0..(N - 1) BY <1>0
    <2> QED BY <1>2, <2>1 DEF Iterated
  <1>4. h \in [1..N -> Seq(T)] BY <1>3
  <1>5. h[1] = ss[1]
    <2>1. h[1] = g[1 - 1] /\ 1 - 1 = 0 BY <1>0
    <2> QED BY <1>2, <2>1 DEF Iterated
  <1>6. ASSUME NEW i \in 2..N PROVE h[i] = h[i - 1] \o ss[i]
    <2>1. i - 1 \in 1..(N - 1) /\ i - 1 \in 1..N /\ i \in 1..N /\ (i - 1) + 1 = i BY <1>0
    <2>2. g[i - 1] = F[i - 1][g[(i - 1) - 1]] BY <1>2, <2>1 DEF Iterated
    <2>3. g[(i - 1) - 1] \in Seq(T) BY <1>3, <2>1
    <2>4. F[i - 1][g[(i - 1) - 1]] = g[(i - 1) - 1] \o ss[i] BY <2>1, <2>3
    <2>5. h[i] = g[i - 1] /\ h[i - 1] = g[(i - 1) - 1] BY <2>1
    <2> QED BY <2>2, <2>4, <2>5
  <1>7. P(h)
    <2>1. ASSUME NEW i \in 1..N PROVE h[i] = IF i = 1 THEN ss[i] ELSE h[i - 1] \o ss[i]
      <3>1. i = 1 \/ i \in 2..N BY <1>0
      <3> HIDE DEF h
      <3> QED BY <1>5, <1>6, <3>1
    <2>2. h = [i \in 1..N |-> h[i]] OBVIOUS
    <2> HIDE DEF h
    <2> QED BY <2>1, <2>2
  <1>8. P(CHOOSE f : P(f))
    <2> HIDE DEF h, P
    <2> QED BY <1>7
  <1>9. PICK f : f = CHOOSE c : P(c) OBVIOUS
  <1>10. P(f) BY <1>8, <1>9
  <1>11. FlattenSeq(ss) = f[N]
    BY <1>0, <1>9 DEF FlattenSeq
  <1>12. DOMAIN f = 1..N /\ \A i \in 1..N : f[i] = IF i = 1 THEN ss[i] ELSE f[i - 1] \o ss[i]
    BY <1>10
  <1>13. f[1] = ss[1] /\ \A i \in 2..N : f[i] = f[i - 1] \o ss[i]
    <2>1. 1 \in 1..N /\ \A i \in 2..N : i \in 1..N /\ i # 1 BY <1>0
    <2> HIDE DEF N
    <2> QED BY <1>12, <2>1
  <1> DEFINE U == {n \in Nat : n + 1 <= N => f[n + 1] \in Seq(T)}
  <1>14. 0 \in U BY <1>0, <1>13
  <1>15. ASSUME NEW n \in Nat, n \in U PROVE n + 1 \in U
    <2> SUFFICES ASSUME (n + 1) + 1 <= N PROVE f[(n + 1) + 1] \in Seq(T)
      OBVIOUS
    <2>1. (n + 1) + 1 \in 2..N /\ ((n + 1) + 1) - 1 = n + 1 /\ n + 1 <= N BY <1>0
    <2>2. f[n + 1] \in Seq(T) /\ ss[(n + 1) + 1] \in Seq(T) BY <1>0, <1>15, <2>1
    <2>3. f[(n + 1) + 1] = f[n + 1] \o ss[(n + 1) + 1] BY <1>13, <2>1
    <2> QED BY <2>2, <2>3
  <1>16. Nat \subseteq U
    <2> HIDE DEF U
    <2> QED BY <1>14, <1>15, NatInSet
  <1>17. ASSUME NEW i \in 1..N PROVE f[i] \in Seq(T)
    <2>1. i - 1 \in Nat /\ (i - 1) + 1 = i /\ i <= N BY <1>0
    <2>2. i - 1 \in U
      <3> HIDE DEF U
      <3> QED BY <1>16, <2>1
    <2> QED BY <2>1, <2>2
  <1>18. f \in [1..N -> Seq(T)] BY <1>10, <1>12, <1>17
  <1> QED BY <1>11, <1>13, <1>18

\* The elements of a concatenation are those of its parts.
LEMMA FlattenRange ==
    ASSUME NEW T, NEW ss \in Seq(Seq(T)), Len(ss) >= 1
    PROVE  /\ FlattenSeq(ss) \in Seq(T)
           /\ \A x : x \in Range(FlattenSeq(ss)) <=> \E k \in 1..Len(ss) : x \in Range(ss[k])
  <1> DEFINE N == Len(ss)
  <1>0. N \in Nat /\ N >= 1 /\ \A k \in 1..N : ss[k] \in Seq(T)
    OBVIOUS
  <1>1. PICK f \in [1..N -> Seq(T)] :
             /\ FlattenSeq(ss) = f[N] /\ f[1] = ss[1]
             /\ \A i \in 2..N : f[i] = f[i - 1] \o ss[i]
    BY FlattenRec
  <1> HIDE DEF N
  <1> DEFINE Has(n, x) == \E k \in 1..n : x \in Range(ss[k])
             U == {n \in Nat : n + 1 <= N => \A x : x \in Range(f[n + 1]) <=> Has(n + 1, x)}
  <1>2. 0 \in U
    <2>1. 0 + 1 = 1 OBVIOUS
    <2>2. \A x : x \in Range(f[1]) <=> Has(1, x) BY <1>1
    <2> HIDE DEF Has
    <2> QED BY <2>1, <2>2
  <1>3. ASSUME NEW n \in Nat, n \in U PROVE n + 1 \in U
    <2> SUFFICES ASSUME (n + 1) + 1 <= N, NEW x
                 PROVE x \in Range(f[(n + 1) + 1]) <=> Has((n + 1) + 1, x)
      OBVIOUS
    <2>1. /\ (n + 1) + 1 \in 2..N /\ ((n + 1) + 1) - 1 = n + 1 /\ n + 1 <= N
          /\ n + 1 \in 1..N /\ (n + 1) + 1 \in 1..N
      BY <1>0
    <2>2. f[n + 1] \in Seq(T) /\ ss[(n + 1) + 1] \in Seq(T) BY <1>0, <1>1, <2>1
    <2>3. f[(n + 1) + 1] = f[n + 1] \o ss[(n + 1) + 1] BY <1>1, <2>1
    <2>4. Range(f[(n + 1) + 1]) = Range(f[n + 1]) \cup Range(ss[(n + 1) + 1])
      BY <2>2, <2>3, ConcatRange
    <2>5. x \in Range(f[n + 1]) <=> Has(n + 1, x) BY <1>3, <2>1
    <2>6. 1..((n + 1) + 1) = (1..(n + 1)) \cup {(n + 1) + 1} OBVIOUS
    <2>7. Has((n + 1) + 1, x) <=> Has(n + 1, x) \/ x \in Range(ss[(n + 1) + 1])
      BY <2>6
    <2> QED BY <2>4, <2>5, <2>7
  <1>4. Nat \subseteq U
    <2> HIDE DEF U
    <2> QED BY <1>2, <1>3, NatInSet
  <1>5. N - 1 \in Nat /\ (N - 1) + 1 = N /\ N <= N BY <1>0
  <1>6. \A x : x \in Range(f[N]) <=> Has(N, x)
    <2>1. N - 1 \in U
      <3> HIDE DEF U
      <3> QED BY <1>4, <1>5
    <2> HIDE DEF Has
    <2> QED BY <1>5, <2>1
  <1>7. f[N] \in Seq(T) BY <1>0, <1>1
  <1> QED BY <1>1, <1>6, <1>7 DEF N

-----------------------------------------------------------------------------
(* The slots of a request: where they begin, and that they lie apart.      *)

LEMMA Sizes == /\ M \in Nat /\ M >= 1 /\ Region \in Nat /\ Region >= 1
               /\ MaxSlots \in Nat /\ MaxSlots >= 3 /\ Margin \in Nat
               /\ n_groups = MaxSlots - 1 /\ n_groups \in Nat /\ n_groups >= 2
  BY PlaybackAssumption DEF PlaybackAssumption, n_groups

LEMMA LensFacts == Lens \subseteq Nat \ {0} /\ 1 \in Lens
  <1>1. ASSUME NEW lens \in Layouts, NEW x \in Range(lens) PROVE x \in Nat \ {0}
    <2>1. lens \in Seq(Nat \ {0}) BY PlaybackAssumption DEF PlaybackAssumption
    <2>2. PICK k \in 1..Len(lens) : x = lens[k] BY <2>1, RangeOf
    <2> QED BY <2>1, <2>2
  <1>2. ASSUME NEW x \in Lens, x # 1 PROVE x \in Nat \ {0}
    <2>1. \E lens \in Layouts : x \in Range(lens) BY <1>2 DEF Lens
    <2> QED BY <1>1, <2>1
  <1>3. 1 \in Lens BY DEF Lens
  <1> QED BY <1>2, <1>3

LEMMA LengthsFacts ==
    ASSUME NEW lens \in Lengths
    PROVE  /\ lens \in Seq(Nat \ {0}) /\ lens \in Seq(Nat) /\ Len(lens) \in 1..MaxSlots
           /\ \A k \in 1..Len(lens) : lens[k] \in Lens /\ lens[k] \in Nat \ {0}
  <1>1. CASE lens \in Layouts
    <2>1. lens \in Seq(Nat \ {0}) /\ Len(lens) \in 2..MaxSlots
      BY <1>1, PlaybackAssumption DEF PlaybackAssumption
    <2>2. ASSUME NEW k \in 1..Len(lens) PROVE lens[k] \in Lens
      <3>1. lens[k] \in Range(lens) BY <2>1, RangeOf
      <3> QED BY <1>1, <3>1 DEF Lens
    <2> QED BY <2>1, <2>2, Sizes, LensFacts
  <1>2. ASSUME NEW len \in Lens, lens = <<len>>
        PROVE  /\ lens \in Seq(Nat \ {0}) /\ Len(lens) \in 1..MaxSlots
               /\ \A k \in 1..Len(lens) : lens[k] \in Lens
    BY <1>2, LensFacts, Sizes
  <1>3. ASSUME NEW len \in Lens, lens = <<len, len>>
        PROVE  /\ lens \in Seq(Nat \ {0}) /\ Len(lens) \in 1..MaxSlots
               /\ \A k \in 1..Len(lens) : lens[k] \in Lens
    BY <1>3, LensFacts, Sizes
  <1>4. /\ lens \in Seq(Nat \ {0}) /\ Len(lens) \in 1..MaxSlots
        /\ \A k \in 1..Len(lens) : lens[k] \in Lens
    BY <1>1, <1>2, <1>3 DEF Lengths
  <1> QED BY <1>4, LensFacts

\* The slots of a module follow each other.
LEMMA BeginsApart ==
    ASSUME NEW lens \in Seq(Nat), NEW i \in 0..(Len(lens) - 1), NEW j \in 0..(Len(lens) - 1), i < j
    PROVE  Begins(lens)[i] + lens[i + 1] <= Begins(lens)[j]
  <1>0. PICK B : B = Begins(lens) OBVIOUS
  <1>1. /\ B \in [0..Len(lens) -> Nat]
        /\ \A k \in 1..Len(lens) : B[k] = B[k - 1] + lens[k] + Margin
    BY <1>0, BeginsRec
  <1>2. Len(lens) \in Nat /\ \A k \in 1..Len(lens) : lens[k] \in Nat
    OBVIOUS
  <1> DEFINE U == {n \in Nat : i + 1 + n <= Len(lens) => B[i] + lens[i + 1] <= B[i + 1 + n]}
  <1>3. 0 \in U
    <2>1. i + 1 \in 1..Len(lens) /\ (i + 1) - 1 = i /\ i + 1 + 0 = i + 1 /\ i \in 0..Len(lens) BY <1>2
    <2>2. B[i + 1] = B[i] + lens[i + 1] + Margin BY <1>1, <2>1
    <2>3. B[i] \in Nat /\ lens[i + 1] \in Nat BY <1>1, <1>2, <2>1
    <2> QED BY <2>1, <2>2, <2>3, Sizes
  <1>4. ASSUME NEW n \in Nat, n \in U PROVE n + 1 \in U
    <2> SUFFICES ASSUME i + 1 + (n + 1) <= Len(lens)
                 PROVE B[i] + lens[i + 1] <= B[i + 1 + (n + 1)]
      OBVIOUS
    <2>1. PICK k \in Nat : k = i + 1 + n OBVIOUS
    <2>2. /\ i + 1 + (n + 1) = k + 1 /\ k + 1 \in 1..Len(lens) /\ (k + 1) - 1 = k /\ k \in 0..Len(lens)
          /\ i + 1 \in 1..Len(lens) /\ i \in 0..Len(lens)
      BY <1>2, <2>1
    <2>3. B[k + 1] = B[k] + lens[k + 1] + Margin BY <1>1, <2>2
    <2>4. /\ B[i] \in Nat /\ B[k] \in Nat /\ lens[i + 1] \in Nat /\ lens[k + 1] \in Nat
      BY <1>1, <1>2, <2>2
    <2>5. B[i] + lens[i + 1] <= B[k] BY <1>4, <2>1, <2>2
    <2>6. Margin \in Nat BY Sizes
    <2> HIDE DEF U
    <2>7. B[i] + lens[i + 1] <= B[k + 1] BY <2>3, <2>4, <2>5, <2>6
    <2> QED BY <2>2, <2>7
  <1>5. Nat \subseteq U
    <2> HIDE DEF U
    <2> QED BY <1>3, <1>4, NatInSet
  <1>6. j - (i + 1) \in Nat /\ i + 1 + (j - (i + 1)) = j BY <1>2
  <1>7. j - (i + 1) \in U
    <2> HIDE DEF U
    <2> QED BY <1>5, <1>6
  <1> QED BY <1>0, <1>2, <1>6, <1>7

LEMMA BaseFacts ==
    ASSUME NEW m \in Modules
    PROVE  _module_base_addr(m) \in Nat /\ _module_base_addr(m) + Region <= (M + 1) * Region
  <1>1. m \in Nat /\ m + 1 <= M + 1 BY Sizes DEF Modules
  <1>2. PICK d \in Nat : M + 1 = m + 1 + d BY <1>1, Sizes
  <1>3. (m + 1 + d) * Region = m * Region + Region + d * Region /\ d * Region \in Nat /\ m * Region \in Nat
    BY <1>1, Sizes
  <1> QED BY <1>2, <1>3, Sizes DEF _module_base_addr

\* The regions of the modules follow each other.
LEMMA RegionsApart ==
    ASSUME NEW m \in Modules, NEW k \in Modules, m < k
    PROVE  _module_base_addr(m) + Region <= _module_base_addr(k)
  <1>1. m \in Nat /\ k \in Nat BY Sizes DEF Modules
  <1>2. PICK d \in Nat : k = m + 1 + d BY <1>1
  <1>3. (m + 1 + d) * Region = m * Region + Region + d * Region /\ d * Region \in Nat /\ m * Region \in Nat
    BY <1>1, <1>2, Sizes
  <1> QED BY <1>2, <1>3, Sizes DEF _module_base_addr

Fits(m, lens, i) == Slot(m, lens, i).addr + Slot(m, lens, i).len <= _module_base_addr(m) + Region

LEMMA SlotFacts ==
    ASSUME NEW lens \in Lengths, NEW m \in Modules, NEW i \in 0..(Len(lens) - 1)
    PROVE  /\ Slot(m, lens, i).addr \in Nat /\ Slot(m, lens, i).len \in Lens
           /\ Slot(m, lens, i).len \in Nat \ {0}
           /\ Slot(m, lens, i).addr >= _module_base_addr(m)
           /\ Fits(m, lens, i) => Slot(m, lens, i) \in Entry
  <1>0. lens \in Seq(Nat) /\ Len(lens) \in Nat /\ i + 1 \in 1..Len(lens) /\ i \in 0..Len(lens)
    BY LengthsFacts
  <1>1. Begins(lens)[i] \in Nat BY <1>0, BeginsRec
  <1>2. lens[i + 1] \in Lens /\ lens[i + 1] \in Nat \ {0} BY <1>0, LengthsFacts
  <1>3. /\ Slot(m, lens, i).addr = _module_base_addr(m) + Begins(lens)[i]
        /\ Slot(m, lens, i).len = lens[i + 1]
    BY DEF Slot
  <1>4. /\ Slot(m, lens, i).addr \in Nat /\ Slot(m, lens, i).len \in Lens
        /\ Slot(m, lens, i).len \in Nat \ {0}
        /\ Slot(m, lens, i).addr >= _module_base_addr(m)
    BY <1>1, <1>2, <1>3, BaseFacts
  <1>5. ASSUME Fits(m, lens, i) PROVE Slot(m, lens, i) \in Entry
    <2>1. Slot(m, lens, i).addr + Slot(m, lens, i).len <= (M + 1) * Region
      BY <1>4, <1>5, BaseFacts, Sizes DEF Fits
    <2>2. (M + 1) * Region \in Nat BY Sizes
    <2>3. Slot(m, lens, i).addr \in Addresses BY <1>4, <2>1, <2>2 DEF Addresses
    <2> QED BY <1>3, <1>4, <2>3 DEF Entry, Slot
  <1> QED BY <1>4, <1>5

LEMMA Disjoint ==
    ASSUME NEW x \in Nat, NEW lx \in Nat, NEW y \in Nat, NEW ly \in Nat,
           x + lx <= y \/ y + ly <= x, NEW a \in Bursts(x, lx)
    PROVE  a \notin Bursts(y, ly)
  BY DEF Bursts

\* Two slots of a request have no burst in common.
LEMMA SlotsApart ==
    ASSUME NEW S \in SUBSET Modules, NEW lens \in [S -> Lengths], NEW m \in S, NEW k \in S,
           NEW i \in 0..(Len(lens[m]) - 1), NEW j \in 0..(Len(lens[k]) - 1),
           Fits(m, lens[m], i), Fits(k, lens[k], j), m # k \/ i # j,
           NEW a \in Bursts(Slot(m, lens[m], i).addr, Slot(m, lens[m], i).len)
    PROVE  a \notin Bursts(Slot(k, lens[k], j).addr, Slot(k, lens[k], j).len)
  <1>0. /\ m \in Modules /\ k \in Modules /\ lens[m] \in Lengths /\ lens[k] \in Lengths
        /\ lens[m] \in Seq(Nat) /\ Len(lens[m]) \in Nat /\ Len(lens[k]) \in Nat
    BY LengthsFacts
  <1>1. /\ Slot(m, lens[m], i).addr \in Nat /\ Slot(m, lens[m], i).len \in Nat
        /\ Slot(k, lens[k], j).addr \in Nat /\ Slot(k, lens[k], j).len \in Nat
        /\ Slot(m, lens[m], i).addr >= _module_base_addr(m)
        /\ Slot(k, lens[k], j).addr >= _module_base_addr(k)
    BY <1>0, SlotFacts
  <1>2. _module_base_addr(m) \in Nat /\ _module_base_addr(k) \in Nat BY <1>0, BaseFacts
  <1>3. m \in Int /\ k \in Int /\ i \in Int /\ j \in Int BY <1>0, Sizes DEF Modules
  <1>6. Slot(m, lens[m], i).addr + Slot(m, lens[m], i).len <= _module_base_addr(m) + Region
    BY DEF Fits
  <1>7. Slot(k, lens[k], j).addr + Slot(k, lens[k], j).len <= _module_base_addr(k) + Region
    BY DEF Fits
  <1>4. CASE m # k
    <2>1. m < k \/ k < m BY <1>3, <1>4
    <2>2. \/ _module_base_addr(m) + Region <= _module_base_addr(k)
          \/ _module_base_addr(k) + Region <= _module_base_addr(m)
      BY <1>0, <2>1, RegionsApart
    <2>3. \/ Slot(m, lens[m], i).addr + Slot(m, lens[m], i).len <= Slot(k, lens[k], j).addr
          \/ Slot(k, lens[k], j).addr + Slot(k, lens[k], j).len <= Slot(m, lens[m], i).addr
      BY <1>1, <1>2, <1>6, <1>7, <2>2, Sizes
    <2> QED BY <1>1, <2>3, Disjoint
  <1>5. CASE m = k
    <2>1. i < j \/ j < i BY <1>3, <1>5
    <2>2. PICK B : B = Begins(lens[m]) OBVIOUS
    <2>3. B \in [0..Len(lens[m]) -> Nat] BY <1>0, <2>2, BeginsRec
    <2>4. \/ B[i] + lens[m][i + 1] <= B[j]
          \/ B[j] + lens[m][j + 1] <= B[i]
      BY <1>0, <1>5, <2>1, <2>2, BeginsApart
    <2>5. /\ Slot(m, lens[m], i).addr = _module_base_addr(m) + B[i]
          /\ Slot(k, lens[k], j).addr = _module_base_addr(m) + B[j]
          /\ Slot(m, lens[m], i).len = lens[m][i + 1]
          /\ Slot(k, lens[k], j).len = lens[m][j + 1]
      BY <1>5, <2>2 DEF Slot
    <2>6. B[i] \in Nat /\ B[j] \in Nat /\ lens[m][i + 1] \in Nat /\ lens[m][j + 1] \in Nat
      <3>1. i \in 0..Len(lens[m]) /\ j \in 0..Len(lens[m]) BY <1>0, <1>5
      <3> QED BY <1>1, <2>3, <2>5, <3>1
    <2>7. \/ Slot(m, lens[m], i).addr + Slot(m, lens[m], i).len <= Slot(k, lens[k], j).addr
          \/ Slot(k, lens[k], j).addr + Slot(k, lens[k], j).len <= Slot(m, lens[m], i).addr
      <3>1. CASE B[i] + lens[m][i + 1] <= B[j]
        BY <1>2, <2>5, <2>6, <3>1
      <3>2. CASE B[j] + lens[m][j + 1] <= B[i]
        BY <1>2, <2>5, <2>6, <3>2
      <3> QED BY <2>4, <3>1, <3>2
    <2> QED BY <1>1, <2>7, Disjoint
  <1> QED BY <1>4, <1>5

-----------------------------------------------------------------------------
(* The order of the packets in a request.                                  *)

LEMMA TailFacts ==
    ASSUME NEW T, NEW s \in Seq(T), s # <<>>, Ordered(s)
    PROVE  /\ Head(s) \in T /\ Tail(s) \in Seq(T) /\ Ordered(Tail(s))
           /\ Range(s) = Range(Tail(s)) \cup {Head(s)}
           /\ \A q \in Range(Tail(s)) : Before(Head(s), q)
  <1> DEFINE t == Tail(s)
  <1>1. /\ t \in Seq(T) /\ Len(t) = Len(s) - 1 /\ Len(s) \in Nat /\ Len(s) >= 1
        /\ Head(s) = s[1] /\ Head(s) \in T
        /\ \A k \in 1..Len(t) : t[k] = s[k + 1]
    OBVIOUS
  <1> HIDE DEF t
  <1>2. Ordered(t)
    <2> SUFFICES ASSUME NEW i \in 1..Len(t), NEW j \in 1..Len(t), i < j PROVE Before(t[i], t[j])
      BY DEF Ordered
    <2>1. i + 1 \in 1..Len(s) /\ j + 1 \in 1..Len(s) /\ i + 1 < j + 1 BY <1>1
    <2>2. Before(s[i + 1], s[j + 1]) BY <2>1 DEF Ordered
    <2> QED BY <1>1, <2>2
  <1>3. ASSUME NEW q \in Range(t) PROVE Before(Head(s), q) /\ q \in Range(s)
    <2>1. PICK k \in 1..Len(t) : q = t[k] BY <1>1, RangeOf
    <2>2. k + 1 \in 1..Len(s) /\ 1 \in 1..Len(s) /\ 1 < k + 1 BY <1>1
    <2>3. Before(s[1], s[k + 1]) BY <2>2 DEF Ordered
    <2>4. s[k + 1] \in Range(s) BY <2>2, RangeOf
    <2> QED BY <1>1, <2>1, <2>3, <2>4
  <1>4. ASSUME NEW q \in Range(s) PROVE q \in Range(t) \cup {Head(s)}
    <2>1. PICK k \in 1..Len(s) : q = s[k] BY RangeOf
    <2>2. CASE k = 1 BY <1>1, <2>1, <2>2
    <2>3. CASE k # 1
      <3>1. k - 1 \in 1..Len(t) /\ (k - 1) + 1 = k BY <1>1, <2>3
      <3>2. t[k - 1] = q BY <1>1, <2>1, <3>1
      <3> QED BY <1>1, <3>1, <3>2, RangeOf
    <2> QED BY <2>2, <2>3
  <1>5. Head(s) \in Range(s)
    <2>1. 1 \in 1..Len(s) BY <1>1
    <2> QED BY <1>1, <2>1, RangeOf
  <1> QED BY <1>1, <1>2, <1>3, <1>4, <1>5 DEF t

LEMMA ConcatOrdered ==
    ASSUME NEW T, NEW s \in Seq(T), NEW t \in Seq(T), Ordered(s), Ordered(t),
           \A p \in Range(s), q \in Range(t) : Before(p, q)
    PROVE  Ordered(s \o t)
  <1>1. /\ Len(s \o t) = Len(s) + Len(t) /\ Len(s) \in Nat /\ Len(t) \in Nat
        /\ \A k \in 1..(Len(s) + Len(t)) : (s \o t)[k] = IF k <= Len(s) THEN s[k] ELSE t[k - Len(s)]
    OBVIOUS
  <1> SUFFICES ASSUME NEW i \in 1..Len(s \o t), NEW j \in 1..Len(s \o t), i < j
               PROVE Before((s \o t)[i], (s \o t)[j])
    BY DEF Ordered
  <1>2. i \in 1..(Len(s) + Len(t)) /\ j \in 1..(Len(s) + Len(t)) BY <1>1
  <1>3. CASE j <= Len(s)
    <2>1. i \in 1..Len(s) /\ j \in 1..Len(s) BY <1>1, <1>2, <1>3
    <2>2. Before(s[i], s[j]) BY <2>1 DEF Ordered
    <2> QED BY <1>1, <1>2, <2>1, <2>2
  <1>4. CASE ~(i <= Len(s))
    <2>1. /\ i - Len(s) \in 1..Len(t) /\ j - Len(s) \in 1..Len(t) /\ i - Len(s) < j - Len(s)
          /\ ~(j <= Len(s))
      BY <1>1, <1>2, <1>4
    <2>2. Before(t[i - Len(s)], t[j - Len(s)]) BY <2>1 DEF Ordered
    <2> QED BY <1>1, <1>2, <1>4, <2>1, <2>2
  <1>5. CASE i <= Len(s) /\ ~(j <= Len(s))
    <2>1. i \in 1..Len(s) /\ j - Len(s) \in 1..Len(t) BY <1>1, <1>2, <1>5
    <2>2. s[i] \in Range(s) /\ t[j - Len(s)] \in Range(t) BY <2>1, RangeOf
    <2> QED BY <1>1, <1>2, <1>5, <2>2
  <1> QED BY <1>1, <1>2, <1>3, <1>4, <1>5

LEMMA FlattenOrdered ==
    ASSUME NEW T, NEW ss \in Seq(Seq(T)), Len(ss) >= 1, \A k \in 1..Len(ss) : Ordered(ss[k]),
           \A k, l \in 1..Len(ss) : k < l => \A p \in Range(ss[k]), q \in Range(ss[l]) : Before(p, q)
    PROVE  Ordered(FlattenSeq(ss))
  <1> DEFINE N == Len(ss)
  <1>0. N \in Nat /\ N >= 1 /\ \A k \in 1..N : ss[k] \in Seq(T)
    OBVIOUS
  <1>1. PICK f \in [1..N -> Seq(T)] : /\ FlattenSeq(ss) = f[N] /\ f[1] = ss[1]
                                      /\ \A i \in 2..N : f[i] = f[i - 1] \o ss[i]
    BY FlattenRec
  <1> DEFINE U == {n \in Nat : n + 1 <= N => /\ Ordered(f[n + 1])
                                              /\ \A p \in Range(f[n + 1]) :
                                                   \E k \in 1..(n + 1) : p \in Range(ss[k])}
  <1>2. 0 \in U
    <2>1. 0 + 1 = 1 /\ 1 \in 1..N BY <1>0
    <2>2. Ordered(f[1]) BY <1>1, <2>1
    <2>3. \A p \in Range(f[1]) : \E k \in 1..1 : p \in Range(ss[k]) BY <1>1
    <2> HIDE DEF N
    <2> QED BY <2>1, <2>2, <2>3
  <1>3. ASSUME NEW n \in Nat, n \in U PROVE n + 1 \in U
    <2> SUFFICES ASSUME (n + 1) + 1 <= N
                 PROVE  /\ Ordered(f[(n + 1) + 1])
                        /\ \A p \in Range(f[(n + 1) + 1]) :
                             \E k \in 1..((n + 1) + 1) : p \in Range(ss[k])
      OBVIOUS
    <2>1. PICK i \in 2..N : i = (n + 1) + 1 /\ i - 1 = n + 1 /\ i - 1 \in 1..N /\ i \in 1..N
      BY <1>0
    <2>2. /\ Ordered(f[i - 1])
          /\ \A p \in Range(f[i - 1]) : \E k \in 1..(i - 1) : p \in Range(ss[k])
      BY <1>3, <2>1
    <2>3. f[i] = f[i - 1] \o ss[i] /\ f[i - 1] \in Seq(T) /\ ss[i] \in Seq(T) BY <1>0, <1>1, <2>1
    <2>4. ASSUME NEW p \in Range(f[i - 1]), NEW q \in Range(ss[i]) PROVE Before(p, q)
      <3>1. PICK k \in 1..(i - 1) : p \in Range(ss[k]) BY <2>2
      <3>2. k \in 1..N /\ k < i BY <2>1
      <3> QED BY <2>1, <3>1, <3>2
    <2>5. Ordered(ss[i]) BY <2>1
    <2>6. Ordered(f[i]) BY <2>2, <2>3, <2>4, <2>5, ConcatOrdered
    <2>7. Range(f[i]) = Range(f[i - 1]) \cup Range(ss[i]) BY <2>3, ConcatRange
    <2>8. ASSUME NEW p \in Range(f[i]) PROVE \E k \in 1..i : p \in Range(ss[k])
      <3>1. CASE p \in Range(f[i - 1])
        <4>1. PICK k \in 1..(i - 1) : p \in Range(ss[k]) BY <2>2, <3>1
        <4>2. k \in 1..i BY <2>1
        <4> QED BY <4>1, <4>2
      <3>2. CASE p \in Range(ss[i])
        <4>1. i \in 1..i BY <2>1
        <4> QED BY <3>2, <4>1
      <3> QED BY <2>7, <3>1, <3>2
    <2> QED BY <2>1, <2>6, <2>8
  <1>4. Nat \subseteq U
    <2> HIDE DEF U
    <2> QED BY <1>2, <1>3, NatInSet
  <1>5. N - 1 \in U
    <2>1. N - 1 \in Nat BY <1>0
    <2> HIDE DEF U
    <2> QED BY <1>4, <2>1
  <1>6. (N - 1) + 1 = N BY <1>0
  <1> QED BY <1>0, <1>1, <1>5, <1>6

LEMMA OneOrdered ==
    ASSUME NEW T, NEW p \in T
    PROVE  <<p>> \in Seq(T) /\ Range(<<p>>) = {p} /\ Ordered(<<p>>)
  BY DEF Range, Ordered

LEMMA WritesOrdered ==
    ASSUME NEW T, NEW s \in Seq(T), NEW what, \A p \in Range(s) : Rank(p) = 3 /\ p.do = what
    PROVE  Ordered(s)
  <1> SUFFICES ASSUME NEW i \in 1..Len(s), NEW j \in 1..Len(s), i < j PROVE Before(s[i], s[j])
    BY DEF Ordered
  <1>1. s[i] \in Range(s) /\ s[j] \in Range(s) BY RangeOf
  <1> QED BY <1>1 DEF Before

-----------------------------------------------------------------------------
LEMMA SchedRank ==
    ASSUME NEW S, NEW long, NEW k \in Nat PROVE Rank(Sched(S, k, long)) = 6 + k
  BY Sizes DEF Rank, Sched

LEMMA Ranks ==
    /\ Rank(Off) = 2 /\ Rank(NoSched) = 0
    /\ \A S, n : Rank(Play(S, n)) = 4
    /\ \A S, v : Rank(Mode(S, v)) = 1
    /\ \A m, lens, i : Rank(Step("wave", m, lens, i)) = 3 /\ Rank(Step("list", m, lens, i)) = 3
    /\ \A groups : Rank(Fires(groups)) = 5
    /\ \A S, g : Rank(Group(S, g)) = 5
  <1>1. Rank(Off) = 2 /\ Rank(NoSched) = 0
    BY DEF Rank, Off, NoSched
  <1>2. \A S, n : Rank(Play(S, n)) = 4
    BY DEF Rank, Play
  <1>3. \A S, v : Rank(Mode(S, v)) = 1
    BY DEF Rank, Mode
  <1>4. \A m, lens, i : Rank(Step("wave", m, lens, i)) = 3 /\ Rank(Step("list", m, lens, i)) = 3
    BY DEF Rank, Step
  <1>5. \A groups : Rank(Fires(groups)) = 5
    BY DEF Rank, Fires
  <1>6. \A S, g : Rank(Group(S, g)) = 5
    BY DEF Rank, Group
  <1> QED BY <1>1, <1>2, <1>3, <1>4, <1>5, <1>6

LEMMA Dos ==
    /\ Off.do = "off" /\ NoSched.do = "sched" /\ NoSched.depth = 0
    /\ \A S, n : Play(S, n).do = "play"
    /\ \A S, v : Mode(S, v).do = "mode"
    /\ \A what, m, lens, i : Step(what, m, lens, i).do = what
    /\ \A groups : Fires(groups).do = "trigger"
    /\ \A S, g : Group(S, g).do = "group"
    /\ \A S, k, long : Sched(S, k, long).do = "sched" /\ Sched(S, k, long).depth = n_groups
  BY DEF Off, NoSched, Play, Mode, Step, Fires, Group, Sched

LEMMA Kinds ==
    ASSUME NEW S, NEW lens, NEW p \in Packets(S, lens)
    PROVE  \/ p = Off \/ p = Play(S, lens) \/ p = NoSched
           \/ \E m \in S : \E i \in 0..(Len(lens[m]) - 1) : p = Step("wave", m, lens[m], i)
           \/ \E m \in S : \E i \in 0..(Len(lens[m]) - 1) : p = Step("list", m, lens[m], i)
           \/ \E T \in Coverings, v \in {"ddr", "sine"} : p = Mode(T, v)
           \/ \E groups \in SUBSET Groups : p = Fires(groups)
           \/ \E T \in Coverings, g \in Groups : p = Group(T, g)
           \/ \E k \in 0..(n_groups - 1), long \in BOOLEAN : p = Sched(S, k, long)
  BY DEF Packets, Steps

LEMMA KindsByDo ==
    ASSUME NEW S, NEW lens, NEW p \in Packets(S, lens)
    PROVE  /\ p.do = "off" => p = Off
           /\ p.do = "play" => p = Play(S, lens)
           /\ p.do = "wave" => \E m \in S : \E i \in 0..(Len(lens[m]) - 1) : p = Step("wave", m, lens[m], i)
           /\ p.do = "list" => \E m \in S : \E i \in 0..(Len(lens[m]) - 1) : p = Step("list", m, lens[m], i)
           /\ p.do = "mode" => \E T \in Coverings, v \in {"ddr", "sine"} : p = Mode(T, v)
           /\ p.do = "trigger" => \E groups \in SUBSET Groups : p = Fires(groups)
           /\ p.do = "group" => \E T \in Coverings, g \in Groups : p = Group(T, g)
           /\ p.do = "sched" => \/ p = NoSched
                                \/ \E k \in 0..(n_groups - 1), long \in BOOLEAN : p = Sched(S, k, long)
  <1>1. CASE p = Off
    <2>1. p.do = "off" BY <1>1 DEF Off
    <2> QED BY <1>1, <2>1
  <1>2. CASE p = Play(S, lens)
    <2>1. p.do = "play" BY <1>2 DEF Play
    <2> QED BY <1>2, <2>1
  <1>3. CASE p = NoSched
    <2>1. p.do = "sched" BY <1>3 DEF NoSched, Sched
    <2> QED BY <1>3, <2>1
  <1>4. CASE \E m \in S : \E i \in 0..(Len(lens[m]) - 1) : p = Step("wave", m, lens[m], i)
    <2>1. p.do = "wave" BY <1>4 DEF Step
    <2> QED BY <1>4, <2>1
  <1>5. CASE \E m \in S : \E i \in 0..(Len(lens[m]) - 1) : p = Step("list", m, lens[m], i)
    <2>1. p.do = "list" BY <1>5 DEF Step
    <2> QED BY <1>5, <2>1
  <1>6. CASE \E T \in Coverings, v \in {"ddr", "sine"} : p = Mode(T, v)
    <2>1. p.do = "mode" BY <1>6 DEF Mode
    <2> QED BY <1>6, <2>1
  <1>7. CASE \E groups \in SUBSET Groups : p = Fires(groups)
    <2>1. p.do = "trigger" BY <1>7 DEF Fires
    <2> QED BY <1>7, <2>1
  <1>8. CASE \E T \in Coverings, g \in Groups : p = Group(T, g)
    <2>1. p.do = "group" BY <1>8 DEF Group
    <2> QED BY <1>8, <2>1
  <1>9. CASE \E k \in 0..(n_groups - 1), long \in BOOLEAN : p = Sched(S, k, long)
    <2>1. p.do = "sched" BY <1>9 DEF NoSched, Sched
    <2> QED BY <1>9, <2>1
  <1> QED BY Kinds, <1>1, <1>2, <1>3, <1>4, <1>5, <1>6, <1>7, <1>8, <1>9

LEMMA KindsByRank ==
    ASSUME NEW S, NEW lens, NEW p \in Packets(S, lens)
    PROVE  /\ Rank(p) = 0 => p = NoSched
           /\ Rank(p) = 1 => \E T \in Coverings, v \in {"ddr", "sine"} : p = Mode(T, v)
           /\ Rank(p) = 2 => p = Off
           /\ Rank(p) = 3 => \E m \in S : \E i \in 0..(Len(lens[m]) - 1) :
                               p = Step("wave", m, lens[m], i) \/ p = Step("list", m, lens[m], i)
           /\ Rank(p) = 4 => p = Play(S, lens)
           /\ Rank(p) = 5 => \/ \E groups \in SUBSET Groups : p = Fires(groups)
                             \/ \E T \in Coverings, g \in Groups : p = Group(T, g)
           /\ Rank(p) > 5 => \E k \in 0..(n_groups - 1), long \in BOOLEAN : p = Sched(S, k, long)
           /\ Rank(p) \in Nat
  <1>1. CASE p = Off
    <2>1. Rank(p) = 2 BY <1>1, Ranks, Zenon
    <2> QED BY <1>1, <2>1
  <1>2. CASE p = Play(S, lens)
    <2>1. Rank(p) = 4 BY <1>2, Ranks, Zenon
    <2> QED BY <1>2, <2>1
  <1>3. CASE p = NoSched
    <2>1. Rank(p) = 0 BY <1>3, Ranks, Zenon
    <2> QED BY <1>3, <2>1
  <1>4. CASE \E m \in S : \E i \in 0..(Len(lens[m]) - 1) : p = Step("wave", m, lens[m], i)
    <2>1. Rank(p) = 3 BY <1>4, Ranks, Zenon
    <2> QED BY <1>4, <2>1
  <1>5. CASE \E m \in S : \E i \in 0..(Len(lens[m]) - 1) : p = Step("list", m, lens[m], i)
    <2>1. Rank(p) = 3 BY <1>5, Ranks, Zenon
    <2> QED BY <1>5, <2>1
  <1>6. CASE \E T \in Coverings, v \in {"ddr", "sine"} : p = Mode(T, v)
    <2>1. Rank(p) = 1 BY <1>6, Ranks, Zenon
    <2> QED BY <1>6, <2>1
  <1>7. CASE \E groups \in SUBSET Groups : p = Fires(groups)
    <2>1. Rank(p) = 5 BY <1>7, Ranks, Zenon
    <2> QED BY <1>7, <2>1
  <1>8. CASE \E T \in Coverings, g \in Groups : p = Group(T, g)
    <2>1. Rank(p) = 5 BY <1>8, Ranks, Zenon
    <2> QED BY <1>8, <2>1
  <1>9. CASE \E k \in 0..(n_groups - 1), long \in BOOLEAN : p = Sched(S, k, long)
    <2>1. Rank(p) \in Nat /\ Rank(p) > 5
      <3>1. PICK k \in 0..(n_groups - 1), long \in BOOLEAN : p = Sched(S, k, long) BY <1>9
      <3>2. k \in Nat BY Sizes
      <3>3. Rank(Sched(S, k, long)) = 6 + k BY <3>2, SchedRank
      <3> QED BY <3>1, <3>2, <3>3
    <2> QED BY <1>9, <2>1
  <1> QED BY Kinds, <1>1, <1>2, <1>3, <1>4, <1>5, <1>6, <1>7, <1>8, <1>9

-----------------------------------------------------------------------------
(* The packets of the arm functions: of each module, and of them all.      *)

\* The steps of the modules that a request covers, and no others.
LEMMA ForEachFacts ==
    ASSUME NEW T, NEW S \in SUBSET Modules, NEW steps \in [S -> Seq(T)]
    PROVE  /\ ForEach(steps) \in Seq(T)
           /\ \A x : x \in Range(ForEach(steps)) <=> \E m \in S : x \in Range(steps[m])
  <1> DEFINE ss == [k \in 1..M |-> IF k - 1 \in DOMAIN steps THEN steps[k - 1] ELSE <<>>]
  <1>0. DOMAIN steps = S /\ M \in Nat /\ M >= 1 BY Sizes
  <1>1. \A k \in 1..M : ss[k] = IF k - 1 \in S THEN steps[k - 1] ELSE <<>>
    BY <1>0
  <1>2. \A k \in 1..M : ss[k] \in Seq(T)
    BY <1>1
  <1>3. ss \in Seq(Seq(T)) /\ Len(ss) = M
    <2>1. ss \in [1..M -> Seq(T)] BY <1>2
    <2>2. DOMAIN ss = 1..M OBVIOUS
    <2> HIDE DEF ss
    <2> QED BY <1>0, <2>1, <2>2
  <1>4. ForEach(steps) = FlattenSeq(ss) BY DEF ForEach
  <1> HIDE DEF ss
  <1>5. /\ FlattenSeq(ss) \in Seq(T)
        /\ \A x : x \in Range(FlattenSeq(ss)) <=> \E k \in 1..M : x \in Range(ss[k])
    BY <1>0, <1>3, FlattenRange
  <1>6. ASSUME NEW x PROVE (\E k \in 1..M : x \in Range(ss[k])) <=> \E m \in S : x \in Range(steps[m])
    <2>1. ASSUME NEW k \in 1..M, x \in Range(ss[k]) PROVE \E m \in S : x \in Range(steps[m])
      <3>1. k - 1 \in S
        <4>1. CASE k - 1 \notin S
          <5>1. ss[k] = <<>> BY <1>1, <4>1
          <5>2. Range(<<>>) = {} BY DEF Range
          <5> QED BY <2>1, <5>1, <5>2
        <4> QED BY <4>1
      <3>2. x \in Range(steps[k - 1]) BY <1>1, <2>1, <3>1
      <3> QED BY <3>1, <3>2
    <2>2. ASSUME NEW m \in S, x \in Range(steps[m]) PROVE \E k \in 1..M : x \in Range(ss[k])
      <3>1. m + 1 \in 1..M /\ (m + 1) - 1 = m BY <1>0 DEF Modules
      <3>2. ss[m + 1] = steps[m] BY <1>1, <3>1
      <3> QED BY <2>2, <3>1, <3>2
    <2> QED BY <2>1, <2>2
  <1> QED BY <1>4, <1>5, <1>6

LEMMA ForEachOrdered ==
    ASSUME NEW T, NEW S \in SUBSET Modules, NEW steps \in [S -> Seq(T)], \A m \in S : Ordered(steps[m]),
           \A m, k \in S : m < k => \A p \in Range(steps[m]), q \in Range(steps[k]) : Before(p, q)
    PROVE  Ordered(ForEach(steps))
  <1> DEFINE ss == [k \in 1..M |-> IF k - 1 \in DOMAIN steps THEN steps[k - 1] ELSE <<>>]
  <1>0. DOMAIN steps = S /\ M \in Nat /\ M >= 1 BY Sizes
  <1>1. \A k \in 1..M : ss[k] = IF k - 1 \in S THEN steps[k - 1] ELSE <<>>
    BY <1>0
  <1>2. \A k \in 1..M : ss[k] \in Seq(T)
    BY <1>1
  <1>3. ss \in Seq(Seq(T)) /\ Len(ss) = M
    <2>1. ss \in [1..M -> Seq(T)] BY <1>2
    <2>2. DOMAIN ss = 1..M OBVIOUS
    <2> HIDE DEF ss
    <2> QED BY <1>0, <2>1, <2>2
  <1>4. ForEach(steps) = FlattenSeq(ss) BY DEF ForEach
  <1> HIDE DEF ss
  <1>5. Range(<<>>) = {} /\ Ordered(<<>>) BY DEF Range, Ordered
  <1>6. \A k \in 1..M : Ordered(ss[k]) BY <1>1, <1>5
  <1>7. ASSUME NEW k \in 1..M, NEW l \in 1..M, k < l, NEW p \in Range(ss[k]), NEW q \in Range(ss[l])
        PROVE  Before(p, q)
    <2>1. k - 1 \in S /\ p \in Range(steps[k - 1]) BY <1>1, <1>5
    <2>2. l - 1 \in S /\ q \in Range(steps[l - 1]) BY <1>1, <1>5
    <2>3. k - 1 < l - 1 BY <1>0, <1>7
    <2> QED BY <2>1, <2>2, <2>3
  <1>8. Ordered(FlattenSeq(ss)) BY <1>0, <1>3, <1>6, <1>7, FlattenOrdered
  <1> QED BY <1>4, <1>8

LEMMA StepPackets ==
    ASSUME NEW S, NEW lens, NEW what \in {"wave", "list"}
    PROVE  Steps(what, S, lens) \subseteq Packets(S, lens)
  BY DEF Packets

LEMMA EachRange ==
    ASSUME NEW lens \in Lengths, NEW what, NEW m, NEW x
    PROVE  x \in Range(Each(what, m, lens)) <=>
             \E i \in 0..(Len(lens) - 1) : x = Step(what, m, lens, i)
  <1>0. PICK n \in Nat : n = Len(lens) BY LengthsFacts
  <1>1. \A k \in 1..n : k - 1 \in 0..(n - 1) OBVIOUS
  <1>2. Each(what, m, lens) = [k \in 1..n |-> Step(what, m, lens, k - 1)]
    BY <1>0 DEF Each
  <1>3. x \in Range(Each(what, m, lens)) <=> \E k \in 1..n : x = Step(what, m, lens, k - 1)
    BY <1>2 DEF Range
  <1>4. ASSUME NEW i \in 0..(n - 1), x = Step(what, m, lens, i)
        PROVE \E k \in 1..n : x = Step(what, m, lens, k - 1)
    <2>1. i + 1 \in 1..n /\ (i + 1) - 1 = i OBVIOUS
    <2> QED BY <1>4, <2>1
  <1> QED BY <1>0, <1>1, <1>3, <1>4

LEMMA EachFacts ==
    ASSUME NEW S \in SUBSET Modules, NEW lens \in [S -> Lengths], NEW what, NEW m \in S
    PROVE  Each(what, m, lens[m]) \in Seq(Steps(what, S, lens))
  <1>0. PICK n \in Nat : n = Len(lens[m])
    <2>1. lens[m] \in Lengths OBVIOUS
    <2> QED BY <2>1, LengthsFacts
  <1>1. \A k \in 1..n : k - 1 \in 0..(n - 1) OBVIOUS
  <1>2. \A k \in 1..n : Step(what, m, lens[m], k - 1) \in Steps(what, S, lens)
    BY <1>0, <1>1 DEF Steps
  <1>3. Each(what, m, lens[m]) = [k \in 1..n |-> Step(what, m, lens[m], k - 1)]
    BY <1>0 DEF Each
  <1> QED BY <1>2, <1>3

LEMMA AllSteps ==
    ASSUME NEW S \in SUBSET Modules, NEW lens \in [S -> Lengths], NEW what \in {"wave", "list"}
    PROVE  /\ ForEach([m \in S |-> Each(what, m, lens[m])]) \in Seq(Packets(S, lens))
           /\ Range(ForEach([m \in S |-> Each(what, m, lens[m])])) = Steps(what, S, lens)
           /\ Ordered(ForEach([m \in S |-> Each(what, m, lens[m])]))
  <1> DEFINE steps == [m \in S |-> Each(what, m, lens[m])]
             T == Steps(what, S, lens)
             s == ForEach(steps)
  <1>1. steps \in [S -> Seq(T)] BY EachFacts
  <1>2. \A m \in S : steps[m] = Each(what, m, lens[m]) OBVIOUS
  <1>3. T \subseteq Packets(S, lens) BY StepPackets
  <1> HIDE DEF steps
  <1>4. /\ s \in Seq(T)
        /\ \A x : x \in Range(s) <=> \E m \in S : x \in Range(steps[m])
    <2> HIDE DEF T
    <2> QED BY <1>1, ForEachFacts
  <1>5. \A x : x \in Range(s) <=> \E m \in S : \E i \in 0..(Len(lens[m]) - 1) : x = Step(what, m, lens[m], i)
    <2> DEFINE Is(m, x) == \E i \in 0..(Len(lens[m]) - 1) : x = Step(what, m, lens[m], i)
    <2>1. ASSUME NEW m \in S PROVE \A x : x \in Range(steps[m]) <=> Is(m, x)
      <3>1. ASSUME NEW x PROVE x \in Range(Each(what, m, lens[m])) <=> Is(m, x)
        <4>1. lens[m] \in Lengths OBVIOUS
        <4> QED BY <4>1, EachRange
      <3>2. \A x : x \in Range(Each(what, m, lens[m])) <=> Is(m, x)
        BY <3>1
      <3> HIDE DEF Is
      <3> QED BY <1>2, <3>2
    <2>2. \A x : x \in Range(s) <=> \E m \in S : Is(m, x)
      <3> HIDE DEF s, Is
      <3> QED BY <1>4, <2>1
    <2> QED BY <2>2
  <1>6. Range(s) = T
    <2> HIDE DEF s
    <2> QED BY <1>5 DEF Steps
  <1>7. \A p \in Range(s) : Rank(p) = 3 /\ p.do = what
    BY <1>5, Ranks, Dos
  <1>8. s \in Seq(Packets(S, lens))
    <2> HIDE DEF s, T
    <2> QED BY <1>3, <1>4
  <1>9. Ordered(s)
    <2> HIDE DEF s
    <2> QED BY <1>7, <1>8, WritesOrdered
  <1> QED BY <1>6, <1>8, <1>9 DEF steps

\* Two parts of a request that follow each other.
LEMMA Glue ==
    ASSUME NEW T, NEW s \in Seq(T), NEW t \in Seq(T), Ordered(s), Ordered(t),
           \A p \in Range(s), q \in Range(t) : Before(p, q)
    PROVE  s \o t \in Seq(T) /\ Ordered(s \o t) /\ Range(s \o t) = Range(s) \cup Range(t)
  BY ConcatRange, ConcatOrdered

LEMMA GlueOne ==
    ASSUME NEW T, NEW s \in Seq(T), NEW q \in T, Ordered(s), \A p \in Range(s) : Before(p, q)
    PROVE  s \o <<q>> \in Seq(T) /\ Ordered(s \o <<q>>) /\ Range(s \o <<q>>) = Range(s) \cup {q}
  <1>1. <<q>> \in Seq(T) /\ Range(<<q>>) = {q} /\ Ordered(<<q>>) BY OneOrdered
  <1>2. PICK t : t = <<q>> OBVIOUS
  <1>3. t \in Seq(T) /\ Range(t) = {q} /\ Ordered(t) BY <1>1, <1>2
  <1>4. s \o t \in Seq(T) /\ Ordered(s \o t) /\ Range(s \o t) = Range(s) \cup Range(t)
    BY <1>3, Glue
  <1> QED BY <1>2, <1>3, <1>4

LEMMA OneGlue ==
    ASSUME NEW T, NEW p \in T, NEW t \in Seq(T), Ordered(t), \A q \in Range(t) : Before(p, q)
    PROVE  <<p>> \o t \in Seq(T) /\ Ordered(<<p>> \o t) /\ Range(<<p>> \o t) = {p} \cup Range(t)
  <1>1. <<p>> \in Seq(T) /\ Range(<<p>>) = {p} /\ Ordered(<<p>>) BY OneOrdered
  <1>2. PICK s : s = <<p>> OBVIOUS
  <1>3. s \in Seq(T) /\ Range(s) = {p} /\ Ordered(s) BY <1>1, <1>2
  <1>4. s \o t \in Seq(T) /\ Ordered(s \o t) /\ Range(s \o t) = Range(s) \cup Range(t)
    BY <1>3, Glue
  <1> QED BY <1>2, <1>3, <1>4

ArmPackets(S, lens) ==
    {Off, Play(S, lens)} \cup Steps("wave", S, lens) \cup Steps("list", S, lens)

LEMMA ArmRanks ==
    ASSUME NEW S, NEW lens
    PROVE  /\ \A p \in ArmPackets(S, lens) : Rank(p) \in 2..4
           /\ \A p \in Steps("wave", S, lens) \cup Steps("list", S, lens) : Rank(p) = 3
  <1>1. \A p \in Steps("wave", S, lens) : Rank(p) = 3
    BY Ranks DEF Steps
  <1>2. \A p \in Steps("list", S, lens) : Rank(p) = 3
    BY Ranks DEF Steps
  <1> QED BY <1>1, <1>2, Ranks DEF ArmPackets

LEMMA ArmFacts ==
    ASSUME NEW S \in SUBSET Modules, NEW lens \in [S -> Lengths]
    PROVE  /\ arm(S, lens) \in Seq(Packets(S, lens)) /\ Ordered(arm(S, lens))
           /\ Range(arm(S, lens)) = ArmPackets(S, lens)
  <1> DEFINE T == Packets(S, lens)
  <1>1. PICK w : w = ForEach([m \in S |-> Each("wave", m, lens[m])]) OBVIOUS
  <1>2. PICK l : l = ForEach([m \in S |-> Each("list", m, lens[m])]) OBVIOUS
  <1>3. w \in Seq(T) /\ Range(w) = Steps("wave", S, lens) /\ Ordered(w)
    BY <1>1, AllSteps
  <1>4. l \in Seq(T) /\ Range(l) = Steps("list", S, lens) /\ Ordered(l)
    BY <1>2, AllSteps
  <1>5. Off \in T /\ Play(S, lens) \in T
    BY DEF Packets
  <1> HIDE DEF T
  <1>6. \A p \in Range(w) : Rank(p) = 3
    BY <1>3, ArmRanks
  <1>7. \A p \in Range(l) : Rank(p) = 3 /\ p.do = "list"
    <2>1. \A p \in Range(l) : Rank(p) = 3 BY <1>4, ArmRanks
    <2>2. \A p \in Steps("list", S, lens) : p.do = "list" BY Dos DEF Steps
    <2> QED BY <1>4, <2>1, <2>2
  <1>8. PICK a : a = <<Off>> \o w OBVIOUS
  <1>9. a \in Seq(T) /\ Ordered(a) /\ Range(a) = {Off} \cup Range(w)
    <2>1. \A q \in Range(w) : Before(Off, q) BY <1>6, Ranks DEF Before
    <2> QED BY <1>3, <1>5, <1>8, <2>1, OneGlue
  <1>10. PICK b : b = a \o l OBVIOUS
  <1>11. b \in Seq(T) /\ Ordered(b) /\ Range(b) = {Off} \cup Range(w) \cup Range(l)
    <2>1. \A p \in Range(a) : Rank(p) \in {2, 3} BY <1>6, <1>9, Ranks
    <2>2. \A p \in Range(a), q \in Range(l) : Before(p, q) BY <1>7, <2>1 DEF Before
    <2>3. b \in Seq(T) /\ Ordered(b) /\ Range(b) = Range(a) \cup Range(l)
      <3>1. a \in Seq(T) /\ l \in Seq(T) BY <1>4, <1>9
      <3>2. Ordered(a) /\ Ordered(l) BY <1>4, <1>9
      <3> QED BY <1>10, <2>2, <3>1, <3>2, Glue
    <2> QED BY <1>9, <2>3
  <1>12. PICK c : c = b \o <<Play(S, lens)>> OBVIOUS
  <1>13. c \in Seq(T) /\ Ordered(c) /\ Range(c) = Range(b) \cup {Play(S, lens)}
    <2>1. \A p \in Range(b) : Rank(p) \in {2, 3} BY <1>6, <1>7, <1>11, Ranks
    <2>2. Rank(Play(S, lens)) = 4 BY Ranks
    <2>3. \A p \in Range(b) : Before(p, Play(S, lens)) BY <2>1, <2>2 DEF Before
    <2> QED BY <1>5, <1>11, <1>12, <2>3, GlueOne
  <1>14. c = arm(S, lens)
    BY <1>1, <1>2, <1>8, <1>10, <1>12 DEF arm
  <1> QED BY <1>3, <1>4, <1>11, <1>13, <1>14 DEF T, ArmPackets

-----------------------------------------------------------------------------
(* What the routes queue is a request before its first packet.             *)

LEMMA CoveringFacts == Coverings \subseteq SUBSET Modules /\ Modules \in Coverings /\ Covers \subseteq Coverings
  BY PlaybackAssumption DEF PlaybackAssumption, Coverings

LEMMA MemberPackets ==
    ASSUME NEW S, NEW lens
    PROVE  /\ Off \in Packets(S, lens) /\ NoSched \in Packets(S, lens)
           /\ ArmPackets(S, lens) \subseteq Packets(S, lens)
           /\ \A T \in Coverings, v \in {"ddr", "sine"} : Mode(T, v) \in Packets(S, lens)
           /\ \A groups \in SUBSET Groups : Fires(groups) \in Packets(S, lens)
           /\ \A T \in Coverings, g \in Groups : Group(T, g) \in Packets(S, lens)
           /\ \A k \in 0..(n_groups - 1), long \in BOOLEAN : Sched(S, k, long) \in Packets(S, lens)
  <1>1. Off \in Packets(S, lens) /\ NoSched \in Packets(S, lens)
    BY DEF Packets
  <1>2. ArmPackets(S, lens) \subseteq Packets(S, lens)
    BY StepPackets, <1>1 DEF Packets, ArmPackets
  <1>3. \A T \in Coverings, v \in {"ddr", "sine"} : Mode(T, v) \in Packets(S, lens)
    BY DEF Packets
  <1>4. \A groups \in SUBSET Groups : Fires(groups) \in Packets(S, lens)
    BY DEF Packets
  <1>5. \A T \in Coverings, g \in Groups : Group(T, g) \in Packets(S, lens)
    BY DEF Packets
  <1>6. \A k \in 0..(n_groups - 1), long \in BOOLEAN : Sched(S, k, long) \in Packets(S, lens)
    BY DEF Packets
  <1> QED BY <1>1, <1>2, <1>3, <1>4, <1>5, <1>6

\* A request before its first packet.
Fresh(j, S, lens) ==
    /\ j \in Seq(Packets(S, lens)) /\ Ordered(j)
    /\ \A p \in Range(j) : Rank(p) \in {3, 4} => Off \in Range(j) /\ Play(S, lens) \in Range(j)
    /\ Play(S, lens) \in Range(j) => ArmPackets(S, lens) \subseteq Range(j)
    /\ \A k \in 0..(n_groups - 1), long \in BOOLEAN : Sched(S, k, long) \in Range(j) =>
        /\ Off \in Range(j) /\ Play(S, lens) \in Range(j) /\ Group(S, 1) \in Range(j)
        /\ \A e \in 0..(n_groups - 1) : Sched(S, e, long) \in Range(j)
        /\ Sized(S, lens) /\ NoSched \notin Range(j)
        /\ \A p \in Range(j) : Rank(p) >= 5 =>
            p = Group(S, 1) \/ \E e \in 0..(n_groups - 1) : p = Sched(S, e, long)

LEMMA NotSched ==
    ASSUME NEW S, NEW k \in 0..(n_groups - 1), NEW long, NEW p, Rank(p) \in 0..5
    PROVE  p # Sched(S, k, long)
  <1>1. k \in Nat BY Sizes
  <1>2. Rank(Sched(S, k, long)) = 6 + k BY <1>1, SchedRank
  <1> QED BY <1>1, <1>2

\* Without a rotation.
LEMMA FreshArm ==
    ASSUME NEW S, NEW lens, NEW j \in Seq(Packets(S, lens)), Ordered(j),
           ArmPackets(S, lens) \subseteq Range(j), \A p \in Range(j) : Rank(p) \in 0..5
    PROVE  Fresh(j, S, lens)
  <1>1. Off \in Range(j) /\ Play(S, lens) \in Range(j) BY DEF ArmPackets
  <1>2. \A k \in 0..(n_groups - 1), long \in BOOLEAN : Sched(S, k, long) \notin Range(j)
    BY NotSched
  <1> QED BY <1>1, <1>2 DEF Fresh

LEMMA FreshOne ==
    ASSUME NEW S, NEW lens, NEW p \in Packets(S, lens), Rank(p) \in {1, 5}
    PROVE  Fresh(<<p>>, S, lens)
  <1>1. PICK j : j = <<p>> OBVIOUS
  <1>2. j \in Seq(Packets(S, lens)) /\ Range(j) = {p} /\ Ordered(j) BY <1>1, OneOrdered
  <1>3. p # Play(S, lens) BY Ranks
  <1>4. \A k \in 0..(n_groups - 1), long \in BOOLEAN : Sched(S, k, long) \notin Range(j)
    BY <1>2, NotSched
  <1>5. Fresh(j, S, lens) BY <1>2, <1>3, <1>4 DEF Fresh
  <1> QED BY <1>1, <1>5

LEMMA FilesFresh ==
    ASSUME NEW S \in SUBSET Modules, NEW lens \in [S -> Lengths]
    PROVE  Fresh(arm_waveform_from_files(S, lens), S, lens)
  <1>1. PICK j : j = arm(S, lens) OBVIOUS
  <1>2. j \in Seq(Packets(S, lens)) /\ Ordered(j) /\ Range(j) = ArmPackets(S, lens)
    BY <1>1, ArmFacts
  <1>3. \A p \in Range(j) : Rank(p) \in 0..5 BY <1>2, ArmRanks
  <1>4. Fresh(j, S, lens) BY <1>2, <1>3, FreshArm
  <1> QED BY <1>1, <1>4 DEF arm_waveform_from_files

\* The stop packet and the mode before an arm, and the trigger after it.
LEMMA Test1Fresh ==
    ASSUME NEW S \in SUBSET Modules, NEW len \in [S -> Lens],
           NEW lens, lens = [m \in S |-> <<len[m], len[m]>>],
           NEW j, j = stop_rotation_schedule \o <<Mode(Modules, "ddr")>> \o arm_test1_pattern(S, len) \o <<All>>
    PROVE  /\ lens \in [S -> Lengths] /\ Fresh(j, S, lens)
           /\ Range(j) = ArmPackets(S, lens) \cup {NoSched, Mode(Modules, "ddr"), All}
  <1> DEFINE T == Packets(S, lens)
  <1>1. lens \in [S -> Lengths] BY DEF Lengths
  <1>2. PICK a : a = arm(S, lens) OBVIOUS
  <1>3. a \in Seq(T) /\ Ordered(a) /\ Range(a) = ArmPackets(S, lens)
    BY <1>1, <1>2, ArmFacts
  <1>4. \A p \in Range(a) : Rank(p) \in 2..4 BY <1>3, ArmRanks
  <1>5. All \in T /\ Rank(All) = 5
    <2>1. All = Fires(Groups) BY DEF All, Fires
    <2> QED BY <2>1, MemberPackets, Ranks
  <1>6. NoSched \in T /\ Mode(Modules, "ddr") \in T
    BY MemberPackets, CoveringFacts
  <1> HIDE DEF T
  <1>7. PICK c : c = <<NoSched>> \o <<Mode(Modules, "ddr")>> OBVIOUS
  <1>8. c \in Seq(T) /\ Ordered(c) /\ Range(c) = {NoSched} \cup {Mode(Modules, "ddr")}
    <2>1. PICK s : s = <<NoSched>> OBVIOUS
    <2>2. s \in Seq(T) /\ Range(s) = {NoSched} /\ Ordered(s) BY <1>6, <2>1, OneOrdered
    <2>3. \A p \in Range(s) : Before(p, Mode(Modules, "ddr")) BY <2>2, Ranks DEF Before
    <2>4. c = s \o <<Mode(Modules, "ddr")>> BY <1>7, <2>1
    <2>5. c \in Seq(T) /\ Ordered(c) /\ Range(c) = Range(s) \cup {Mode(Modules, "ddr")}
      BY <1>6, <2>2, <2>3, <2>4, GlueOne
    <2> QED BY <2>2, <2>5
  <1>9. PICK b : b = c \o a OBVIOUS
  <1>10. b \in Seq(T) /\ Ordered(b) /\ Range(b) = Range(c) \cup Range(a)
    <2>1. \A p \in Range(c) : Rank(p) \in 0..1 BY <1>8, Ranks
    <2>2. \A p \in Range(c), q \in Range(a) : Before(p, q) BY <1>4, <2>1 DEF Before
    <2> QED BY <1>3, <1>8, <1>9, <2>2, Glue
  <1>11. \A p \in Range(b) : Rank(p) \in 0..4 BY <1>4, <1>8, <1>10, Ranks
  <1>12. PICK d : d = b \o <<All>> OBVIOUS
  <1>13. d \in Seq(T) /\ Ordered(d) /\ Range(d) = Range(b) \cup {All}
    <2>1. \A p \in Range(b) : Before(p, All) BY <1>5, <1>11 DEF Before
    <2> QED BY <1>5, <1>10, <1>12, <2>1, GlueOne
  <1>14. d = j
    BY <1>2, <1>7, <1>9, <1>12 DEF arm_test1_pattern, stop_rotation_schedule, NoSched
  <1>15. \A p \in Range(d) : Rank(p) \in 0..5 BY <1>5, <1>11, <1>13
  <1>16. ArmPackets(S, lens) \subseteq Range(d) BY <1>3, <1>10, <1>13
  <1>17. Fresh(d, S, lens)
    BY <1>13, <1>15, <1>16, FreshArm DEF T
  <1>18. Range(d) = ArmPackets(S, lens) \cup {NoSched, Mode(Modules, "ddr"), All}
    BY <1>3, <1>8, <1>10, <1>13
  <1> QED BY <1>1, <1>14, <1>17, <1>18

LEMMA StaircaseFresh ==
    ASSUME NEW S \in Covers, NEW len \in Lens, NEW lens, lens = [m \in S |-> <<len>>]
    PROVE  lens \in [S -> Lengths] /\ Fresh(arm_stereo_staircase(S, len), S, lens)
  <1> DEFINE T == Packets(S, lens)
             steps == [m \in S |-> <<Step("wave", m, lens[m], 0), Step("list", m, lens[m], 0)>>]
             w == ForEach(steps)
  <1>0. S \in SUBSET Modules /\ S \in Coverings BY CoveringFacts
  <1>1. lens \in [S -> Lengths] /\ \A m \in S : lens[m] = <<len>> /\ Len(lens[m]) = 1 BY DEF Lengths
  <1>2. Off \in T /\ Play(S, lens) \in T /\ Mode(S, "ddr") \in T
    BY <1>0, MemberPackets DEF ArmPackets
  <1>3. \A m \in S : /\ Step("wave", m, lens[m], 0) \in Steps("wave", S, lens)
                     /\ Step("list", m, lens[m], 0) \in Steps("list", S, lens)
    <2>1. \A m \in S : 0 \in 0..(Len(lens[m]) - 1) BY <1>1
    <2> QED BY <2>1 DEF Steps
  <1>4. Steps("wave", S, lens) \subseteq T /\ Steps("list", S, lens) \subseteq T
    BY StepPackets
  <1> HIDE DEF T
  <1>5. ASSUME NEW m \in S
        PROVE /\ steps[m] \in Seq(T)
              /\ Range(steps[m]) = {Step("wave", m, lens[m], 0), Step("list", m, lens[m], 0)}
    <2>1. PICK x \in T, y \in T : x = Step("wave", m, lens[m], 0) /\ y = Step("list", m, lens[m], 0)
      BY <1>3, <1>4
    <2>2. steps[m] = <<x, y>> BY <2>1
    <2>3. <<x, y>> \in Seq(T) /\ Range(<<x, y>>) = {x, y} BY DEF Range
    <2> QED BY <2>1, <2>2, <2>3
  <1>6. steps \in [S -> Seq(T)]
    <2>1. steps = [m \in S |-> steps[m]] OBVIOUS
    <2> HIDE DEF steps
    <2> QED BY <1>5, <2>1
  <1> HIDE DEF steps
  <1>7. /\ w \in Seq(T)
        /\ \A x : x \in Range(w) <=> \E m \in S : x \in Range(steps[m])
    BY <1>0, <1>6, ForEachFacts
  <1> HIDE DEF w
  <1>8. Range(w) = Steps("wave", S, lens) \cup Steps("list", S, lens)
    <2>1. ASSUME NEW x \in Range(w) PROVE x \in Steps("wave", S, lens) \cup Steps("list", S, lens)
      <3>1. PICK m \in S : x \in Range(steps[m]) BY <1>7
      <3>2. x = Step("wave", m, lens[m], 0) \/ x = Step("list", m, lens[m], 0) BY <1>5, <3>1
      <3> QED BY <1>3, <3>1, <3>2
    <2>2. ASSUME NEW what \in {"wave", "list"}, NEW x \in Steps(what, S, lens) PROVE x \in Range(w)
      <3>1. PICK m \in S, i \in Nat : i \in 0..(Len(lens[m]) - 1) /\ x = Step(what, m, lens[m], i) BY <2>2 DEF Steps
      <3>2. i = 0 BY <1>1, <3>1
      <3>3. x \in Range(steps[m]) BY <1>5, <3>1, <3>2
      <3> QED BY <1>7, <3>3
    <2> QED BY <2>1, <2>2
  <1>9. \A p \in Range(w) : Rank(p) = 3 BY <1>8, ArmRanks
  <1>10. Ordered(w)
    <2>1. ASSUME NEW m \in S PROVE Ordered(steps[m])
      <3>1. PICK x \in T, y \in T : x = Step("wave", m, lens[m], 0) /\ y = Step("list", m, lens[m], 0)
        BY <1>3, <1>4
      <3>2. steps[m] = <<x, y>> BY <3>1 DEF steps
      <3>3. Before(x, y)
        <4>1. Rank(x) = 3 /\ Rank(y) = 3 /\ x.do = "wave" BY <3>1, Ranks, Dos
        <4> QED BY <4>1 DEF Before
      <3>4. Ordered(<<x, y>>) BY <3>3 DEF Ordered
      <3> QED BY <3>2, <3>4
    <2>2. ASSUME NEW m \in S, NEW k \in S, m < k, NEW p \in Range(steps[m]), NEW q \in Range(steps[k])
          PROVE  Before(p, q)
      <3>1. p = Step("wave", m, lens[m], 0) \/ p = Step("list", m, lens[m], 0) BY <1>5
      <3>2. q = Step("wave", k, lens[k], 0) \/ q = Step("list", k, lens[k], 0) BY <1>5
      <3>3. Rank(p) = 3 /\ Rank(q) = 3 BY <3>1, <3>2, Ranks
      <3>4. p.m = m /\ q.m = k BY <3>1, <3>2 DEF Step
      <3>5. m # k
        <4>1. m \in Nat /\ k \in Nat BY <1>0 DEF Modules
        <4> QED BY <2>2, <4>1
      <3> QED BY <3>3, <3>4, <3>5 DEF Before
    <2> QED BY <1>0, <1>6, <2>1, <2>2, ForEachOrdered DEF w
  <1>11. PICK a : a = <<Mode(S, "ddr"), Off>> OBVIOUS
  <1>12. a \in Seq(T) /\ Ordered(a) /\ Range(a) = {Mode(S, "ddr"), Off}
    <2>1. PICK x \in T, y \in T : x = Mode(S, "ddr") /\ y = Off BY <1>2
    <2>2. a = <<x, y>> BY <1>11, <2>1
    <2>3. Before(x, y) BY <2>1, Ranks DEF Before
    <2>4. <<x, y>> \in Seq(T) /\ Range(<<x, y>>) = {x, y} /\ Ordered(<<x, y>>)
      BY <2>3 DEF Range, Ordered
    <2> QED BY <2>1, <2>2, <2>4
  <1>13. PICK b : b = a \o w OBVIOUS
  <1>14. b \in Seq(T) /\ Ordered(b) /\ Range(b) = Range(a) \cup Range(w)
    <2>1. \A p \in Range(a) : Rank(p) \in {1, 2} BY <1>12, Ranks
    <2>2. \A p \in Range(a), q \in Range(w) : Before(p, q) BY <1>9, <2>1 DEF Before
    <2>3. w \in Seq(T) BY <1>7
    <2>4. a \in Seq(T) /\ Ordered(a) BY <1>12
    <2> QED BY <1>10, <1>13, <2>2, <2>3, <2>4, Glue
  <1>15. \A p \in Range(b) : Rank(p) \in 1..3 BY <1>9, <1>12, <1>14, Ranks
  <1>16. PICK c : c = b \o <<Play(S, lens)>> OBVIOUS
  <1>17. c \in Seq(T) /\ Ordered(c) /\ Range(c) = Range(b) \cup {Play(S, lens)}
    <2>1. Rank(Play(S, lens)) = 4 BY Ranks
    <2>2. \A p \in Range(b) : Before(p, Play(S, lens)) BY <1>15, <2>1 DEF Before
    <2> QED BY <1>2, <1>14, <1>16, <2>2, GlueOne
  <1>18. c = arm_stereo_staircase(S, len)
    <2>1. steps = [m \in S |-> <<Step("wave", m, <<len>>, 0), Step("list", m, <<len>>, 0)>>]
      BY <1>1 DEF steps
    <2> QED BY <1>11, <1>13, <1>16, <2>1 DEF arm_stereo_staircase, w
  <1>19. \A p \in Range(c) : Rank(p) \in 0..5 BY <1>15, <1>17, Ranks
  <1>20. ArmPackets(S, lens) \subseteq Range(c) BY <1>8, <1>12, <1>14, <1>17 DEF ArmPackets
  <1>21. Fresh(c, S, lens) BY <1>17, <1>19, <1>20, FreshArm DEF T
  <1> QED BY <1>1, <1>18, <1>21

\* The set whose duration an entry holds is the one before it.
LEMMA EntrySet ==
    ASSUME NEW k \in 1..n_groups
    PROVE  (CHOOSE i \in 0..(n_groups - 1) : ScheduleSlot(i, n_groups) = k - 1)
             = IF k - 1 = 0 THEN n_groups - 1 ELSE (k - 1) - 1
  <1> DEFINE n == n_groups
             e == IF k - 1 = 0 THEN n - 1 ELSE (k - 1) - 1
  <1>0. n \in Nat /\ n >= 2 BY Sizes
  <1> HIDE DEF n
  <1>1. ASSUME NEW i \in 0..(n - 1) PROVE ScheduleSlot(i, n) = IF i = n - 1 THEN 0 ELSE i + 1
    <2>1. CASE i = n - 1
      <3>1. n \in Nat \ {0} /\ i + 1 \in n..(2 * n - 1) /\ (i + 1) - n = 0 BY <1>0, <2>1
      <3>2. (i + 1) % n = 0 BY <3>1, ModOver
      <3> QED BY <2>1, <3>2 DEF ScheduleSlot
    <2>2. CASE i # n - 1
      <3>1. n \in Nat \ {0} /\ i + 1 \in 0..(n - 1) BY <1>0, <2>2
      <3>2. (i + 1) % n = i + 1 BY <3>1, ModLess
      <3> QED BY <2>2, <3>2 DEF ScheduleSlot
    <2> QED BY <2>1, <2>2
  <1>2. k \in 1..n BY DEF n
  <1>3. e \in 0..(n - 1) /\ ScheduleSlot(e, n) = k - 1
    BY <1>0, <1>1, <1>2
  <1>4. \A i \in 0..(n - 1) : ScheduleSlot(i, n) = k - 1 => i = e
    BY <1>0, <1>1, <1>2
  <1>5. (CHOOSE i \in 0..(n - 1) : ScheduleSlot(i, n) = k - 1) = e
    <2> HIDE DEF e
    <2> QED BY <1>3, <1>4
  <1> QED BY <1>5 DEF n

LEMMA RotationEntries ==
    ASSUME NEW S, NEW lens, NEW long \in BOOLEAN,
           NEW j, j = [k \in 1..n_groups |-> Sched(S, k - 1, long)]
    PROVE  /\ j \in Seq(Packets(S, lens)) /\ Ordered(j)
           /\ \A x : x \in Range(j) <=> \E k \in 0..(n_groups - 1) : x = Sched(S, k, long)
           /\ \A x \in Range(j) : Rank(x) > 5 /\ Rank(x) \in Nat
  <1>0. PICK n \in Nat : n = n_groups BY Sizes
  <1>1. \A k \in 1..n : k - 1 \in 0..(n - 1) /\ k - 1 \in Nat OBVIOUS
  <1>2. \A k \in 1..n : Sched(S, k - 1, long) \in Packets(S, lens)
    BY <1>0, <1>1, MemberPackets
  <1>3. j \in Seq(Packets(S, lens)) /\ Len(j) = n /\ \A k \in 1..n : j[k] = Sched(S, k - 1, long)
    BY <1>0, <1>2
  <1>4. ASSUME NEW k \in 1..n PROVE Rank(j[k]) = 6 + (k - 1)
    BY <1>1, <1>3, SchedRank
  <1>5. Ordered(j)
    <2> SUFFICES ASSUME NEW a \in 1..n, NEW b \in 1..n, a < b PROVE Before(j[a], j[b])
      BY <1>3 DEF Ordered
    <2>1. Rank(j[a]) = 6 + (a - 1) /\ Rank(j[b]) = 6 + (b - 1) BY <1>4
    <2> QED BY <2>1 DEF Before
  <1>6. ASSUME NEW x PROVE x \in Range(j) <=> \E k \in 0..(n - 1) : x = Sched(S, k, long)
    <2>0. j \in Seq(Packets(S, lens)) /\ Len(j) = n BY <1>3
    <2>3. x \in Range(j) <=> \E k \in 1..Len(j) : x = j[k] BY <2>0, RangeOf
    <2>1. x \in Range(j) <=> \E k \in 1..n : x = j[k] BY <2>0, <2>3
    <2>2. ASSUME NEW k \in 0..(n - 1), x = Sched(S, k, long) PROVE \E i \in 1..n : x = j[i]
      <3>1. k + 1 \in 1..n /\ (k + 1) - 1 = k OBVIOUS
      <3>2. j[k + 1] = Sched(S, k, long) BY <1>3, <3>1
      <3> QED BY <2>2, <3>1, <3>2
    <2> QED BY <1>1, <1>3, <2>1, <2>2
  <1>7. ASSUME NEW x \in Range(j) PROVE Rank(x) > 5 /\ Rank(x) \in Nat
    <2>1. PICK k \in 0..(n - 1) : x = Sched(S, k, long) BY <1>6
    <2>2. k \in Nat OBVIOUS
    <2>3. Rank(x) = 6 + k BY <2>1, <2>2, SchedRank
    <2> QED BY <2>2, <2>3
  <1> QED BY <1>0, <1>3, <1>5, <1>6, <1>7

LEMMA RotationRange ==
    ASSUME NEW S, NEW long \in BOOLEAN,
           NEW j, j = [k \in 1..n_groups |-> Sched(S, k - 1, long)]
    PROVE  \A x : x \in Range(j) <=> \E k \in 0..(n_groups - 1) : x = Sched(S, k, long)
  <1>1. PICK lens : lens = <<>> OBVIOUS
  <1>2. /\ j \in Seq(Packets(S, lens)) /\ Ordered(j)
        /\ \A x : x \in Range(j) <=> \E k \in 0..(n_groups - 1) : x = Sched(S, k, long)
        /\ \A x \in Range(j) : Rank(x) > 5 /\ Rank(x) \in Nat
    BY RotationEntries
  <1> QED BY <1>2

LEMMA RotationSequence ==
    ASSUME NEW S, NEW long \in BOOLEAN
    PROVE  start_rotation_schedule(S, n_groups, long)
             = <<Group(S, 1)>> \o [k \in 1..n_groups |-> Sched(S, k - 1, long)]
  <1> DEFINE e == [k \in 1..n_groups |->
       [do |-> "sched", slot |-> k - 1, depth |-> n_groups, run |-> k = n_groups, modules |-> S,
        groups |-> group_bitmask(1),
        intv |-> [set |-> CHOOSE i \in 0..(n_groups - 1) : ScheduleSlot(i, n_groups) = k - 1, long |-> long]]]
  <1>1. ASSUME NEW k \in 1..n_groups PROVE e[k] = Sched(S, k - 1, long)
    <2>1. n_groups \in Nat BY Sizes
    <2>2. (k = n_groups) <=> (k - 1 = n_groups - 1) BY <2>1
    <2>3. (CHOOSE i \in 0..(n_groups - 1) : ScheduleSlot(i, n_groups) = k - 1)
             = IF k - 1 = 0 THEN n_groups - 1 ELSE (k - 1) - 1
      BY EntrySet
    <2>4. (k = n_groups) = (k - 1 = n_groups - 1) BY <2>2, Zenon
    <2>5. e[k] = [do |-> "sched", slot |-> k - 1, depth |-> n_groups, run |-> k = n_groups, modules |-> S,
                  groups |-> {1},
                  intv |-> [set |-> IF k - 1 = 0 THEN n_groups - 1 ELSE (k - 1) - 1, long |-> long]]
      BY <2>3 DEF group_bitmask
    <2> QED BY <2>4, <2>5 DEF Sched, Interval
  <1>2. e = [k \in 1..n_groups |-> Sched(S, k - 1, long)] BY <1>1
  <1> QED BY <1>2 DEF start_rotation_schedule, Group

LEMMA RotationFresh ==
    ASSUME NEW S \in Covers, NEW lens \in [S -> Sets], NEW long \in BOOLEAN,
           NEW j, j = <<Mode(Modules, "ddr")>> \o arm(S, lens) \o start_rotation_schedule(S, n_groups, long)
    PROVE  lens \in [S -> Lengths] /\ Fresh(j, S, lens)
  <1> DEFINE T == Packets(S, lens)
             modules == Modules
  <1>0. S \in SUBSET Modules /\ S \in Coverings BY CoveringFacts
  <1>1. lens \in [S -> Lengths] /\ Sized(S, lens)
    BY DEF Sets, Lengths, Sized
  <1>2. PICK a : a = arm(S, lens) OBVIOUS
  <1>3. a \in Seq(T) /\ Ordered(a) /\ Range(a) = ArmPackets(S, lens)
    BY <1>0, <1>1, <1>2, ArmFacts
  <1>4. \A p \in Range(a) : Rank(p) \in 2..4 BY <1>3, ArmRanks
  <1>5. Mode(Modules, "ddr") \in T /\ Group(S, 1) \in T
    BY <1>0, MemberPackets, CoveringFacts DEF Groups
  <1>6. PICK e : e = [k \in 1..n_groups |-> Sched(S, k - 1, long)] OBVIOUS
  <1>7. /\ e \in Seq(T) /\ Ordered(e)
        /\ \A x : x \in Range(e) <=> \E k \in 0..(n_groups - 1) : x = Sched(S, k, long)
        /\ \A x \in Range(e) : Rank(x) > 5 /\ Rank(x) \in Nat
    <2>1. e \in Seq(Packets(S, lens)) BY <1>6, RotationEntries
    <2>2. Ordered(e) BY <1>6, RotationEntries
    <2>3. \A x : x \in Range(e) <=> \E k \in 0..(n_groups - 1) : x = Sched(S, k, long)
      BY <1>6, RotationRange
    <2>4. ASSUME NEW x \in Range(e) PROVE Rank(x) > 5 /\ Rank(x) \in Nat
      <3>1. PICK k \in 0..(n_groups - 1) : x = Sched(S, k, long) BY <2>3
      <3>2. k \in Nat BY Sizes
      <3> QED BY <3>1, <3>2, SchedRank
    <2> QED BY <2>1, <2>2, <2>3, <2>4 DEF T
  <1> HIDE DEF T
  <1>8. PICK b : b = <<Mode(Modules, "ddr")>> \o a OBVIOUS
  <1>9. b \in Seq(T) /\ Ordered(b) /\ Range(b) = {Mode(Modules, "ddr")} \cup Range(a)
    <2>1. \A q \in Range(a) : Before(Mode(Modules, "ddr"), q) BY <1>4, Ranks DEF Before
    <2> QED BY <1>3, <1>5, <1>8, <2>1, OneGlue
  <1>10. PICK c : c = <<Group(S, 1)>> \o e OBVIOUS
  <1>11. c \in Seq(T) /\ Ordered(c) /\ Range(c) = {Group(S, 1)} \cup Range(e)
    <2>1. \A q \in Range(e) : Before(Group(S, 1), q) BY <1>7, Ranks DEF Before
    <2>2. e \in Seq(T) /\ Ordered(e) BY <1>7
    <2> QED BY <1>5, <1>10, <2>1, <2>2, OneGlue
  <1>12. PICK d : d = b \o c OBVIOUS
  <1>13. d \in Seq(T) /\ Ordered(d) /\ Range(d) = Range(b) \cup Range(c)
    <2>1. \A p \in Range(b) : Rank(p) \in 1..4 BY <1>4, <1>9, Ranks
    <2>2. \A q \in Range(c) : Rank(q) \in Nat /\ Rank(q) >= 5 BY <1>7, <1>11, Ranks
    <2>3. \A p \in Range(b), q \in Range(c) : Before(p, q) BY <2>1, <2>2 DEF Before
    <2>4. b \in Seq(T) /\ Ordered(b) BY <1>9
    <2>5. c \in Seq(T) /\ Ordered(c) BY <1>11
    <2> QED BY <1>12, <2>3, <2>4, <2>5, Glue
  <1>14. d = j BY <1>2, <1>6, <1>8, <1>10, <1>12, RotationSequence
  <1>15. ArmPackets(S, lens) \subseteq Range(d) BY <1>3, <1>9, <1>13
  <1>16. Off \in Range(d) /\ Play(S, lens) \in Range(d) /\ Group(S, 1) \in Range(d)
    BY <1>11, <1>13, <1>15 DEF ArmPackets
  <1>17. ASSUME NEW k \in 0..(n_groups - 1), NEW l \in BOOLEAN, Sched(S, k, l) \in Range(d)
         PROVE /\ \A i \in 0..(n_groups - 1) : Sched(S, i, l) \in Range(d)
               /\ \A p \in Range(d) : Rank(p) >= 5 =>
                   p = Group(S, 1) \/ \E i \in 0..(n_groups - 1) : p = Sched(S, i, l)
    <2>1. Rank(Sched(S, k, l)) > 5
      <3>1. k \in Nat BY Sizes
      <3>2. Rank(Sched(S, k, l)) = 6 + k BY <3>1, SchedRank
      <3> QED BY <3>1, <3>2
    <2>2. Sched(S, k, l) \in Range(e)
      <3>1. \A p \in Range(b) : Rank(p) \in 1..4 BY <1>4, <1>9, Ranks
      <3>2. Rank(Group(S, 1)) = 5 BY Ranks
      <3>3. Sched(S, k, l) \notin Range(b) /\ Sched(S, k, l) # Group(S, 1) BY <2>1, <3>1, <3>2
      <3> QED BY <1>11, <1>13, <1>17, <3>3
    <2>3. PICK t \in 0..(n_groups - 1) : Sched(S, k, l) = Sched(S, t, long) BY <1>7, <2>2
    <2>4. l = long
      <3>1. Sched(S, k, l).intv.long = l /\ Sched(S, t, long).intv.long = long
        BY DEF Sched, Interval
      <3> QED BY <2>3, <3>1
    <2>5. \A i \in 0..(n_groups - 1) : Sched(S, i, long) \in Range(e) BY <1>7
    <2>6. ASSUME NEW p \in Range(d), Rank(p) >= 5
          PROVE p = Group(S, 1) \/ \E i \in 0..(n_groups - 1) : p = Sched(S, i, long)
      <3>1. \A q \in Range(b) : Rank(q) \in 1..4 BY <1>4, <1>9, Ranks
      <3>2. p \in Range(c) BY <1>13, <2>6, <3>1
      <3>3. p = Group(S, 1) \/ p \in Range(e) BY <1>11, <3>2
      <3> QED BY <1>7, <3>3
    <2> QED BY <1>11, <1>13, <2>4, <2>5, <2>6
  <1>18. Fresh(d, S, lens)
    <2>1. \A p \in Range(d) : Rank(p) \in {3, 4} => Off \in Range(d) BY <1>16
    <2>2. NoSched \notin Range(d)
      <3>1. \A p \in Range(b) : Rank(p) \in 1..4 BY <1>4, <1>9, Ranks
      <3>2. \A q \in Range(c) : Rank(q) \in Nat /\ Rank(q) >= 5 BY <1>7, <1>11, Ranks
      <3> QED BY <1>13, <3>1, <3>2, Ranks
    <2> QED BY <1>1, <1>13, <1>15, <1>16, <1>17, <2>1, <2>2 DEF Fresh, T
  <1> QED BY <1>1, <1>14, <1>18

\* What a fresh request still has to send is all that it has to do.
LEMMA FreshRequest ==
    ASSUME NEW S \in Coverings, NEW lens \in [S -> Lengths], Fresh(job', S, lens)
    PROVE  Requested'
  <1>1. job' \in Seq(Packets(S, lens)) /\ Ordered(job') BY DEF Fresh
  <1>2. Writing(S, lens)'
    <2>1. \A p \in Range(job') : Rank(p) \in {3, 4} =>
            Off \in Range(job') /\ Play(S, lens) \in Range(job')
      BY DEF Fresh
    <2>2. ASSUME Play(S, lens) \in Range(job'), NEW m \in S, NEW i \in 0..(Len(lens[m]) - 1)
          PROVE Step("wave", m, lens[m], i) \in Range(job') /\ Step("list", m, lens[m], i) \in Range(job')
      <3>1. ArmPackets(S, lens) \subseteq Range(job') BY <2>2 DEF Fresh
      <3>2. Step("wave", m, lens[m], i) \in ArmPackets(S, lens) BY DEF ArmPackets, Steps
      <3>3. Step("list", m, lens[m], i) \in ArmPackets(S, lens) BY DEF ArmPackets, Steps
      <3> QED BY <3>1, <3>2, <3>3
    <2> QED BY <2>1, <2>2 DEF Writing, Pending
  <1>3. Rotating(S, lens)'
    <2>1. \A k \in 0..(n_groups - 1), long \in BOOLEAN : Sched(S, k, long) \in Range(job') =>
        /\ Off \in Range(job') /\ Play(S, lens) \in Range(job') /\ Group(S, 1) \in Range(job')
        /\ \A e \in 0..(n_groups - 1) : Sched(S, e, long) \in Range(job')
        /\ Sized(S, lens) /\ NoSched \notin Range(job')
        /\ \A p \in Range(job') : Rank(p) >= 5 =>
            p = Group(S, 1) \/ \E e \in 0..(n_groups - 1) : p = Sched(S, e, long)
      BY DEF Fresh
    <2>2. n_groups - 1 \in 0..(n_groups - 1) BY Sizes
    <2> QED BY <2>1, <2>2 DEF Rotating, Pending
  <1> QED BY <1>1, <1>2, <1>3 DEF Requested, Request

-----------------------------------------------------------------------------
(* A packet that is sent leaves the rest of its request (Requested).       *)

LEMMA RequestedEmpty == ASSUME job' = <<>> PROVE Requested'
  <1>1. PICK lens \in [Modules -> Lengths] : lens = [m \in Modules |-> <<1>>]
    BY LensFacts DEF Lengths
  <1>2. job' \in Seq(Packets(Modules, lens)) /\ Range(job') = {} /\ Ordered(job')
    BY DEF Range, Ordered
  <1>3. Fresh(job', Modules, lens)
    BY <1>2 DEF Fresh
  <1> QED BY <1>3, FreshRequest, CoveringFacts

\* What the requests speak of, apart from the packets still to be sent.
LEMMA RequestedKept ==
    ASSUME Requested, UNCHANGED <<job, on, mem, list, armed, gid>>, req'.serial = req.serial,
           sched'.intv = sched.intv, sched'.group = sched.group, rot' = rot \/ rot' = NoRotation
    PROVE  Requested'
  <1>s. PICK S \in Coverings : \E lens \in [S -> Lengths] : Request(S, lens)
    BY DEF Requested
  <1>1. PICK lens \in [S -> Lengths] : Request(S, lens) BY <1>s
  <1>2. job' = job /\ on' = on /\ mem' = mem /\ list' = list /\ armed' = armed /\ gid' = gid
    OBVIOUS
  <1>3. job' \in Seq(Packets(S, lens)) /\ Ordered(job')
    BY <1>1, <1>2 DEF Request
  <1>4. Writing(S, lens)'
    BY <1>1, <1>2 DEF Request, Writing, Written, Holds, Pending, AllOff
  <1>5. Rotating(S, lens)'
    BY <1>1, <1>2 DEF Request, Rotating, Pending
  <1> QED BY <1>3, <1>4, <1>5 DEF Requested, Request

LEMMA Sending ==
    ASSUME NEW S, NEW lens, Request(S, lens), job # <<>>, job' = Tail(job)
    PROVE  /\ Head(job) \in Packets(S, lens) /\ job' \in Seq(Packets(S, lens)) /\ Ordered(job')
           /\ Range(job) = Range(job') \cup {Head(job)}
           /\ \A q \in Range(job') : Before(Head(job), q)
           /\ \A q \in Range(job) : q \in Packets(S, lens)
  <1>1. job \in Seq(Packets(S, lens)) /\ Ordered(job) BY DEF Request
  <1>2. /\ Head(job) \in Packets(S, lens) /\ Tail(job) \in Seq(Packets(S, lens)) /\ Ordered(Tail(job))
        /\ Range(job) = Range(Tail(job)) \cup {Head(job)}
        /\ \A q \in Range(Tail(job)) : Before(Head(job), q)
    BY <1>1, TailFacts
  <1>3. ASSUME NEW q \in Range(job) PROVE q \in Packets(S, lens)
    <2>1. PICK k \in 1..Len(job) : q = job[k] BY <1>1, RangeOf
    <2> QED BY <1>1, <2>1
  <1> QED BY <1>2, <1>3

\* A packet that is not one the request speaks of.
LEMMA OtherSent ==
    ASSUME NEW S \in Coverings, NEW lens \in [S -> Lengths], Request(S, lens), job # <<>>, job' = Tail(job),
           Rank(Head(job)) = 1 \/ Head(job).do = "trigger",
           UNCHANGED <<on, mem, list, req, armed, gid, sched>>, rot' = rot \/ rot' = NoRotation
    PROVE  Requested'
  <1> DEFINE h == Head(job)
  <1>1. /\ h \in Packets(S, lens) /\ job' \in Seq(Packets(S, lens)) /\ Ordered(job')
        /\ Range(job) = Range(job') \cup {h}
    BY Sending
  <1>2. /\ on' = on /\ mem' = mem /\ list' = list /\ armed' = armed /\ gid' = gid /\ sched' = sched
        /\ req' = req
    OBVIOUS
  <1>3. /\ Rank(h) \in {1, 5} /\ \A T, g : h # Group(T, g)
    <2>1. CASE Rank(h) = 1 BY <2>1, Ranks
    <2>2. CASE h.do = "trigger"
      <3>1. PICK groups \in SUBSET Groups : h = Fires(groups) BY <1>1, <2>2, KindsByDo
      <3>2. Rank(h) = 5 BY <3>1, Ranks
      <3>3. \A T, g : h # Group(T, g) BY <2>2, Dos
      <3> QED BY <3>2, <3>3
    <2> QED BY <2>1, <2>2
  <1>4. /\ h # Off /\ h # Play(S, lens) /\ h # Group(S, 1)
        /\ \A m, i : h # Step("wave", m, lens[m], i) /\ h # Step("list", m, lens[m], i)
        /\ \A k \in 0..(n_groups - 1) : \A long : h # Sched(S, k, long)
    <2>1. \A k \in 0..(n_groups - 1) : \A long : h # Sched(S, k, long)
      BY <1>3, NotSched
    <2> QED BY <1>3, <2>1, Ranks
  <1> HIDE DEF h
  <1>5. Writing(S, lens)'
    BY <1>1, <1>2, <1>4 DEF Request, Writing, Written, Holds, Pending, AllOff
  <1>6. Rotating(S, lens)'
    <2>1. \A q : q # h => (q \in Range(job') <=> q \in Range(job)) BY <1>1
    <2>2. NoSched # h BY <1>3, Ranks
    <2>3. n_groups - 1 \in 0..(n_groups - 1) BY Sizes
    <2> QED BY <1>1, <1>2, <1>4, <2>1, <2>2, <2>3 DEF Request, Rotating, Pending
  <1> QED BY <1>1, <1>5, <1>6 DEF Requested, Request

LEMMA ModeRequested == ASSUME Requested, set_dac_mode PROVE Requested'
  <1>s. PICK S \in Coverings : \E lens \in [S -> Lengths] : Request(S, lens)
    BY DEF Requested
  <1>1. PICK lens \in [S -> Lengths] : Request(S, lens) BY <1>s
  <1>2. /\ job # <<>> /\ job' = Tail(job) /\ Head(job).do = "mode"
        /\ UNCHANGED <<on, mem, list, req, armed, gid, sched>> /\ rot' = rot
    BY DEF set_dac_mode, Do, Sent, store, player, history
  <1>3. Rank(Head(job)) = 1
    <2>1. Head(job) \in Packets(S, lens) BY <1>1, <1>2, Sending
    <2>2. PICK T \in Coverings, v \in {"ddr", "sine"} : Head(job) = Mode(T, v)
      BY <1>2, <2>1, KindsByDo
    <2> QED BY <2>2, Ranks
  <1> QED BY <1>1, <1>2, <1>3, OtherSent

LEMMA TriggerRequested == ASSUME Requested, trigger PROVE Requested'
  <1>s. PICK S \in Coverings : \E lens \in [S -> Lengths] : Request(S, lens)
    BY DEF Requested
  <1>1. PICK lens \in [S -> Lengths] : Request(S, lens) BY <1>s
  <1>2. /\ job # <<>> /\ job' = Tail(job) /\ Head(job).do = "trigger"
        /\ UNCHANGED <<on, mem, list, req, armed, gid, sched>> /\ rot' = NoRotation
    BY DEF trigger, Trigger, Do, Sent, store
  <1> QED BY <1>1, <1>2, OtherSent

LEMMA OffRequested == ASSUME Requested, play_off PROVE Requested'
  <1>s. PICK S \in Coverings : \E lens \in [S -> Lengths] : Request(S, lens)
    BY DEF Requested
  <1>1. PICK lens \in [S -> Lengths] : Request(S, lens) BY <1>s
  <1>2. /\ job # <<>> /\ job' = Tail(job) /\ Head(job).do = "off"
        /\ on' = [m \in Modules |-> FALSE] /\ UNCHANGED <<mem, list, req, gid, sched>> /\ rot' = NoRotation
    BY DEF play_off, Do, Sent, store
  <1>3. /\ Head(job) \in Packets(S, lens) /\ job' \in Seq(Packets(S, lens)) /\ Ordered(job')
        /\ Range(job) = Range(job') \cup {Head(job)}
        /\ \A q \in Range(job') : Before(Head(job), q)
    BY <1>1, <1>2, Sending
  <1>4. Head(job) = Off BY <1>2, <1>3, KindsByDo
  <1>5. /\ \A q \in Range(job) : q # Off => q \in Range(job')
        /\ \A q \in Range(job') : q \in Range(job)
        /\ Off \notin Range(job') /\ Off \in Range(job)
    BY <1>3, <1>4, Ranks DEF Before
  <1>6. /\ mem' = mem /\ list' = list /\ req' = req /\ gid' = gid /\ sched' = sched
    BY <1>2
  <1>7. AllOff' BY <1>2 DEF AllOff
  <1>8. /\ Play(S, lens) # Off /\ Group(S, 1) # Off
        /\ \A m, i : Step("wave", m, lens[m], i) # Off /\ Step("list", m, lens[m], i) # Off
    BY Ranks
  <1>9. \A k \in 0..(n_groups - 1) : \A long : Sched(S, k, long) # Off BY NotSched, Ranks
  <1>10. Writing(S, lens)'
    BY <1>1, <1>5, <1>6, <1>7, <1>8 DEF Request, Writing, Written, Holds, Pending
  <1>11. Rotating(S, lens)'
    <2> SUFFICES ASSUME NEW k \in 0..(n_groups - 1), NEW long \in BOOLEAN, Sched(S, k, long) \in Range(job')
                 PROVE
        /\ Sized(S, lens) /\ Sched(S, n_groups - 1, long) \in Range(job') /\ NoSched \notin Range(job')
        /\ \A p \in Range(job') : Rank(p) >= 5 =>
            p = Group(S, 1) \/ \E e \in 0..(n_groups - 1) : p = Sched(S, e, long)
        /\ IF Off \in Range(job') THEN Play(S, lens) \in Range(job') ELSE rot' = NoRotation
        /\ Play(S, lens) \in Range(job')
        /\ Group(S, 1) \in Range(job') \/ \A m \in S : gid[m] = 1
        /\ \A e \in 0..(n_groups - 1) :
            Sched(S, e, long) \in Range(job') \/ (sched.intv[e] = Interval(e, long) /\ sched.group[e] = {1})
      BY <1>6 DEF Rotating, Pending
    <2>1. Sched(S, k, long) \in Range(job) BY <1>5
    <2>2. n_groups - 1 \in 0..(n_groups - 1) BY Sizes
    <2>3. 
        /\ Sized(S, lens) /\ Sched(S, n_groups - 1, long) \in Range(job) /\ NoSched \notin Range(job)
        /\ \A p \in Range(job) : Rank(p) >= 5 =>
            p = Group(S, 1) \/ \E e \in 0..(n_groups - 1) : p = Sched(S, e, long)
        /\ Play(S, lens) \in Range(job)
        /\ Group(S, 1) \in Range(job) \/ \A m \in S : gid[m] = 1
        /\ \A e \in 0..(n_groups - 1) :
            Sched(S, e, long) \in Range(job) \/ (sched.intv[e] = Interval(e, long) /\ sched.group[e] = {1})
      BY <1>1, <1>5, <2>1 DEF Request, Rotating, Pending
    <2> QED BY <1>2, <1>5, <1>8, <1>9, <2>2, <2>3
  <1> QED BY <1>3, <1>10, <1>11 DEF Requested, Request

\* The writes of a request come before its play packet and after its off packet.
LEMMA WriteHead ==
    ASSUME NEW S, NEW lens, Request(S, lens), job # <<>>, job' = Tail(job), Rank(Head(job)) = 3
    PROVE  /\ AllOff /\ ~Pending(Off) /\ Pending(Play(S, lens)) /\ Pending(Play(S, lens))'
           /\ \A q \in Range(job') : Rank(q) >= 3 /\ Rank(q) \in Nat
  <1>1. /\ Head(job) \in Packets(S, lens) /\ Head(job) \in Range(job)
        /\ Range(job) = Range(job') \cup {Head(job)}
        /\ \A q \in Range(job') : Before(Head(job), q)
        /\ \A q \in Range(job) : q \in Packets(S, lens)
    BY Sending
  <1>2. \A q \in Range(job') : Rank(q) >= 3 /\ Rank(q) \in Nat
    BY <1>1, KindsByRank DEF Before
  <1>3. ~Pending(Off) BY <1>1, <1>2, Ranks DEF Pending
  <1>4. AllOff /\ Pending(Play(S, lens)) BY <1>1, <1>3 DEF Request, Writing
  <1>5. Pending(Play(S, lens))' BY <1>1, <1>4, Ranks DEF Pending
  <1> QED BY <1>2, <1>3, <1>4, <1>5

\* Between the off packet and play, nothing of a rotation has been done.
LEMMA WriteRotating ==
    ASSUME NEW S \in Coverings, NEW lens \in [S -> Lengths], Request(S, lens), job # <<>>, job' = Tail(job),
           Rank(Head(job)) = 3, UNCHANGED <<on, armed, gid, sched, rot>>
    PROVE  Rotating(S, lens)'
  <1>1. Range(job) = Range(job') \cup {Head(job)}
    BY Sending
  <1>2. /\ \A q \in Range(job) : Rank(q) # 3 => q \in Range(job')
        /\ \A q \in Range(job') : q \in Range(job)
    BY <1>1
  <1>3. Rank(Off) # 3 /\ Rank(Play(S, lens)) # 3 /\ Rank(Group(S, 1)) # 3 BY Ranks
  <1>4. ASSUME NEW k \in 0..(n_groups - 1), NEW long PROVE Rank(Sched(S, k, long)) # 3
    <2>1. k \in Nat BY Sizes
    <2>2. Rank(Sched(S, k, long)) = 6 + k BY <2>1, SchedRank
    <2> QED BY <2>1, <2>2
  <1>5. n_groups - 1 \in 0..(n_groups - 1) BY Sizes
  <1>6. on' = on /\ armed' = armed /\ gid' = gid /\ sched' = sched /\ rot' = rot OBVIOUS
  <1> QED BY <1>2, <1>3, <1>4, <1>5, <1>6 DEF Request, Rotating, Pending

LEMMA SameStep ==
    ASSUME NEW what, NEW m, NEW i, NEW w2, NEW k, NEW j, NEW lens,
           NEW l2, Step(what, m, lens, i) = Step(w2, k, l2, j)
    PROVE  what = w2 /\ m = k /\ i = j
  BY DEF Step

LEMMA WaveRequested == ASSUME Types, Requested, write_wave PROVE Requested'
  <1>s. PICK S \in Coverings : \E lens \in [S -> Lengths] : Request(S, lens)
    BY DEF Requested
  <1>1. PICK lens \in [S -> Lengths] : Request(S, lens) BY <1>s
  <1>2. job # <<>> /\ Head(job).do = "wave" /\ UNCHANGED <<on, list, armed, gid, sched, rot>>
    BY DEF write_wave, Do, player, history
  <1>3. CASE job' = <<>> BY <1>3, RequestedEmpty
  <1>4. CASE job' # <<>>
    <2>1. /\ _check_slot_fits(Head(job).m, Head(job).addr, Head(job).len)
          /\ job' = Tail(job) /\ req' = req
          /\ mem' = [a \in Addresses |-> IF a \in Bursts(Head(job).addr, Head(job).len)
                                         THEN <<req.serial, Head(job).m, Head(job).slot>> ELSE mem[a]]
      BY <1>4 DEF write_wave, This
    <2>2. /\ Head(job) \in Packets(S, lens) /\ job' \in Seq(Packets(S, lens)) /\ Ordered(job')
          /\ Range(job) = Range(job') \cup {Head(job)}
      BY <1>1, <1>2, <2>1, Sending
    <2>3. PICK m \in S, i \in Nat : i \in 0..(Len(lens[m]) - 1) /\ Head(job) = Step("wave", m, lens[m], i)
      BY <1>2, <2>2, KindsByDo
    <2>4. Rank(Head(job)) = 3 BY <2>3, Ranks
    <2>5. AllOff /\ ~Pending(Off) /\ Pending(Play(S, lens))' BY <1>1, <1>2, <2>1, <2>4, WriteHead
    <2>6. AllOff' BY <1>2, <2>5 DEF AllOff
    <2>7. /\ Head(job).m = m /\ Head(job).slot = i /\ Head(job).addr = Slot(m, lens[m], i).addr
          /\ Head(job).len = Slot(m, lens[m], i).len
      BY <2>3 DEF Step, Slot
    <2>8. Fits(m, lens[m], i)
      BY <2>1, <2>7 DEF Fits, _check_slot_fits
    <2>9. /\ S \in SUBSET Modules /\ m \in Modules /\ lens[m] \in Lengths
          /\ i \in 0..(Len(lens[m]) - 1)
      BY <2>3, CoveringFacts
    <2>10. mem' = [a \in Addresses |-> IF a \in Bursts(Slot(m, lens[m], i).addr, Slot(m, lens[m], i).len)
                                       THEN <<req.serial, m, i>> ELSE mem[a]]
      BY <2>1, <2>7
    <2>11. Slot(m, lens[m], i) \in Entry BY <2>8, <2>9, SlotFacts
    <2>12. Written(m, lens[m], i)'
      <3>1. ASSUME NEW a \in Bursts(Slot(m, lens[m], i).addr, Slot(m, lens[m], i).len)
            PROVE mem'[a] = <<req.serial, m, i>>
        <4>1. a \in Addresses
          <5>1. /\ Slot(m, lens[m], i).addr \in Nat /\ Slot(m, lens[m], i).len \in Nat \ {0}
                /\ Slot(m, lens[m], i).addr + Slot(m, lens[m], i).len <= _module_base_addr(m) + Region
            BY <2>8, <2>9, SlotFacts DEF Fits
          <5>2. _module_base_addr(m) \in Nat /\ _module_base_addr(m) + Region <= (M + 1) * Region
            BY <2>9, BaseFacts
          <5>3. (M + 1) * Region \in Nat BY Sizes
          <5> QED BY <5>1, <5>2, <5>3, Sizes DEF Bursts, Addresses
        <4> QED BY <2>10, <4>1
      <3> QED BY <2>1, <2>8, <2>11, <3>1 DEF Written, Holds, Fits
    <2>13. ASSUME NEW k \in S, NEW j \in 0..(Len(lens[k]) - 1), k # m \/ j # i, Written(k, lens[k], j)
           PROVE Written(k, lens[k], j)'
      <3>1. Fits(k, lens[k], j) /\ Slot(k, lens[k], j) \in Entry BY <2>13 DEF Written, Holds, Fits
      <3>2. ASSUME NEW a \in Bursts(Slot(k, lens[k], j).addr, Slot(k, lens[k], j).len)
            PROVE mem'[a] = mem[a]
        <4>1. a \notin Bursts(Slot(m, lens[m], i).addr, Slot(m, lens[m], i).len)
          BY <2>3, <2>8, <2>9, <2>13, <3>1, SlotsApart
        <4>2. a \in Addresses
          <5>1. /\ Slot(k, lens[k], j).addr \in Nat /\ Slot(k, lens[k], j).len \in Nat \ {0}
                /\ Slot(k, lens[k], j).addr + Slot(k, lens[k], j).len <= _module_base_addr(k) + Region
            <6>1. k \in Modules /\ lens[k] \in Lengths BY <2>9
            <6> QED BY <3>1, <6>1, SlotFacts DEF Fits
          <5>2. _module_base_addr(k) \in Nat /\ _module_base_addr(k) + Region <= (M + 1) * Region
            BY <2>9, BaseFacts
          <5>3. (M + 1) * Region \in Nat BY Sizes
          <5> QED BY <5>1, <5>2, <5>3, Sizes DEF Bursts, Addresses
        <4> QED BY <2>10, <4>1, <4>2
      <3> QED BY <2>1, <2>13, <3>1, <3>2 DEF Written, Holds, Fits
    <2>14. Writing(S, lens)'
      <3>1. \A p \in Range(job') : Rank(p) \in {3, 4} => AllOff' /\ Play(S, lens) \in Range(job')
        BY <2>5, <2>6 DEF Pending
      <3>2. ASSUME Play(S, lens) \in Range(job'), NEW k \in S, NEW j \in 0..(Len(lens[k]) - 1)
            PROVE /\ Step("wave", k, lens[k], j) \in Range(job') \/ Written(k, lens[k], j)'
                  /\ Step("list", k, lens[k], j) \in Range(job') \/ list'[k][j] = Slot(k, lens[k], j)
        <4>1. /\ Step("wave", k, lens[k], j) \in Range(job) \/ Written(k, lens[k], j)
              /\ Step("list", k, lens[k], j) \in Range(job) \/ list[k][j] = Slot(k, lens[k], j)
          BY <1>1, <2>2, <3>2 DEF Request, Writing, Pending
        <4>2. CASE k = m /\ j = i
          <5>1. Step("list", k, lens[k], j) # Head(job)
            BY <2>3, SameStep
          <5> QED BY <1>2, <2>2, <2>12, <4>1, <4>2, <5>1
        <4>3. CASE k # m \/ j # i
          <5>1. Step("list", k, lens[k], j) # Head(job) /\ Step("wave", k, lens[k], j) # Head(job)
            BY <2>3, <4>3, SameStep
          <5> QED BY <1>2, <2>2, <2>13, <4>1, <4>3, <5>1
        <4> QED BY <4>2, <4>3
      <3> QED BY <3>1, <3>2 DEF Writing, Pending
    <2>15. Rotating(S, lens)' BY <1>1, <1>2, <2>1, <2>4, WriteRotating
    <2> QED BY <2>2, <2>14, <2>15 DEF Requested, Request
  <1> QED BY <1>3, <1>4

LEMMA ListRequested == ASSUME Types, Requested, send_list_write PROVE Requested'
  <1>s. PICK S \in Coverings : \E lens \in [S -> Lengths] : Request(S, lens)
    BY DEF Requested
  <1>1. PICK lens \in [S -> Lengths] : Request(S, lens) BY <1>s
  <1>2. /\ job # <<>> /\ job' = Tail(job) /\ Head(job).do = "list"
        /\ UNCHANGED <<on, mem, req, armed, gid, sched, rot>>
        /\ list' = [list EXCEPT ![Head(job).m][Head(job).slot] = [addr |-> Head(job).addr, len |-> Head(job).len]]
    BY DEF send_list_write, Do, Sent, This, player, history
  <1>3. /\ Head(job) \in Packets(S, lens) /\ job' \in Seq(Packets(S, lens)) /\ Ordered(job')
        /\ Range(job) = Range(job') \cup {Head(job)}
    BY <1>1, <1>2, Sending
  <1>4. PICK m \in S, i \in Nat : i \in 0..(Len(lens[m]) - 1) /\ Head(job) = Step("list", m, lens[m], i)
    BY <1>2, <1>3, KindsByDo
  <1>5. Rank(Head(job)) = 3 BY <1>4, Ranks
  <1>6. AllOff /\ ~Pending(Off) /\ Pending(Play(S, lens))' BY <1>1, <1>2, <1>5, WriteHead
  <1>7. AllOff' BY <1>2, <1>6 DEF AllOff
  <1>8. m \in Modules /\ i \in Slots
    <2>1. m \in Modules BY CoveringFacts
    <2>2. Len(lens[m]) \in 1..MaxSlots BY LengthsFacts
    <2> QED BY <1>4, <2>1, <2>2, Sizes DEF Slots
  <1>9. list' = [list EXCEPT ![m][i] = Slot(m, lens[m], i)]
    <2>1. /\ Head(job).m = m /\ Head(job).slot = i
          /\ Head(job).addr = _module_base_addr(m) + Begins(lens[m])[i] /\ Head(job).len = lens[m][i + 1]
      BY <1>4 DEF Step
    <2>2. [addr |-> Head(job).addr, len |-> Head(job).len] = Slot(m, lens[m], i)
      BY <2>1 DEF Slot
    <2> QED BY <1>2, <2>1, <2>2
  <1>10. list \in [Modules -> [Slots -> {None} \cup Entry]] BY DEF Types
  <1>11. list'[m][i] = Slot(m, lens[m], i) BY <1>8, <1>9, <1>10
  <1>12. \A k \in Modules, j \in Slots : k # m \/ j # i => list'[k][j] = list[k][j]
    BY <1>8, <1>9, <1>10
  <1>13. ASSUME NEW k \in S, NEW j \in 0..(Len(lens[k]) - 1) PROVE j \in Slots
    <2>1. Len(lens[k]) \in 1..MaxSlots BY LengthsFacts
    <2> QED BY <2>1, Sizes DEF Slots
  <1>14. Writing(S, lens)'
      <3>1. \A p \in Range(job') : Rank(p) \in {3, 4} => AllOff' /\ Play(S, lens) \in Range(job')
        BY <1>6, <1>7 DEF Pending
      <3>2. ASSUME Play(S, lens) \in Range(job'), NEW k \in S, NEW j \in 0..(Len(lens[k]) - 1)
            PROVE /\ Step("wave", k, lens[k], j) \in Range(job') \/ Written(k, lens[k], j)'
                  /\ Step("list", k, lens[k], j) \in Range(job') \/ list'[k][j] = Slot(k, lens[k], j)
        <4>1. /\ Step("wave", k, lens[k], j) \in Range(job) \/ Written(k, lens[k], j)
              /\ Step("list", k, lens[k], j) \in Range(job) \/ list[k][j] = Slot(k, lens[k], j)
          BY <1>1, <1>3, <3>2 DEF Request, Writing, Pending
        <4>2. Step("wave", k, lens[k], j) # Head(job)
          BY <1>4, SameStep
        <4>3. Written(k, lens[k], j) => Written(k, lens[k], j)'
          BY <1>2 DEF Written, Holds
        <4>4. k \in Modules /\ j \in Slots BY <1>13, CoveringFacts
        <4>5. CASE k = m /\ j = i
          BY <1>3, <1>11, <4>1, <4>2, <4>3, <4>5
        <4>6. CASE k # m \/ j # i
          <5>1. Step("list", k, lens[k], j) # Head(job)
            BY <1>4, <4>6, SameStep
          <5>2. list'[k][j] = list[k][j] BY <1>12, <4>4, <4>6
          <5> QED BY <1>3, <4>1, <4>2, <4>3, <5>1, <5>2
        <4> QED BY <4>5, <4>6
      <3> QED BY <3>1, <3>2 DEF Writing, Pending
  <1>15. Rotating(S, lens)' BY <1>1, <1>2, <1>5, WriteRotating
  <1> QED BY <1>3, <1>14, <1>15 DEF Requested, Request

LEMMA PlayRequested == ASSUME Requested, play_on PROVE Requested'
  <1>s. PICK S \in Coverings : \E lens \in [S -> Lengths] : Request(S, lens)
    BY DEF Requested
  <1>1. PICK lens \in [S -> Lengths] : Request(S, lens) BY <1>s
  <1>2. /\ job # <<>> /\ job' = Tail(job) /\ Head(job).do = "play"
        /\ on' = [m \in Modules |-> m \in Head(job).modules]
        /\ armed' = [m \in Modules |-> IF m \in Head(job).modules THEN [serial |-> req.serial, n |-> Head(job).n[m]]
                                       ELSE NotArmed]
        /\ UNCHANGED <<mem, list, req, gid, sched, rot>>
    BY DEF play_on, Do, Sent, This, store
  <1>3. /\ Head(job) \in Packets(S, lens) /\ job' \in Seq(Packets(S, lens)) /\ Ordered(job')
        /\ Range(job) = Range(job') \cup {Head(job)}
        /\ \A q \in Range(job') : Before(Head(job), q)
        /\ \A q \in Range(job) : q \in Packets(S, lens)
    BY <1>1, <1>2, Sending
  <1>4. Head(job) = Play(S, lens) BY <1>2, <1>3, KindsByDo
  <1>5. \A q \in Range(job') : Rank(q) > 4 /\ Rank(q) \in Nat
    <2>1. Rank(Head(job)) = 4 BY <1>4, Ranks
    <2> QED BY <1>3, <2>1, KindsByRank DEF Before
  <1>6. Writing(S, lens)'
    <2>1. Play(S, lens) \notin Range(job') BY <1>5, Ranks
    <2>2. \A p \in Range(job') : Rank(p) \notin {3, 4} BY <1>5
    <2> QED BY <2>1, <2>2 DEF Writing, Pending
  <1>7. \A m \in S : on'[m] /\ armed'[m].n = Len(lens[m])
    <2>1. Head(job).modules = S /\ Head(job).n = [m \in S |-> Len(lens[m])] BY <1>4 DEF Play
    <2>2. S \subseteq Modules BY CoveringFacts
    <2> QED BY <1>2, <2>1, <2>2
  <1>8. Rotating(S, lens)'
    <2>1. Off \notin Range(job) /\ Off \notin Range(job')
      <3>1. Off \notin Range(job') BY <1>5, Ranks
      <3>2. Off # Head(job) BY <1>2, Dos
      <3> QED BY <1>3, <3>1, <3>2
    <2>2. \A q \in Range(job) : q # Play(S, lens) => q \in Range(job')
      BY <1>3, <1>4
    <2>3. \A q \in Range(job') : q \in Range(job)
      BY <1>3
    <2>4. Group(S, 1) # Play(S, lens) BY Ranks
    <2>5. \A k \in 0..(n_groups - 1) : \A long : Sched(S, k, long) # Play(S, lens) BY NotSched, Ranks
    <2>6. n_groups - 1 \in 0..(n_groups - 1) BY Sizes
    <2>7. gid' = gid /\ sched' = sched /\ rot' = rot BY <1>2
    <2>8. Sized(S, lens) => \A m \in S : on'[m] /\ armed'[m].n = n_groups BY <1>7 DEF Sized
    <2> QED BY <1>1, <2>8, <2>1, <2>2, <2>3, <2>4, <2>5, <2>6, <2>7 DEF Request, Rotating, Pending
  <1> QED BY <1>3, <1>6, <1>8 DEF Requested, Request

\* A packet that is sent when nothing of a request is left to be stored, listed or played.
LEMMA LateWriting ==
    ASSUME NEW S \in Coverings, NEW lens \in [S -> Lengths], Request(S, lens), job # <<>>, job' = Tail(job),
           Rank(Head(job)) >= 4, Rank(Head(job)) \in Nat
    PROVE  /\ Writing(S, lens)'
           /\ \A q \in Range(job') : Rank(q) > Rank(Head(job)) /\ Rank(q) \in Nat
  <1>1. /\ \A q \in Range(job') : Before(Head(job), q)
        /\ \A q \in Range(job') : q \in Packets(S, lens)
    BY Sending
  <1>2. \A q \in Range(job') : Rank(q) > Rank(Head(job)) /\ Rank(q) \in Nat
    BY <1>1, KindsByRank DEF Before
  <1>3. Play(S, lens) \notin Range(job') BY <1>2, Ranks
  <1>4. \A p \in Range(job') : Rank(p) \notin {3, 4} BY <1>2
  <1> QED BY <1>2, <1>3, <1>4 DEF Writing, Pending

LEMMA GroupRequested == ASSUME Requested, apply_trig_groups PROVE Requested'
  <1>s. PICK S \in Coverings : \E lens \in [S -> Lengths] : Request(S, lens)
    BY DEF Requested
  <1>1. PICK lens \in [S -> Lengths] : Request(S, lens) BY <1>s
  <1>2. /\ job # <<>> /\ job' = Tail(job) /\ Head(job).do = "group"
        /\ gid' = [m \in Modules |-> IF m \in Head(job).modules THEN Head(job).group ELSE gid[m]]
        /\ UNCHANGED <<on, armed, sched>> /\ rot' = NoRotation
    BY DEF apply_trig_groups, Do, Sent, This, store, player
  <1>3. /\ Head(job) \in Packets(S, lens) /\ job' \in Seq(Packets(S, lens)) /\ Ordered(job')
        /\ Range(job) = Range(job') \cup {Head(job)}
    BY <1>1, <1>2, Sending
  <1>4. PICK T \in Coverings, g \in Groups : Head(job) = Group(T, g) BY <1>2, <1>3, KindsByDo
  <1>5. Rank(Head(job)) = 5 BY <1>4, Ranks
  <1>6. Writing(S, lens)' /\ \A q \in Range(job') : Rank(q) > 5 /\ Rank(q) \in Nat
    BY <1>1, <1>2, <1>5, LateWriting
  <1>7. ASSUME NEW k \in 0..(n_groups - 1), NEW long \in BOOLEAN, Sched(S, k, long) \in Range(job)
        PROVE \A m \in S : gid'[m] = 1
    <2>1. \A p \in Range(job) : Rank(p) >= 5 =>
            p = Group(S, 1) \/ \E e \in 0..(n_groups - 1) : p = Sched(S, e, long)
      BY <1>1, <1>7 DEF Request, Rotating, Pending
    <2>2. Head(job) = Group(S, 1)
      BY <1>3, <1>5, <2>1, NotSched
    <2>3. Head(job).modules = S /\ Head(job).group = 1 BY <2>2 DEF Group
    <2>4. S \subseteq Modules BY CoveringFacts
    <2> QED BY <1>2, <2>3, <2>4
  <1>8. Rotating(S, lens)'
    <2>1. Off \notin Range(job') BY <1>6, Ranks
    <2>2. \A q \in Range(job) : Rank(q) # 5 => q \in Range(job')
      BY <1>3, <1>5
    <2>3. \A q \in Range(job') : q \in Range(job)
      BY <1>3
    <2>4. \A k \in 0..(n_groups - 1) : \A long : Rank(Sched(S, k, long)) # 5
      <3>1. ASSUME NEW k \in 0..(n_groups - 1), NEW long PROVE Rank(Sched(S, k, long)) # 5
        <4>1. k \in Nat BY Sizes
        <4>2. Rank(Sched(S, k, long)) = 6 + k BY <4>1, SchedRank
        <4> QED BY <4>1, <4>2
      <3> QED BY <3>1
    <2>5. Rank(Play(S, lens)) # 5 BY Ranks
    <2>6. n_groups - 1 \in 0..(n_groups - 1) BY Sizes
    <2>7. on' = on /\ armed' = armed /\ sched' = sched /\ rot' = NoRotation BY <1>2
    <2> QED BY <1>1, <1>7, <2>1, <2>2, <2>3, <2>4, <2>5, <2>6, <2>7 DEF Request, Rotating, Pending
  <1> QED BY <1>3, <1>6, <1>8 DEF Requested, Request

LEMMA SameSched ==
    ASSUME NEW S, NEW k, NEW long, NEW e, NEW l, Sched(S, k, long) = Sched(S, e, l)
    PROVE  k = e /\ long = l
  BY DEF Sched, Interval

\* The scheduler's fields after a packet.
LEMMA SchedSent ==
    ASSUME Types, send_group_sched_ctrl
    PROVE  /\ job # <<>> /\ job' = Tail(job) /\ Head(job).do = "sched"
           /\ UNCHANGED <<isMaster, store, player, modes, gid, armed, req, bounds>>
           /\ sched'.intv = [sched.intv EXCEPT ![Head(job).slot] = Head(job).intv]
           /\ sched'.group = [sched.group EXCEPT ![Head(job).slot] = Head(job).groups]
           /\ sched'.depth = Head(job).depth /\ sched'.running = Head(job).run
           /\ IF Head(job).run /\ ~sched.running THEN sched'.idx = 0 /\ sched'.left = sched.intv[0]
              ELSE sched'.idx = sched.idx /\ sched'.left = sched.left
           /\ rot' = IF Head(job).run /\ ~sched.running /\ \A m \in Head(job).modules : play_pos[m] = -1
                     THEN [modules |-> Head(job).modules, long |-> Head(job).intv.long]
                     ELSE IF Head(job).run /\ sched.running THEN rot ELSE NoRotation
           /\ sched' = [intv |-> sched'.intv, group |-> sched'.group, depth |-> sched'.depth,
                        running |-> sched'.running, idx |-> sched'.idx, left |-> sched'.left]
  <1> DEFINE written == [sched EXCEPT !.intv[This.slot] = This.intv, !.group[This.slot] = This.groups,
                                      !.depth = This.depth, !.running = This.run]
             starts == This.run /\ ~sched.running
  <1>1. /\ job # <<>> /\ job' = Tail(job) /\ Head(job).do = "sched"
        /\ UNCHANGED <<isMaster, store, player, modes, gid, armed, req, bounds>>
        /\ sched' = IF starts THEN [written EXCEPT !.idx = 0, !.left = sched.intv[0]] ELSE written
        /\ rot' = IF starts /\ \A m \in This.modules : play_pos[m] = -1
                  THEN [modules |-> This.modules, long |-> This.intv.long]
                  ELSE IF This.run /\ ~starts THEN rot ELSE NoRotation
    BY DEF send_group_sched_ctrl, Do, Sent, This
  <1>2. /\ DOMAIN sched = {"intv", "group", "depth", "running", "idx", "left"} /\ sched.running \in BOOLEAN
    BY DEF Types
  <1>3. /\ written.intv = [sched.intv EXCEPT ![Head(job).slot] = Head(job).intv]
        /\ written.group = [sched.group EXCEPT ![Head(job).slot] = Head(job).groups]
        /\ written.depth = Head(job).depth /\ written.running = Head(job).run
        /\ written.idx = sched.idx /\ written.left = sched.left
        /\ DOMAIN written = {"intv", "group", "depth", "running", "idx", "left"}
    BY <1>2 DEF This
  <1>7. written = [intv |-> written.intv, group |-> written.group, depth |-> written.depth,
                   running |-> written.running, idx |-> written.idx, left |-> written.left]
    <2>1. PICK a : a = [sched EXCEPT !.intv[This.slot] = This.intv] OBVIOUS
    <2>2. PICK b : b = [a EXCEPT !.group[This.slot] = This.groups] OBVIOUS
    <2>3. PICK c : c = [b EXCEPT !.depth = This.depth] OBVIOUS
    <2>4. written = [c EXCEPT !.running = This.run] BY <2>1, <2>2, <2>3
    <2>5. DOMAIN c = {"intv", "group", "depth", "running", "idx", "left"} BY <1>2, <2>1, <2>2, <2>3
    <2> HIDE DEF written
    <2> QED BY <2>4, <2>5
  <1> HIDE DEF written
  <1>4. sched' = [intv |-> sched'.intv, group |-> sched'.group, depth |-> sched'.depth,
                  running |-> sched'.running, idx |-> sched'.idx, left |-> sched'.left]
    BY <1>1, <1>3, <1>7
  <1>5. CASE Head(job).run /\ ~sched.running
    <2>1. sched' = [written EXCEPT !.idx = 0, !.left = sched.intv[0]] BY <1>1, <1>5 DEF This
    <2>2. rot' = IF \A m \in Head(job).modules : play_pos[m] = -1
                  THEN [modules |-> Head(job).modules, long |-> Head(job).intv.long] ELSE NoRotation
      BY <1>1, <1>5 DEF This
    <2>3. /\ sched'.intv = written.intv /\ sched'.group = written.group /\ sched'.depth = written.depth
          /\ sched'.running = written.running /\ sched'.idx = 0 /\ sched'.left = sched.intv[0]
      BY <1>3, <2>1
    <2> QED BY <1>1, <1>3, <1>4, <1>5, <2>2, <2>3
  <1>6. CASE ~(Head(job).run /\ ~sched.running)
    <2>1. sched' = written BY <1>1, <1>6 DEF This
    <2>2. rot' = IF Head(job).run /\ sched.running THEN rot ELSE NoRotation
      BY <1>1, <1>6 DEF This
    <2> QED BY <1>1, <1>3, <1>4, <1>6, <2>1, <2>2
  <1> QED BY <1>5, <1>6

LEMMA StopSchedRequested ==
    ASSUME NEW S \in Coverings, NEW lens \in [S -> Lengths], Request(S, lens), job # <<>>, job' = Tail(job),
           Head(job) = NoSched, UNCHANGED <<on, mem, list, req>>
    PROVE  Requested'
  <1>1. /\ job' \in Seq(Packets(S, lens)) /\ Ordered(job')
        /\ Range(job) = Range(job') \cup {Head(job)}
    BY Sending
  <1>2. Off # NoSched /\ Play(S, lens) # NoSched
        /\ \A m, i : Step("wave", m, lens[m], i) # NoSched /\ Step("list", m, lens[m], i) # NoSched
    BY Ranks
  <1>3. on' = on /\ mem' = mem /\ list' = list /\ req' = req OBVIOUS
  <1>4. Writing(S, lens)'
    BY <1>1, <1>2, <1>3 DEF Request, Writing, Written, Holds, Pending, AllOff
  <1>5. Rotating(S, lens)'
    <2>1. ASSUME NEW k \in 0..(n_groups - 1), NEW long \in BOOLEAN, Sched(S, k, long) \in Range(job')
          PROVE FALSE
      BY <1>1, <2>1 DEF Request, Rotating, Pending
    <2> QED BY <2>1 DEF Rotating, Pending
  <1> QED BY <1>1, <1>4, <1>5 DEF Requested, Request

LEMMA SchedRequested == ASSUME Types, Requested, send_group_sched_ctrl PROVE Requested'
  <1>s. PICK S \in Coverings : \E lens \in [S -> Lengths] : Request(S, lens)
    BY DEF Requested
  <1>1. PICK lens \in [S -> Lengths] : Request(S, lens) BY <1>s
  <1>2. /\ job # <<>> /\ job' = Tail(job) /\ Head(job).do = "sched"
        /\ UNCHANGED <<isMaster, store, player, modes, gid, armed, req, bounds>>
    BY SchedSent
  <1>3. on' = on /\ mem' = mem /\ list' = list /\ req' = req /\ gid' = gid /\ armed' = armed
    BY <1>2 DEF store, player
  <1>4. /\ Head(job) \in Packets(S, lens) /\ job' \in Seq(Packets(S, lens)) /\ Ordered(job')
        /\ Range(job) = Range(job') \cup {Head(job)}
    BY <1>1, <1>2, Sending
  <1>5. CASE Head(job) = NoSched
    BY <1>1, <1>2, <1>3, <1>5, StopSchedRequested
  <1>6. ASSUME NEW k \in 0..(n_groups - 1), NEW long \in BOOLEAN, Head(job) = Sched(S, k, long)
        PROVE  Requested'
    <2>1. k \in Nat /\ Rank(Head(job)) = 6 + k
      <3>1. k \in Nat BY Sizes
      <3> QED BY <1>6, <3>1, SchedRank
    <2>2. Writing(S, lens)' /\ \A q \in Range(job') : Rank(q) > 6 + k /\ Rank(q) \in Nat
      BY <1>1, <1>2, <2>1, LateWriting
    <2>3. /\ Head(job).slot = k /\ Head(job).intv = Interval(k, long) /\ Head(job).groups = {1}
          /\ Head(job).run = (k = n_groups - 1)
      BY <1>6 DEF Sched
    <2>4. k \in Slots BY Sizes DEF Slots
    <2>5. DOMAIN sched.intv = Slots /\ DOMAIN sched.group = Slots BY DEF Types
    <2>6. /\ sched'.intv = [sched.intv EXCEPT ![k] = Interval(k, long)]
          /\ sched'.group = [sched.group EXCEPT ![k] = {1}]
      BY <2>3, SchedSent
    <2>7. /\ sched'.intv[k] = Interval(k, long) /\ sched'.group[k] = {1}
          /\ \A e \in Slots : e # k => sched'.intv[e] = sched.intv[e] /\ sched'.group[e] = sched.group[e]
      BY <2>4, <2>5, <2>6
    <2>8. \A e \in 0..(n_groups - 1) : e \in Slots BY Sizes DEF Slots
    <2>9. Off \notin Range(job) /\ Play(S, lens) \notin Range(job) /\ Group(S, 1) \notin Range(job)
      <3>1. Off # Head(job) /\ Play(S, lens) # Head(job) /\ Group(S, 1) # Head(job)
        BY <2>1, Ranks
      <3>2. Off \notin Range(job') /\ Play(S, lens) \notin Range(job') /\ Group(S, 1) \notin Range(job')
        BY <2>1, <2>2, Ranks
      <3> QED BY <1>4, <3>1, <3>2
    <2>10. Rotating(S, lens)'
      <3> SUFFICES ASSUME NEW f \in 0..(n_groups - 1), NEW l \in BOOLEAN, Sched(S, f, l) \in Range(job')
                   PROVE
          /\ Sized(S, lens) /\ Sched(S, n_groups - 1, l) \in Range(job') /\ NoSched \notin Range(job')
          /\ \A p \in Range(job') : Rank(p) >= 5 =>
              p = Group(S, 1) \/ \E e \in 0..(n_groups - 1) : p = Sched(S, e, l)
          /\ IF Off \in Range(job') THEN Play(S, lens) \in Range(job') ELSE rot' = NoRotation
          /\ Play(S, lens) \in Range(job') \/ \A m \in S : on'[m] /\ armed'[m].n = n_groups
          /\ Group(S, 1) \in Range(job') \/ \A m \in S : gid'[m] = 1
          /\ \A e \in 0..(n_groups - 1) :
              Sched(S, e, l) \in Range(job') \/ (sched'.intv[e] = Interval(e, l) /\ sched'.group[e] = {1})
        BY DEF Rotating, Pending
      <3>1. Sched(S, f, l) \in Range(job) BY <1>4
      <3>2. /\ Sized(S, lens) /\ Sched(S, n_groups - 1, l) \in Range(job) /\ NoSched \notin Range(job)
            /\ \A p \in Range(job) : Rank(p) >= 5 =>
                p = Group(S, 1) \/ \E e \in 0..(n_groups - 1) : p = Sched(S, e, l)
            /\ \A m \in S : on[m] /\ armed[m].n = n_groups
            /\ \A m \in S : gid[m] = 1
            /\ \A e \in 0..(n_groups - 1) :
                Sched(S, e, l) \in Range(job) \/ (sched.intv[e] = Interval(e, l) /\ sched.group[e] = {1})
        BY <1>1, <2>9, <3>1 DEF Request, Rotating, Pending
      <3>3. l = long
        <4>1. Rank(Head(job)) >= 5 /\ Head(job) \in Range(job) BY <1>4, <2>1
        <4>2. Head(job) # Group(S, 1) BY <1>4, <2>9
        <4>3. PICK e \in 0..(n_groups - 1) : Head(job) = Sched(S, e, l)
          BY <3>2, <4>1, <4>2
        <4> QED BY <1>6, <4>3, SameSched
      <3>4. f \in Nat /\ 6 + f > 6 + k
        <4>1. f \in Nat BY Sizes
        <4>2. Rank(Sched(S, f, l)) = 6 + f BY <4>1, SchedRank
        <4> QED BY <2>2, <4>1, <4>2
      <3>5. k # n_groups - 1 /\ n_groups - 1 \in 0..(n_groups - 1) BY <2>1, <3>4, Sizes
      <3>6. rot' = NoRotation
        <4>1. ~Head(job).run BY <2>3, <3>5
        <4> QED BY <4>1, SchedSent
      <3>7. \A e \in 0..(n_groups - 1) : e # k => Sched(S, e, l) # Head(job)
        BY <1>6, SameSched
      <3>8. Sched(S, n_groups - 1, l) \in Range(job') BY <1>4, <3>2, <3>5, <3>7
      <3>9. \A e \in 0..(n_groups - 1) :
              Sched(S, e, l) \in Range(job') \/ (sched'.intv[e] = Interval(e, l) /\ sched'.group[e] = {1})
        BY <1>4, <2>7, <2>8, <3>2, <3>3, <3>7
      <3> QED BY <1>3, <1>4, <2>9, <3>2, <3>6, <3>8, <3>9
    <2> QED BY <1>4, <2>2, <2>10 DEF Requested, Request
  <1>7. ASSUME Head(job) # NoSched PROVE \E k \in 0..(n_groups - 1), long \in BOOLEAN : Head(job) = Sched(S, k, long)
    BY <1>2, <1>4, <1>7, KindsByDo
  <1> QED BY <1>5, <1>6, <1>7

\* The scheduler when its countdown has ended.
LEMMA FireSent ==
    ASSUME Types, Fire
    PROVE  /\ sched.running
           /\ sched'.intv = sched.intv /\ sched'.group = sched.group /\ sched'.depth = sched.depth
           /\ sched'.running = sched.running
           /\ sched'.idx = IF sched.idx + 1 < sched.depth THEN sched.idx + 1 ELSE 0
           /\ sched'.left = sched.intv[sched'.idx]
           /\ DOMAIN sched' = {"intv", "group", "depth", "running", "idx", "left"}
           /\ UNCHANGED <<isMaster, store, gid, job, req, armed, rot, bounds>>
  <1> DEFINE i == IF sched.idx + 1 < sched.depth THEN sched.idx + 1 ELSE 0
  <1>1. /\ sched' = [sched EXCEPT !.idx = i, !.left = sched.intv[i]] /\ sched.running
        /\ UNCHANGED <<isMaster, store, gid, job, req, armed, rot, bounds>>
    BY DEF Fire
  <1>2. /\ DOMAIN sched = {"intv", "group", "depth", "running", "idx", "left"}
    BY DEF Types
  <1> HIDE DEF i
  <1>3. PICK w : w = [sched EXCEPT !.idx = i] OBVIOUS
  <1>4. /\ w.intv = sched.intv /\ w.group = sched.group /\ w.depth = sched.depth /\ w.running = sched.running
        /\ w.idx = i /\ DOMAIN w = {"intv", "group", "depth", "running", "idx", "left"}
    BY <1>2, <1>3
  <1>5. sched' = [w EXCEPT !.left = sched.intv[i]] BY <1>1, <1>3
  <1>6. /\ sched'.intv = sched.intv /\ sched'.group = sched.group /\ sched'.depth = sched.depth
        /\ sched'.running = sched.running /\ sched'.idx = i /\ sched'.left = sched.intv[i]
        /\ DOMAIN sched' = {"intv", "group", "depth", "running", "idx", "left"}
    BY <1>4, <1>5
  <1> QED BY <1>1, <1>6 DEF i

LEMMA FireRequested == ASSUME Types, Requested, Fire PROVE Requested'
  <1>1. /\ sched'.intv = sched.intv /\ sched'.group = sched.group
        /\ UNCHANGED <<store, gid, job, req, armed, rot>>
    BY FireSent
  <1>2. on' = on BY DEF Fire, Trigger, player
  <1> QED BY <1>1, <1>2, RequestedKept DEF store

LEMMA ElsewhereRequested == ASSUME Types, Requested, Elsewhere PROVE Requested'
  <1>1. /\ UNCHANGED <<on, store, gid, sched, job, armed>> /\ rot' = NoRotation
    BY DEF Elsewhere, Trigger
  <1>2. req'.serial = req.serial BY DEF Elsewhere, Types
  <1> QED BY <1>1, <1>2, RequestedKept DEF store

LEMMA RefillRequested == ASSUME Requested, NEW m \in Modules, Refill(m) PROVE Requested'
  <1>1. UNCHANGED <<on, store, gid, sched, req, job, history>> BY DEF Refill
  <1> QED BY <1>1, RequestedKept DEF store, history

LEMMA TellRequested ==
    ASSUME NEW p, job' = <<p>>,
           \/ \E groups \in SUBSET Groups : p = Fires(groups)
           \/ \E S \in Coverings, v \in {"ddr", "sine"} : p = Mode(S, v)
           \/ \E S \in Coverings, g \in Groups : p = Group(S, g)
    PROVE  Requested'
  <1>1. PICK lens \in [Modules -> Lengths] : lens = [m \in Modules |-> <<1>>]
    BY LensFacts DEF Lengths
  <1>2. p \in Packets(Modules, lens) BY MemberPackets
  <1>3. Rank(p) \in {1, 5} BY Ranks
  <1>4. Fresh(<<p>>, Modules, lens) BY <1>2, <1>3, FreshOne
  <1>5. Fresh(job', Modules, lens) BY <1>4
  <1> QED BY <1>5, FreshRequest, CoveringFacts

LEMMA RouteRequested == ASSUME Route PROVE Requested'
  <1>1. CASE api_board_arm
    <2>s. PICK S \in Covers : \E lens \in [S -> Layouts] : job' = arm_waveform_from_files(S, lens)
      BY <1>1 DEF api_board_arm
    <2>1. PICK lens \in [S -> Layouts] : job' = arm_waveform_from_files(S, lens) BY <2>s
    <2>2. S \in Coverings /\ S \in SUBSET Modules /\ lens \in [S -> Lengths]
      BY CoveringFacts DEF Lengths
    <2>3. Fresh(job', S, lens) BY <2>1, <2>2, FilesFresh
    <2> QED BY <2>2, <2>3, FreshRequest
  <1>2. CASE api_board_arm_stereo_staircase
    <2>1. PICK S \in Covers, len \in Lens : job' = arm_stereo_staircase(S, len)
      BY <1>2 DEF api_board_arm_stereo_staircase
    <2>2. PICK lens : lens = [m \in S |-> <<len>>] OBVIOUS
    <2>3. lens \in [S -> Lengths] /\ Fresh(arm_stereo_staircase(S, len), S, lens) BY <2>2, StaircaseFresh
    <2>4. Fresh(job', S, lens) BY <2>1, <2>3
    <2>5. S \in Coverings BY CoveringFacts
    <2> QED BY <2>3, <2>4, <2>5, FreshRequest
  <1>3. ASSUME NEW S \in Coverings, NEW len \in [S -> Lens],
               job' = stop_rotation_schedule \o <<Mode(Modules, "ddr")>> \o arm_test1_pattern(S, len) \o <<All>>
        PROVE  Requested'
    <2>1. PICK lens : lens = [m \in S |-> <<len[m], len[m]>>] OBVIOUS
    <2>2. S \in SUBSET Modules BY CoveringFacts
    <2>3. lens \in [S -> Lengths] /\ Fresh(job', S, lens) BY <1>3, <2>1, <2>2, Test1Fresh
    <2> QED BY <2>3, FreshRequest
  <1>4. CASE api_board_arm_test1
    <2>s. PICK S \in Covers : \E len \in [S -> Lens] :
            job' = stop_rotation_schedule \o <<Mode(Modules, "ddr")>> \o arm_test1_pattern(S, len) \o <<All>>
      BY <1>4 DEF api_board_arm_test1
    <2>1. PICK len \in [S -> Lens] :
            job' = stop_rotation_schedule \o <<Mode(Modules, "ddr")>> \o arm_test1_pattern(S, len) \o <<All>>
      BY <2>s
    <2>2. S \in Coverings BY CoveringFacts
    <2> QED BY <1>3, <2>1, <2>2
  <1>5. CASE api_board_stop
    <2>1. job' = stop_rotation_schedule \o <<Mode(Modules, "ddr")>> \o arm_test1_pattern(Modules, [m \in Modules |-> 1]) \o <<All>>
      BY <1>5 DEF api_board_stop
    <2>2. PICK len \in [Modules -> Lens] : len = [m \in Modules |-> 1] BY LensFacts
    <2>3. job' = stop_rotation_schedule \o <<Mode(Modules, "ddr")>> \o arm_test1_pattern(Modules, len) \o <<All>>
      BY <2>1, <2>2
    <2> QED BY <1>3, <2>3, CoveringFacts
  <1>6. CASE api_board_arm_rotation
    <2>s. PICK S \in Covers, long \in BOOLEAN : \E lens \in [S -> Sets] :
            job' = <<Mode(Modules, "ddr")>> \o arm(S, lens) \o start_rotation_schedule(S, n_groups, long)
      BY <1>6 DEF api_board_arm_rotation
    <2>1. PICK lens \in [S -> Sets] :
            job' = <<Mode(Modules, "ddr")>> \o arm(S, lens) \o start_rotation_schedule(S, n_groups, long)
      BY <2>s
    <2>2. lens \in [S -> Lengths] /\ Fresh(job', S, lens) BY <2>1, RotationFresh
    <2>3. S \in Coverings BY CoveringFacts
    <2> QED BY <2>2, <2>3, FreshRequest
  <1>7. CASE api_trigger
    <2>1. PICK groups \in SUBSET Groups : job' = <<Fires(groups)>>
      BY <1>7 DEF api_trigger, Fires
    <2> QED BY <2>1, TellRequested
  <1>8. CASE api_board_dac_mode_ramp_set
    <2>1. PICK v \in {"ddr", "sine"} : job' = <<Mode(Modules, v)>>
      BY <1>8 DEF api_board_dac_mode_ramp_set
    <2> QED BY <2>1, TellRequested, CoveringFacts
  <1>9. CASE api_board_trig_group_set
    <2>1. PICK S \in Covers, g \in Groups : job' = <<Group(S, g)>>
      BY <1>9 DEF api_board_trig_group_set, Group
    <2>2. S \in Coverings BY CoveringFacts
    <2> QED BY <2>1, <2>2, TellRequested
  <1> QED BY <1>1, <1>2, <1>4, <1>5, <1>6, <1>7, <1>8, <1>9 DEF Route

LEMMA RequestedNext == ASSUME Types, Requested, Next PROVE Requested'
  <1>1. CASE Route BY <1>1, RouteRequested
  <1>2. CASE Packet
    BY <1>2, ModeRequested, OffRequested, WaveRequested, ListRequested, PlayRequested, GroupRequested,
       SchedRequested, TriggerRequested DEF Packet
  <1>3. CASE Raise
    <2>1. job' = <<>> BY <1>3 DEF Raise
    <2> QED BY <2>1, RequestedEmpty
  <1>4. CASE Fire BY <1>4, FireRequested
  <1>5. CASE Elsewhere BY <1>5, ElsewhereRequested
  <1>6. CASE \E m \in Modules : Refill(m) BY <1>6, RefillRequested
  <1> QED BY <1>1, <1>2, <1>3, <1>4, <1>5, <1>6 DEF Next

LEMMA RequestedInit == ASSUME Init PROVE Requested
  <1>1. PICK lens \in [Modules -> Lengths] : lens = [m \in Modules |-> <<1>>]
    BY LensFacts DEF Lengths
  <1>2. job \in Seq(Packets(Modules, lens)) /\ Range(job) = {} /\ Ordered(job)
    BY DEF Range, Ordered, Init
  <1>3. Writing(Modules, lens) /\ Rotating(Modules, lens)
    BY <1>2 DEF Writing, Rotating, Pending
  <1> QED BY <1>2, <1>3, CoveringFacts DEF Requested, Request

-----------------------------------------------------------------------------
(* Types.                                                                  *)

\* What each kind of step may do to the types: the players' variables, ...
PlayerTypes ==
    /\ on \in [Modules -> BOOLEAN] /\ depth \in [Modules -> Slots]
    /\ fsm \in [Modules -> {"idle", "starting", "running", "refill"}]
    /\ cur \in [Modules -> Slots] /\ next \in [Modules -> Slots]
    /\ play_pos \in [Modules -> -1..(MaxSlots - 1)]
    /\ active \in [Modules -> {"ddr", "sine"}] /\ idle \in [Modules -> {"ddr", "sine"}]
    /\ DOMAIN loads = Modules

\* ... and the others.
StoreTypes ==
    /\ mem \in [Addresses -> {None} \cup (Nat \X Modules \X Slots)]
    /\ list \in [Modules -> [Slots -> {None} \cup Entry]]
OtherTypes ==
    /\ isMaster \in BOOLEAN /\ gid \in [Modules -> Groups]
    /\ DOMAIN req = {"name", "serial", "failed", "joined"} /\ req.serial \in Nat
    /\ armed \in [Modules -> [serial : Nat, n : Nat]]
    /\ rot \in [modules : SUBSET Modules, long : BOOLEAN]
SchedTypes ==
    sched \in [intv : [Slots -> Intervals], group : [Slots -> SUBSET Groups], depth : 0..MaxSlots,
               running : BOOLEAN, idx : Slots, left : Intervals]

LEMMA TypesParts == Types <=> PlayerTypes /\ StoreTypes /\ OtherTypes /\ SchedTypes
  <1>1. SchedTypes => sched.idx \in Slots /\ sched.depth \in 0..MaxSlots BY DEF SchedTypes
  <1>2. StoreTypes => \A m \in Modules, i \in Slots : list[m][i] = None \/ list[m][i] \in Entry
    <2>1. ASSUME NEW m \in Modules, NEW i \in Slots, StoreTypes
          PROVE list[m][i] = None \/ list[m][i] \in Entry
      <3>1. list \in [Modules -> [Slots -> {None} \cup Entry]] BY <2>1 DEF StoreTypes
      <3>2. list[m] \in [Slots -> {None} \cup Entry] BY <3>1
      <3>3. list[m][i] \in {None} \cup Entry BY <3>2
      <3> QED BY <3>3
    <2> QED BY <2>1
  <1>3. PlayerTypes /\ StoreTypes /\ OtherTypes /\ SchedTypes => TypeOK
    BY <1>1, <1>2 DEF TypeOK, PlayerTypes, OtherTypes
  <1>4. Types => PlayerTypes BY DEF Types, TypeOK, PlayerTypes
  <1>5. Types => OtherTypes BY DEF Types, TypeOK, OtherTypes
  <1>6. Types => StoreTypes /\ SchedTypes BY DEF Types, StoreTypes, SchedTypes
  <1>7. TypeOK /\ PlayerTypes /\ StoreTypes /\ OtherTypes /\ SchedTypes => Types
    <2>1. PlayerTypes => DOMAIN loads = Modules BY DEF PlayerTypes
    <2> QED BY <2>1 DEF Types, StoreTypes, OtherTypes, SchedTypes
  <1> QED BY <1>3, <1>4, <1>5, <1>6, <1>7

LEMMA TypesLater == ASSUME PlayerTypes', StoreTypes', OtherTypes', SchedTypes' PROVE Types'
  <1>1. (Types <=> PlayerTypes /\ StoreTypes /\ OtherTypes /\ SchedTypes)' BY TypesParts, PTL
  <1> QED BY <1>1

LEMMA IncBound ==
    ASSUME NEW i \in Slots, NEW d \in Slots PROVE inc_idx(i, d) \in Slots
  <1>1. (d + MaxSlots - 1) % MaxSlots \in 0..(MaxSlots - 1)
    <2>1. d + MaxSlots - 1 \in Nat /\ MaxSlots \in Nat \ {0} BY Sizes DEF Slots
    <2> QED BY <2>1, ModBound
  <1> QED BY <1>1, Sizes DEF inc_idx, Slots

LEMMA TriggerTypes == ASSUME PlayerTypes, NEW groups, Trigger(groups) PROVE PlayerTypes'
  <1> DEFINE taken == {m \in Hit(groups) : fsm[m] = "running"}
  <1>1. /\ active' = [m \in Modules |-> IF m \in Hit(groups) THEN idle[m] ELSE active[m]]
        /\ idle' = [m \in Modules |-> IF m \in Hit(groups) THEN active[m] ELSE idle[m]]
    BY DEF Trigger
  <1>2. /\ cur' = [m \in Modules |-> IF m \in taken THEN next[m] ELSE cur[m]]
        /\ next' = [m \in Modules |-> IF m \in taken THEN inc_idx(next[m], depth[m]) ELSE next[m]]
        /\ fsm' = [m \in Modules |-> IF m \in taken THEN "refill" ELSE fsm[m]]
    BY DEF Trigger
  <1>3. play_pos' = [m \in Modules |-> IF m \notin taken THEN play_pos[m]
                                       ELSE IF play_pos[m] + 1 >= depth[m] THEN 0 ELSE play_pos[m] + 1]
    BY DEF Trigger
  <1>4. on' = on /\ depth' = depth /\ loads' = loads BY DEF Trigger
  <1> HIDE DEF taken
  <1>5. active' \in [Modules -> {"ddr", "sine"}] /\ idle' \in [Modules -> {"ddr", "sine"}]
    BY <1>1 DEF PlayerTypes
  <1>6. cur' \in [Modules -> Slots] /\ fsm' \in [Modules -> {"idle", "starting", "running", "refill"}]
    BY <1>2 DEF PlayerTypes
  <1>7. next' \in [Modules -> Slots]
    <2>1. ASSUME NEW m \in Modules PROVE inc_idx(next[m], depth[m]) \in Slots
      BY IncBound DEF PlayerTypes
    <2> QED BY <1>2, <2>1 DEF PlayerTypes
  <1>8. play_pos' \in [Modules -> -1..(MaxSlots - 1)]
    <2>1. ASSUME NEW m \in Modules
          PROVE (IF play_pos[m] + 1 >= depth[m] THEN 0 ELSE play_pos[m] + 1) \in -1..(MaxSlots - 1)
      <3>1. depth[m] \in 0..(MaxSlots - 1) /\ play_pos[m] \in -1..(MaxSlots - 1) BY DEF PlayerTypes, Slots
      <3> QED BY <3>1, Sizes
    <2> QED BY <1>3, <2>1 DEF PlayerTypes
  <1> QED BY <1>4, <1>5, <1>6, <1>7, <1>8 DEF PlayerTypes

LEMMA PlayersUnchanged == ASSUME PlayerTypes, UNCHANGED <<player, modes>> PROVE PlayerTypes'
  BY DEF PlayerTypes, player, modes

LEMMA FireTypes == ASSUME Types, Fire PROVE Types'
  <1>1. /\ sched'.intv = sched.intv /\ sched'.group = sched.group /\ sched'.depth = sched.depth
        /\ sched'.running = sched.running
        /\ sched'.idx = IF sched.idx + 1 < sched.depth THEN sched.idx + 1 ELSE 0
        /\ sched'.left = sched.intv[sched'.idx]
        /\ UNCHANGED <<isMaster, store, gid, job, req, armed, rot, bounds>>
    BY FireSent
  <1>2. PlayerTypes'
    <2>1. UNCHANGED <<player, modes>> \/ \E groups : Trigger(groups) BY DEF Fire
    <2> QED BY <2>1, TriggerTypes, PlayersUnchanged, TypesParts
  <1>3. SchedTypes'
    <2>1. SchedTypes BY TypesParts
    <2>2. sched'.idx \in Slots
      <3>1. sched.idx \in 0..(MaxSlots - 1) /\ sched.depth \in 0..MaxSlots BY <2>1 DEF SchedTypes, Slots
      <3> QED BY <1>1, <3>1, Sizes DEF Slots
    <2>3. sched'.left \in Intervals BY <1>1, <2>1, <2>2 DEF SchedTypes
    <2>4. sched' = [intv |-> sched'.intv, group |-> sched'.group, depth |-> sched'.depth,
                    running |-> sched'.running, idx |-> sched'.idx, left |-> sched'.left]
      <3>1. sched' = [sched EXCEPT !.idx = sched'.idx, !.left = sched'.left] 
        BY <1>1 DEF Fire
      <3> QED BY <2>1, <3>1 DEF SchedTypes
    <2> QED BY <1>1, <2>1, <2>2, <2>3, <2>4 DEF SchedTypes
  <1>4. StoreTypes' /\ OtherTypes'
    BY <1>1, TypesParts DEF StoreTypes, OtherTypes, store
  <1> QED BY <1>2, <1>3, <1>4, TypesLater

\* A packet that is sent is one of its request.
LEMMA SentPacket ==
    ASSUME Requested, job # <<>>
    PROVE  \E S \in Coverings : \E lens \in [S -> Lengths] : Request(S, lens) /\ Head(job) \in Packets(S, lens)
  <1>s. PICK S \in Coverings : \E lens \in [S -> Lengths] : Request(S, lens) BY DEF Requested
  <1>1. PICK lens \in [S -> Lengths] : Request(S, lens) BY <1>s
  <1>2. job \in Seq(Packets(S, lens)) BY <1>1 DEF Request
  <1>3. Head(job) \in Packets(S, lens) BY <1>2
  <1> QED BY <1>1, <1>3

LEMMA ModeTypes == ASSUME Types, Requested, set_dac_mode PROVE Types'
  <1>1. /\ job # <<>> /\ Head(job).do = "mode"
        /\ idle' = [m \in Modules |-> IF m \in Head(job).modules THEN Head(job).value ELSE idle[m]]
        /\ UNCHANGED <<isMaster, req, store, player, active, gid, sched, history>>
    BY DEF set_dac_mode, Do, Sent, This
  <1>2. PICK T \in Coverings, v \in {"ddr", "sine"} : Head(job) = Mode(T, v)
    BY <1>1, SentPacket, KindsByDo
  <1>3. Head(job).value \in {"ddr", "sine"} BY <1>2 DEF Mode
  <1>4. PlayerTypes'
    BY <1>1, <1>3, TypesParts DEF PlayerTypes, player
  <1>5. StoreTypes' /\ OtherTypes' /\ SchedTypes'
    BY <1>1, TypesParts DEF StoreTypes, OtherTypes, SchedTypes, store, history
  <1> QED BY <1>4, <1>5, TypesLater

LEMMA OffTypes == ASSUME Types, play_off PROVE Types'
  <1>1. /\ on' = [m \in Modules |-> FALSE] /\ depth' = [m \in Modules |-> 0]
        /\ fsm' = [m \in Modules |-> "idle"] /\ play_pos' = [m \in Modules |-> -1]
        /\ cur' = [m \in Modules |-> 0] /\ next' = [m \in Modules |-> 0]
        /\ loads' = [m \in Modules |-> None]
        /\ armed' = [m \in Modules |-> NotArmed] /\ rot' = NoRotation
        /\ UNCHANGED <<isMaster, req, store, modes, gid, sched>>
    BY DEF play_off, Sent
  <1>2. 0 \in Slots /\ -1 \in -1..(MaxSlots - 1) BY Sizes DEF Slots
  <1>3. PlayerTypes' BY <1>1, <1>2, TypesParts DEF PlayerTypes, modes
  <1>4. OtherTypes'
    <2>1. armed' \in [Modules -> [serial : Nat, n : Nat]] BY <1>1 DEF NotArmed
    <2>2. rot' \in [modules : SUBSET Modules, long : BOOLEAN] BY <1>1 DEF NoRotation
    <2> QED BY <1>1, <2>1, <2>2, TypesParts DEF OtherTypes
  <1>5. StoreTypes' /\ SchedTypes'
    BY <1>1, TypesParts DEF StoreTypes, SchedTypes, store
  <1> QED BY <1>3, <1>4, <1>5, TypesLater

\* What a write is of.
LEMMA WaveOf ==
    ASSUME Requested, job # <<>>, Head(job).do = "wave"
    PROVE  Head(job).m \in Modules /\ Head(job).slot \in Slots
  <1>s. PICK S \in Coverings : \E lens \in [S -> Lengths] : Head(job) \in Packets(S, lens) BY SentPacket
  <1>1. PICK lens \in [S -> Lengths] : Head(job) \in Packets(S, lens) BY <1>s
  <1>2. PICK m \in S, i \in Nat : i \in 0..(Len(lens[m]) - 1) /\ Head(job) = Step("wave", m, lens[m], i)
    BY <1>1, KindsByDo
  <1>3. Head(job).m = m /\ Head(job).slot = i BY <1>2 DEF Step
  <1>4. m \in Modules BY CoveringFacts
  <1>5. i \in Slots
    <2>1. lens[m] \in Lengths OBVIOUS
    <2>2. Len(lens[m]) \in 1..MaxSlots BY <2>1, LengthsFacts
    <2> QED BY <1>2, <2>2, Sizes DEF Slots
  <1> QED BY <1>3, <1>4, <1>5

LEMMA WaveTypes == ASSUME Types, Requested, write_wave PROVE Types'
  <1>1. /\ job # <<>> /\ Head(job).do = "wave"
        /\ req' = req \/ req' = [req EXCEPT !.failed = TRUE]
        /\ \/ mem' = mem
           \/ mem' = [a \in Addresses |-> IF a \in Bursts(Head(job).addr, Head(job).len)
                                          THEN <<req.serial, Head(job).m, Head(job).slot>> ELSE mem[a]]
        /\ UNCHANGED <<isMaster, list, player, modes, gid, sched, history>>
    BY DEF write_wave, Do, This
  <1>2. req.serial \in Nat /\ DOMAIN req = {"name", "serial", "failed", "joined"}
    BY DEF Types
  <1>3. req'.serial \in Nat /\ DOMAIN req' = {"name", "serial", "failed", "joined"}
    BY <1>1, <1>2
  <1>4. <<req.serial, Head(job).m, Head(job).slot>> \in Nat \X Modules \X Slots
    BY <1>1, <1>2, WaveOf
  <1>5. StoreTypes' BY <1>1, <1>4, TypesParts DEF StoreTypes
  <1>6. OtherTypes' BY <1>1, <1>3, TypesParts DEF OtherTypes, history
  <1>7. PlayerTypes' /\ SchedTypes' BY <1>1, TypesParts, PlayersUnchanged DEF SchedTypes
  <1> QED BY <1>5, <1>6, <1>7, TypesLater

LEMMA RaiseTypes == ASSUME Types, Requested, Raise PROVE Types'
  <1>1. /\ job # <<>> /\ req' = [req EXCEPT !.failed = TRUE]
        /\ \/ mem' = mem
           \/ /\ Head(job).do = "wave"
              /\ mem' = [mem EXCEPT ![Head(job).addr] = <<req.serial, Head(job).m, Head(job).slot>>]
        /\ UNCHANGED <<isMaster, list, player, modes, gid, sched, history>>
    BY DEF Raise, Do, This
  <1>2. req.serial \in Nat /\ DOMAIN req = {"name", "serial", "failed", "joined"}
    BY DEF Types
  <1>3. req'.serial \in Nat /\ DOMAIN req' = {"name", "serial", "failed", "joined"}
    BY <1>1, <1>2
  <1>4. Head(job).do = "wave" => <<req.serial, Head(job).m, Head(job).slot>> \in Nat \X Modules \X Slots
    BY <1>1, <1>2, WaveOf
  <1>5. StoreTypes' BY <1>1, <1>4, TypesParts DEF StoreTypes
  <1>6. OtherTypes' BY <1>1, <1>3, TypesParts DEF OtherTypes, history
  <1>7. PlayerTypes' /\ SchedTypes' BY <1>1, TypesParts, PlayersUnchanged DEF SchedTypes
  <1> QED BY <1>5, <1>6, <1>7, TypesLater

LEMMA ListTypes == ASSUME Types, Requested, send_list_write PROVE Types'
  <1>1. /\ job # <<>> /\ Head(job).do = "list"
        /\ UNCHANGED <<isMaster, req, mem, player, modes, gid, sched, history>>
        /\ list' = [list EXCEPT ![Head(job).m][Head(job).slot] = [addr |-> Head(job).addr, len |-> Head(job).len]]
    BY DEF send_list_write, Do, Sent, This
  <1>s. PICK S \in Coverings : \E lens \in [S -> Lengths] : Request(S, lens) /\ Head(job) \in Packets(S, lens)
    BY <1>1, SentPacket
  <1>2. PICK lens \in [S -> Lengths] : Request(S, lens) /\ Head(job) \in Packets(S, lens) BY <1>s
  <1>3. PICK m \in S, i \in Nat : i \in 0..(Len(lens[m]) - 1) /\ Head(job) = Step("list", m, lens[m], i)
    BY <1>1, <1>2, KindsByDo
  <1>4. Head(job).m = m /\ Head(job).slot = i
    BY <1>3 DEF Step
  <1>5. [addr |-> Head(job).addr, len |-> Head(job).len] = Slot(m, lens[m], i)
    <2>1. /\ Head(job).addr = _module_base_addr(m) + Begins(lens[m])[i] /\ Head(job).len = lens[m][i + 1]
      BY <1>3 DEF Step
    <2> QED BY <2>1 DEF Slot
  <1>6. Rank(Head(job)) = 3 /\ Rank(Play(S, lens)) = 4 BY <1>3, Ranks
  <1>7. /\ job' = Tail(job) /\ job # <<>> BY <1>1 DEF send_list_write, Sent
  <1>8. /\ Range(job) = Range(job') \cup {Head(job)}
        /\ \A q \in Range(job') : Before(Head(job), q)
    BY <1>2, <1>7, Sending
  <1>9. Pending(Play(S, lens)) BY <1>2, <1>6, <1>8 DEF Request, Writing
  <1>10. Step("wave", m, lens[m], i) \notin Range(job)
    <2>1. /\ Step("wave", m, lens[m], i).do = "wave" /\ Step("wave", m, lens[m], i).m = m
          /\ Step("wave", m, lens[m], i).slot = i
      BY DEF Step
    <2>2. Rank(Step("wave", m, lens[m], i)) = 3 BY Ranks
    <2>3. ~Before(Head(job), Step("wave", m, lens[m], i))
      BY <1>1, <1>4, <1>6, <2>1, <2>2 DEF Before
    <2>4. Step("wave", m, lens[m], i) # Head(job) BY <1>1, <2>1
    <2> QED BY <1>8, <2>3, <2>4
  <1>11. Slot(m, lens[m], i) \in Entry
    BY <1>2, <1>3, <1>9, <1>10 DEF Request, Writing, Pending, Written, Holds
  <1>12. list' = [list EXCEPT ![m][i] = Slot(m, lens[m], i)] BY <1>1, <1>4, <1>5
  <1>13. StoreTypes'
    <2>1. list \in [Modules -> [Slots -> {None} \cup Entry]] /\ mem \in [Addresses -> {None} \cup (Nat \X Modules \X Slots)]
      BY TypesParts DEF StoreTypes
    <2>2. m \in Modules BY CoveringFacts
    <2>3. i \in Slots
      <3>1. lens[m] \in Lengths OBVIOUS
      <3>2. Len(lens[m]) \in 1..MaxSlots BY <3>1, LengthsFacts
      <3> QED BY <1>3, <3>2, Sizes DEF Slots
    <2>4. list' \in [Modules -> [Slots -> {None} \cup Entry]] BY <1>11, <1>12, <2>1, <2>2, <2>3
    <2> QED BY <1>1, <2>1, <2>4 DEF StoreTypes
  <1>14. OtherTypes' BY <1>1, TypesParts DEF OtherTypes, history
  <1>15. PlayerTypes' /\ SchedTypes' BY <1>1, TypesParts, PlayersUnchanged DEF SchedTypes
  <1> QED BY <1>13, <1>14, <1>15, TypesLater

LEMMA PlayOf ==
    ASSUME Requested, job # <<>>, Head(job).do = "play"
    PROVE  \A m \in Head(job).modules : Head(job).n[m] \in 1..MaxSlots
  <1>s. PICK S \in Coverings : \E lens \in [S -> Lengths] : Head(job) \in Packets(S, lens) BY SentPacket
  <1>1. PICK lens \in [S -> Lengths] : Head(job) \in Packets(S, lens) BY <1>s
  <1>2. Head(job) = Play(S, lens)
    BY <1>1, KindsByDo
  <1>3. Head(job).modules = S /\ Head(job).n = [m \in S |-> Len(lens[m])] BY <1>2 DEF Play
  <1>4. ASSUME NEW m \in S PROVE Head(job).n[m] \in 1..MaxSlots
    <2>1. lens[m] \in Lengths OBVIOUS
    <2>2. Len(lens[m]) \in 1..MaxSlots BY <2>1, LengthsFacts
    <2> QED BY <1>3, <2>2
  <1> QED BY <1>3, <1>4

LEMMA PlayTypes == ASSUME Types, Requested, play_on PROVE Types'
  <1>1. /\ job # <<>> /\ Head(job).do = "play"
        /\ on' = [m \in Modules |-> m \in Head(job).modules]
        /\ depth' = [m \in Modules |-> IF m \in Head(job).modules THEN Head(job).n[m] % MaxSlots ELSE 0]
        /\ fsm' = [m \in Modules |-> IF m \in Head(job).modules THEN "starting" ELSE "idle"]
        /\ next' = [m \in Modules |-> IF m \in Head(job).modules THEN inc_idx(0, Head(job).n[m] % MaxSlots)
                                      ELSE next[m]]
        /\ armed' = [m \in Modules |-> IF m \in Head(job).modules
                                       THEN [serial |-> req.serial, n |-> Head(job).n[m]] ELSE NotArmed]
        /\ UNCHANGED <<isMaster, req, store, cur, loads, play_pos, modes, gid, sched, rot>>
    BY DEF play_on, Do, Sent, This
  <1>2. \A m \in Head(job).modules : Head(job).n[m] \in 1..MaxSlots BY <1>1, PlayOf
  <1>3. ASSUME NEW m \in Head(job).modules PROVE Head(job).n[m] % MaxSlots \in Slots
    <2>1. MaxSlots \in Nat \ {0} /\ Head(job).n[m] \in Nat BY <1>2, Sizes
    <2> QED BY <2>1, ModBound DEF Slots
  <1>4. 0 \in Slots BY Sizes DEF Slots
  <1>5. \A m \in Head(job).modules : inc_idx(0, Head(job).n[m] % MaxSlots) \in Slots BY <1>3, <1>4, IncBound
  <1>6. req.serial \in Nat BY DEF Types
  <1>7. PlayerTypes'
    <2>1. on' \in [Modules -> BOOLEAN] BY <1>1
    <2>2. depth' \in [Modules -> Slots] BY <1>1, <1>3, <1>4
    <2>3. fsm' \in [Modules -> {"idle", "starting", "running", "refill"}] BY <1>1
    <2>4. next' \in [Modules -> Slots] BY <1>1, <1>5, TypesParts DEF PlayerTypes
    <2> QED BY <1>1, <2>1, <2>2, <2>3, <2>4, TypesParts DEF PlayerTypes, modes
  <1>8. OtherTypes'
    <2>1. \A m \in Head(job).modules : [serial |-> req.serial, n |-> Head(job).n[m]] \in [serial : Nat, n : Nat]
      BY <1>2, <1>6, Sizes
    <2>2. NotArmed \in [serial : Nat, n : Nat] BY DEF NotArmed
    <2>3. armed' \in [Modules -> [serial : Nat, n : Nat]] BY <1>1, <2>1, <2>2
    <2> QED BY <1>1, <2>3, TypesParts DEF OtherTypes
  <1>9. StoreTypes' /\ SchedTypes' BY <1>1, TypesParts DEF StoreTypes, SchedTypes, store
  <1> QED BY <1>7, <1>8, <1>9, TypesLater

LEMMA GroupTypes == ASSUME Types, Requested, apply_trig_groups PROVE Types'
  <1>1. /\ job # <<>> /\ Head(job).do = "group"
        /\ gid' = [m \in Modules |-> IF m \in Head(job).modules THEN Head(job).group ELSE gid[m]]
        /\ UNCHANGED <<isMaster, req, store, player, modes, sched, armed>> /\ rot' = NoRotation
    BY DEF apply_trig_groups, Do, Sent, This
  <1>s. PICK S \in Coverings : \E lens \in [S -> Lengths] : Head(job) \in Packets(S, lens) BY <1>1, SentPacket
  <1>2. PICK lens \in [S -> Lengths] : Head(job) \in Packets(S, lens) BY <1>s
  <1>3. PICK T \in Coverings, g \in Groups : Head(job) = Group(T, g) BY <1>1, <1>2, KindsByDo
  <1>4. Head(job).group \in Groups BY <1>3 DEF Group
  <1>5. OtherTypes'
    <2>1. gid' \in [Modules -> Groups] BY <1>1, <1>4, TypesParts DEF OtherTypes
    <2>2. rot' \in [modules : SUBSET Modules, long : BOOLEAN] BY <1>1 DEF NoRotation
    <2> QED BY <1>1, <2>1, <2>2, TypesParts DEF OtherTypes
  <1>6. PlayerTypes' BY <1>1, PlayersUnchanged, TypesParts
  <1>7. StoreTypes' /\ SchedTypes' BY <1>1, TypesParts DEF StoreTypes, SchedTypes, store
  <1> QED BY <1>5, <1>6, <1>7, TypesLater

\* What an entry of the schedule may be.
LEMMA SchedOf ==
    ASSUME Requested, job # <<>>, Head(job).do = "sched"
    PROVE  /\ Head(job).slot \in Slots /\ Head(job).intv \in Intervals /\ Head(job).groups \in SUBSET Groups
           /\ Head(job).depth \in 0..MaxSlots /\ Head(job).run \in BOOLEAN
           /\ Head(job).modules \in SUBSET Modules
           /\ Head(job).run => Head(job).intv.long \in BOOLEAN
  <1>s. PICK S \in Coverings : \E lens \in [S -> Lengths] : Head(job) \in Packets(S, lens) BY SentPacket
  <1>1. PICK lens \in [S -> Lengths] : Head(job) \in Packets(S, lens) BY <1>s
  <1>2. CASE Head(job) = NoSched
    <2>1. /\ Head(job).slot = 0 /\ Head(job).intv = None /\ Head(job).groups = {} /\ Head(job).depth = 0
          /\ Head(job).run = FALSE /\ Head(job).modules = {}
      BY <1>2 DEF NoSched
    <2>2. 0 \in Slots /\ 0 \in 0..MaxSlots BY Sizes DEF Slots
    <2> QED BY <2>1, <2>2 DEF Intervals
  <1>3. ASSUME NEW k \in 0..(n_groups - 1), NEW long \in BOOLEAN, Head(job) = Sched(S, k, long)
        PROVE  /\ Head(job).slot \in Slots /\ Head(job).intv \in Intervals /\ Head(job).groups \in SUBSET Groups
               /\ Head(job).depth \in 0..MaxSlots /\ Head(job).run \in BOOLEAN
               /\ Head(job).modules \in SUBSET Modules
               /\ Head(job).run => Head(job).intv.long \in BOOLEAN
    <2>1. /\ Head(job).slot = k /\ Head(job).intv = Interval(k, long) /\ Head(job).groups = {1}
          /\ Head(job).depth = n_groups /\ Head(job).run = (k = n_groups - 1) /\ Head(job).modules = S
      BY <1>3 DEF Sched
    <2>2. k \in Slots /\ n_groups \in 0..MaxSlots BY Sizes DEF Slots
    <2>3. Interval(k, long) \in [set : 0..(n_groups - 1), long : BOOLEAN] /\ Interval(k, long).long = long
      <3>1. (IF k = 0 THEN n_groups - 1 ELSE k - 1) \in 0..(n_groups - 1) BY Sizes
      <3> QED BY <3>1 DEF Interval
    <2>4. S \in SUBSET Modules BY CoveringFacts
    <2> QED BY <2>1, <2>2, <2>3, <2>4 DEF Intervals, Groups
  <1>4. ASSUME Head(job) # NoSched
        PROVE  \E k \in 0..(n_groups - 1), long \in BOOLEAN : Head(job) = Sched(S, k, long)
    BY <1>1, <1>4, KindsByDo
  <1> QED BY <1>2, <1>3, <1>4

LEMMA SchedTyped == ASSUME Types, Requested, send_group_sched_ctrl PROVE Types'
  <1>1. /\ job # <<>> /\ job' = Tail(job) /\ Head(job).do = "sched"
        /\ UNCHANGED <<isMaster, store, player, modes, gid, armed, req, bounds>>
    BY SchedSent
  <1>2. /\ sched'.intv = [sched.intv EXCEPT ![Head(job).slot] = Head(job).intv]
        /\ sched'.group = [sched.group EXCEPT ![Head(job).slot] = Head(job).groups]
        /\ sched'.depth = Head(job).depth /\ sched'.running = Head(job).run
        /\ IF Head(job).run /\ ~sched.running THEN sched'.idx = 0 /\ sched'.left = sched.intv[0]
           ELSE sched'.idx = sched.idx /\ sched'.left = sched.left
    BY SchedSent
  <1>3. rot' = IF Head(job).run /\ ~sched.running /\ \A m \in Head(job).modules : play_pos[m] = -1
               THEN [modules |-> Head(job).modules, long |-> Head(job).intv.long]
               ELSE IF Head(job).run /\ sched.running THEN rot ELSE NoRotation
    BY SchedSent
  <1>4. sched' = [intv |-> sched'.intv, group |-> sched'.group, depth |-> sched'.depth,
                  running |-> sched'.running, idx |-> sched'.idx, left |-> sched'.left]
    BY SchedSent
  <1>5. /\ Head(job).slot \in Slots /\ Head(job).intv \in Intervals /\ Head(job).groups \in SUBSET Groups
        /\ Head(job).depth \in 0..MaxSlots /\ Head(job).run \in BOOLEAN
        /\ Head(job).modules \in SUBSET Modules
        /\ Head(job).run => Head(job).intv.long \in BOOLEAN
    BY <1>1, SchedOf
  <1>6. OtherTypes'
    <2>1. NoRotation \in [modules : SUBSET Modules, long : BOOLEAN] BY DEF NoRotation
    <2>2. rot \in [modules : SUBSET Modules, long : BOOLEAN] BY TypesParts DEF OtherTypes
    <2>3. rot' \in [modules : SUBSET Modules, long : BOOLEAN] BY <1>3, <1>5, <2>1, <2>2
    <2> QED BY <1>1, <2>3, TypesParts DEF OtherTypes
  <1>7. SchedTypes'
    <2>1. SchedTypes BY TypesParts
    <2>2. sched.intv \in [Slots -> Intervals] /\ sched.group \in [Slots -> SUBSET Groups]
          /\ sched.idx \in Slots /\ sched.left \in Intervals
      BY <2>1 DEF SchedTypes
    <2>3. 0 \in Slots BY Sizes DEF Slots
    <2>4. /\ sched'.intv \in [Slots -> Intervals] /\ sched'.group \in [Slots -> SUBSET Groups]
          /\ sched'.depth \in 0..MaxSlots /\ sched'.running \in BOOLEAN
      BY <1>2, <1>5, <2>2
    <2>5. sched'.idx \in Slots /\ sched'.left \in Intervals BY <1>2, <2>2, <2>3
    <2> QED BY <1>4, <2>4, <2>5 DEF SchedTypes
  <1>8. PlayerTypes' BY <1>1, PlayersUnchanged, TypesParts
  <1>9. StoreTypes' BY <1>1, TypesParts DEF StoreTypes, store
  <1> QED BY <1>6, <1>7, <1>8, <1>9, TypesLater

LEMMA TriggerTyped == ASSUME Types, trigger PROVE Types'
  <1>1. /\ UNCHANGED <<isMaster, req, store, gid, sched, armed>> /\ rot' = NoRotation
    BY DEF trigger, Sent
  <1>2. PlayerTypes' BY TriggerTypes, TypesParts DEF trigger
  <1>3. OtherTypes'
    <2>1. NoRotation \in [modules : SUBSET Modules, long : BOOLEAN] BY DEF NoRotation
    <2> QED BY <1>1, <2>1, TypesParts DEF OtherTypes
  <1>4. StoreTypes' /\ SchedTypes' BY <1>1, TypesParts DEF StoreTypes, SchedTypes, store
  <1> QED BY <1>2, <1>3, <1>4, TypesLater

LEMMA ElsewhereTypes == ASSUME Types, Elsewhere PROVE Types'
  <1>1. /\ UNCHANGED <<isMaster, store, gid, sched, armed>> /\ rot' = NoRotation
        /\ req' = [req EXCEPT !.joined = req.name = "stop"]
    BY DEF Elsewhere
  <1>2. PlayerTypes'
    <2>1. PICK groups : Trigger(groups) BY DEF Elsewhere
    <2> QED BY <2>1, TriggerTypes, TypesParts
  <1>3. OtherTypes'
    <2>1. NoRotation \in [modules : SUBSET Modules, long : BOOLEAN] BY DEF NoRotation
    <2>2. DOMAIN req = {"name", "serial", "failed", "joined"} /\ req.serial \in Nat BY DEF Types
    <2>3. DOMAIN req' = {"name", "serial", "failed", "joined"} /\ req'.serial \in Nat BY <1>1, <2>2
    <2> QED BY <1>1, <2>1, <2>3, TypesParts DEF OtherTypes
  <1>4. StoreTypes' /\ SchedTypes' BY <1>1, TypesParts DEF StoreTypes, SchedTypes, store
  <1> QED BY <1>2, <1>3, <1>4, TypesLater

LEMMA RefillTypes == ASSUME Types, NEW m \in Modules, Refill(m) PROVE Types'
  <1>1. /\ UNCHANGED <<isMaster, req, store, on, depth, cur, next, play_pos, modes, gid, sched, history>>
        /\ fsm' = [fsm EXCEPT ![m] = "running"] /\ loads' = [loads EXCEPT ![m] = list[m][cur[m]]]
    BY DEF Refill
  <1>2. PlayerTypes' BY <1>1, TypesParts DEF PlayerTypes, modes
  <1>3. OtherTypes' BY <1>1, TypesParts DEF OtherTypes, history
  <1>4. StoreTypes' /\ SchedTypes' BY <1>1, TypesParts DEF StoreTypes, SchedTypes, store
  <1> QED BY <1>2, <1>3, <1>4, TypesLater

\* What all routes do, apart from the packets they queue.
LEMMA RouteSent ==
    ASSUME Types, Route
    PROVE  /\ job = <<>> /\ UNCHANGED <<isMaster, store, player, modes, gid, sched, history>>
           /\ DOMAIN req' = {"name", "serial", "failed", "joined"} /\ req'.serial \in Nat
           /\ \/ \E name : req' = [name |-> name, serial |-> req.serial + 1, failed |-> FALSE, joined |-> FALSE]
              \/ req' = [req EXCEPT !.joined = req.name = "stop"]
  <1>1. DOMAIN req = {"name", "serial", "failed", "joined"} /\ req.serial \in Nat BY DEF Types
  <1>2. ASSUME NEW name, Arm(name)
        PROVE  /\ job = <<>> /\ UNCHANGED <<isMaster, store, player, modes, gid, sched, history>>
               /\ req' = [name |-> name, serial |-> req.serial + 1, failed |-> FALSE, joined |-> FALSE]
               /\ DOMAIN req' = {"name", "serial", "failed", "joined"} /\ req'.serial \in Nat
    <2>1. /\ job = <<>> /\ UNCHANGED <<isMaster, store, player, modes, gid, sched, history>>
          /\ req' = [name |-> name, serial |-> req.serial + 1, failed |-> FALSE, joined |-> FALSE]
      BY <1>2 DEF Arm
    <2> QED BY <1>1, <2>1
  <1>3. ASSUME Tell
        PROVE  /\ job = <<>> /\ UNCHANGED <<isMaster, store, player, modes, gid, sched, history>>
               /\ req' = [req EXCEPT !.joined = req.name = "stop"]
               /\ DOMAIN req' = {"name", "serial", "failed", "joined"} /\ req'.serial \in Nat
    <2>1. /\ job = <<>> /\ UNCHANGED <<isMaster, store, player, modes, gid, sched, history>>
          /\ req' = [req EXCEPT !.joined = req.name = "stop"]
      BY <1>3 DEF Tell
    <2> QED BY <1>1, <2>1
  <1>4. (\E name : Arm(name)) \/ Tell
    BY DEF Route, api_board_arm, api_board_arm_stereo_staircase, api_board_arm_test1, api_board_arm_rotation,
           api_board_stop, api_trigger, api_board_dac_mode_ramp_set, api_board_trig_group_set
  <1>5. CASE Tell BY <1>3, <1>5
  <1>6. ASSUME NEW name, Arm(name)
        PROVE  /\ job = <<>> /\ UNCHANGED <<isMaster, store, player, modes, gid, sched, history>>
               /\ DOMAIN req' = {"name", "serial", "failed", "joined"} /\ req'.serial \in Nat
               /\ \E n : req' = [name |-> n, serial |-> req.serial + 1, failed |-> FALSE, joined |-> FALSE]
    BY <1>2, <1>6
  <1> QED BY <1>4, <1>5, <1>6

LEMMA RouteTypes == ASSUME Types, Route PROVE Types'
  <1>1. /\ UNCHANGED <<isMaster, store, player, modes, gid, sched, history>>
        /\ DOMAIN req' = {"name", "serial", "failed", "joined"} /\ req'.serial \in Nat
    BY RouteSent
  <1>2. PlayerTypes' BY <1>1, PlayersUnchanged, TypesParts
  <1>3. OtherTypes' BY <1>1, TypesParts DEF OtherTypes, history
  <1>4. StoreTypes' /\ SchedTypes' BY <1>1, TypesParts DEF StoreTypes, SchedTypes, store
  <1> QED BY <1>2, <1>3, <1>4, TypesLater

LEMMA TypesNext == ASSUME Types, Requested, Next PROVE Types'
  <1>1. CASE Packet
    BY <1>1, ModeTypes, OffTypes, WaveTypes, ListTypes, PlayTypes, GroupTypes, SchedTyped, TriggerTyped
       DEF Packet
  <1>2. CASE \E m \in Modules : Refill(m) BY <1>2, RefillTypes
  <1> QED BY <1>1, <1>2, RouteTypes, RaiseTypes, FireTypes, ElsewhereTypes DEF Next

LEMMA TypesInit == ASSUME Init PROVE Types
  <1>1. 0 \in Slots /\ 0 \in 0..MaxSlots /\ -1 \in -1..(MaxSlots - 1) BY Sizes DEF Slots
  <1>2. PlayerTypes
    BY <1>1 DEF Init, PlayerTypes
  <1>3. StoreTypes BY DEF Init, StoreTypes
  <1>4. OtherTypes
    <2>1. gid \in [Modules -> Groups] /\ isMaster \in BOOLEAN BY DEF Init, Groups
    <2>2. DOMAIN req = {"name", "serial", "failed", "joined"} /\ req.serial \in Nat BY DEF Init
    <2>3. armed \in [Modules -> [serial : Nat, n : Nat]] BY DEF Init, NotArmed
    <2>4. rot \in [modules : SUBSET Modules, long : BOOLEAN] BY DEF Init, NoRotation
    <2> QED BY <2>1, <2>2, <2>3, <2>4 DEF OtherTypes
  <1>5. SchedTypes
    <2>1. sched = [intv |-> [i \in Slots |-> None], group |-> [i \in Slots |-> {}],
                depth |-> 0, running |-> FALSE, idx |-> 0, left |-> None]
      BY DEF Init
    <2>2. None \in Intervals /\ {} \in SUBSET Groups BY DEF Intervals
    <2>3. [i \in Slots |-> None] \in [Slots -> Intervals] /\ [i \in Slots |-> {}] \in [Slots -> SUBSET Groups]
      BY <2>2
    <2> QED BY <1>1, <2>1, <2>2, <2>3 DEF SchedTypes
  <1> QED BY <1>2, <1>3, <1>4, <1>5, TypesParts

-----------------------------------------------------------------------------
(* The players.                                                            *)

LEMMA IncSucc ==
    ASSUME NEW n \in 1..MaxSlots, NEW i \in 0..(n - 1)
    PROVE  inc_idx(i, n % MaxSlots) = Succ(i, n)
  <1>0. MaxSlots \in Nat \ {0} /\ n \in Nat /\ n >= 1 /\ n <= MaxSlots BY Sizes
  <1>1. ((n % MaxSlots) + MaxSlots - 1) % MaxSlots = n - 1
    <2>1. CASE n < MaxSlots
      <3>1. n % MaxSlots = n
        <4>1. n \in 0..(MaxSlots - 1) BY <1>0, <2>1
        <4> QED BY <1>0, <4>1, ModLess
      <3>2. (n + MaxSlots - 1) % MaxSlots = (n + MaxSlots - 1) - MaxSlots
        <4>1. n + MaxSlots - 1 \in MaxSlots..(2 * MaxSlots - 1) BY <1>0, <2>1
        <4> QED BY <1>0, <4>1, ModOver
      <3>3. (n + MaxSlots - 1) - MaxSlots = n - 1 BY <1>0
      <3> QED BY <3>1, <3>2, <3>3
    <2>2. CASE n = MaxSlots
      <3>1. MaxSlots % MaxSlots = 0
        <4>1. MaxSlots \in MaxSlots..(2 * MaxSlots - 1) /\ MaxSlots - MaxSlots = 0 BY <1>0
        <4> QED BY <1>0, <4>1, ModOver
      <3>2. (MaxSlots - 1) % MaxSlots = MaxSlots - 1
        <4>1. MaxSlots - 1 \in 0..(MaxSlots - 1) BY <1>0
        <4> QED BY <1>0, <4>1, ModLess
      <3>3. (n % MaxSlots) + MaxSlots - 1 = MaxSlots - 1 BY <1>0, <2>2, <3>1
      <3> QED BY <2>2, <3>2, <3>3
    <2> QED BY <1>0, <2>1, <2>2
  <1>2. i >= n - 1 <=> i = n - 1 BY <1>0
  <1> QED BY <1>1, <1>2 DEF inc_idx, Succ

LEMMA PredSucc ==
    ASSUME NEW n \in Nat \ {0}, NEW c \in 0..(n - 1)
    PROVE  Succ(c, n) \in 0..(n - 1) /\ Pred(Succ(c, n), n) = c
  BY DEF Succ, Pred

LEMMA PredMod ==
    ASSUME NEW n \in Nat \ {0}, NEW c \in 0..(n - 1)
    PROVE  (c + n - 1) % n = Pred(c, n) /\ Pred(c, n) \in 0..(n - 1)
  <1>1. CASE c = 0
    <2>1. n - 1 \in 0..(n - 1) /\ c + n - 1 = n - 1 BY <1>1
    <2> QED BY <1>1, <2>1, ModLess DEF Pred
  <1>2. CASE c # 0
    <2>1. c + n - 1 \in n..(2 * n - 1) /\ (c + n - 1) - n = c - 1 BY <1>2
    <2>2. (c + n - 1) % n = (c + n - 1) - n BY <2>1, ModOver
    <2> QED BY <1>2, <2>1, <2>2 DEF Pred
  <1> QED BY <1>1, <1>2

\* What a player's state says, apart from the trigger it is about to take.
LEMMA PlayersKept ==
    ASSUME Players, UNCHANGED <<on, depth, fsm, cur, next, shows, loads, play_pos, armed, list>>,
           mem' = mem \/ AllOff
    PROVE  Players'
  <1>1. /\ on' = on /\ depth' = depth /\ fsm' = fsm /\ cur' = cur /\ next' = next /\ shows' = shows
        /\ loads' = loads /\ play_pos' = play_pos /\ armed' = armed /\ list' = list
    OBVIOUS
  <1> SUFFICES ASSUME NEW m \in Modules PROVE IF on'[m] THEN Playing(m)' ELSE Resting(m)'
    BY DEF Players
  <1>2. CASE on[m]
    <2>1. mem' = mem BY <1>2 DEF AllOff
    <2> QED BY <1>1, <1>2, <2>1 DEF Players, Playing, Holds
  <1>3. CASE ~on[m] BY <1>1, <1>3 DEF Players, Resting
  <1> QED BY <1>2, <1>3

LEMMA PlayersOff ==
    ASSUME Players, AllOff, on' = on, UNCHANGED <<fsm, cur, play_pos>>
    PROVE  Players'
  BY DEF Players, AllOff, Resting

LEMMA TakenPlays ==
    ASSUME Types, NEW m \in Modules, Playing(m), fsm[m] = "running",
           cur'[m] = next[m], next'[m] = inc_idx(next[m], depth[m]), shows'[m] = loads[m], fsm'[m] = "refill",
           play_pos'[m] = IF play_pos[m] + 1 >= depth[m] THEN 0 ELSE play_pos[m] + 1,
           UNCHANGED <<depth, armed, list, mem>>
    PROVE  Playing(m)'
  <1> DEFINE n == armed[m].n
  <1>1. /\ n \in 1..MaxSlots /\ depth[m] = n % MaxSlots
        /\ \A i \in 0..(n - 1) : Holds(m, armed[m].serial, list[m][i], i)
        /\ cur[m] \in 0..(n - 1) /\ next[m] = Succ(cur[m], n)
        /\ loads[m] = list[m][cur[m]]
        /\ play_pos[m] = -1 => cur[m] = 0
        /\ play_pos[m] >= 0 => (n < MaxSlots => play_pos[m] = Pred(cur[m], n))
    BY DEF Playing
  <1>2. depth' = depth /\ armed' = armed /\ list' = list /\ mem' = mem OBVIOUS
  <1>3. play_pos[m] \in -1..(MaxSlots - 1) BY DEF Types, TypeOK
  <1> HIDE DEF n
  <1>4. n \in Nat \ {0} /\ MaxSlots \in Nat BY <1>1, Sizes
  <1>5. Succ(cur[m], n) \in 0..(n - 1) /\ Pred(Succ(cur[m], n), n) = cur[m]
    BY <1>1, <1>4, PredSucc
  <1>6. next'[m] = Succ(cur'[m], n)
    <2>1. inc_idx(Succ(cur[m], n), n % MaxSlots) = Succ(Succ(cur[m], n), n) BY <1>1, <1>5, IncSucc
    <2> QED BY <1>1, <2>1
  <1>7. shows'[m] = list[m][Pred(cur'[m], n)] BY <1>1, <1>5
  <1>8. play_pos'[m] >= 0
    <2>1. depth[m] \in Nat BY DEF Types, TypeOK, Slots
    <2> QED BY <1>3, <2>1
  <1>9. ASSUME n < MaxSlots PROVE play_pos'[m] = Pred(cur'[m], n)
    <2>1. depth[m] = n
      <3>1. n \in 0..(MaxSlots - 1) BY <1>4, <1>9
      <3> QED BY <1>1, <1>4, <3>1, ModLess
    <2>2. play_pos'[m] = cur[m]
      <3>1. CASE play_pos[m] = -1 BY <1>1, <1>4, <2>1, <3>1
      <3>2. CASE play_pos[m] >= 0 BY <1>1, <1>4, <1>9, <2>1, <3>2 DEF Pred
      <3> QED BY <1>3, <3>1, <3>2
    <2> QED BY <1>1, <1>5, <2>2
  <1>10. cur'[m] \in 0..(n - 1) BY <1>1, <1>5
  <1>11. play_pos'[m] # -1 BY <1>8
  <1>12. \A i \in 0..(n - 1) : Holds(m, armed[m].serial, list[m][i], i)'
    BY <1>1, <1>2 DEF Holds
  <1>13. fsm'[m] # "idle" /\ fsm'[m] # "running" OBVIOUS
  <1>14. armed'[m].n = n /\ depth'[m] = n % MaxSlots BY <1>1, <1>2 DEF n
  <1>15. shows'[m] = list'[m][Pred(cur'[m], n)] BY <1>2, <1>7
  <1> QED BY <1>1, <1>6, <1>8, <1>9, <1>10, <1>11, <1>12, <1>13, <1>14, <1>15 DEF Playing

LEMMA TriggerPlays ==
    ASSUME Types, Players, NEW groups, Trigger(groups), UNCHANGED <<armed, list, mem>>
    PROVE  Players'
  <1> SUFFICES ASSUME NEW m \in Modules PROVE IF on'[m] THEN Playing(m)' ELSE Resting(m)'
    BY DEF Players
  <1>1. on' = on /\ depth' = depth /\ loads' = loads BY DEF Trigger
  <1>2. armed' = armed /\ list' = list /\ mem' = mem OBVIOUS
  <1>3. CASE m \in Hit(groups) /\ fsm[m] = "running"
    <2>1. /\ cur'[m] = next[m] /\ next'[m] = inc_idx(next[m], depth[m]) /\ shows'[m] = loads[m]
          /\ fsm'[m] = "refill"
          /\ play_pos'[m] = IF play_pos[m] + 1 >= depth[m] THEN 0 ELSE play_pos[m] + 1
      BY <1>3 DEF Trigger
    <2>2. on[m] /\ Playing(m) BY <1>3 DEF Players, Resting
    <2>3. Playing(m)' BY <1>1, <1>3, <2>1, <2>2, TakenPlays
    <2> QED BY <1>1, <2>2, <2>3
  <1>4. CASE ~(m \in Hit(groups) /\ fsm[m] = "running")
    <2>1. /\ cur'[m] = cur[m] /\ next'[m] = next[m] /\ shows'[m] = shows[m] /\ fsm'[m] = fsm[m]
          /\ play_pos'[m] = play_pos[m]
      BY <1>4 DEF Trigger
    <2>2. CASE on[m] BY <1>1, <1>2, <2>1, <2>2 DEF Players, Playing, Holds
    <2>3. CASE ~on[m] BY <1>1, <2>1, <2>3 DEF Players, Resting
    <2> QED BY <2>2, <2>3
  <1> QED BY <1>3, <1>4

LEMMA RefillPlays == ASSUME Types, Players, NEW k \in Modules, Refill(k) PROVE Players'
  <1> SUFFICES ASSUME NEW m \in Modules PROVE IF on'[m] THEN Playing(m)' ELSE Resting(m)'
    BY DEF Players
  <1>1. /\ fsm[k] \in {"starting", "refill"}
        /\ fsm' = [fsm EXCEPT ![k] = "running"] /\ loads' = [loads EXCEPT ![k] = list[k][cur[k]]]
        /\ UNCHANGED <<store, on, depth, cur, next, shows, play_pos, armed>>
    BY DEF Refill, history
  <1>2. /\ on' = on /\ depth' = depth /\ cur' = cur /\ next' = next /\ shows' = shows /\ play_pos' = play_pos
        /\ armed' = armed /\ mem' = mem /\ list' = list
    BY <1>1 DEF store
  <1>3. fsm \in [Modules -> {"idle", "starting", "running", "refill"}] /\ DOMAIN loads = Modules
    BY DEF Types, TypeOK
  <1>4. CASE m # k
    <2>1. fsm'[m] = fsm[m] /\ loads'[m] = loads[m] BY <1>1, <1>3, <1>4
    <2>2. CASE on[m] BY <1>2, <2>1, <2>2 DEF Players, Playing, Holds
    <2>3. CASE ~on[m] BY <1>2, <2>1, <2>3 DEF Players, Resting
    <2> QED BY <2>2, <2>3
  <1>5. CASE m = k
    <2>1. on[m] /\ Playing(m) BY <1>1, <1>5 DEF Players, Resting
    <2>2. fsm'[m] = "running" /\ loads'[m] = list[m][cur[m]] BY <1>1, <1>3, <1>5
    <2> QED BY <1>2, <2>1, <2>2 DEF Playing, Holds
  <1> QED BY <1>4, <1>5

\* Nothing is stored, listed or switched on while a module is on.
LEMMA WaveOff == ASSUME Requested, job # <<>>, Head(job).do \in {"wave", "list", "play"} PROVE AllOff
  <1>s. PICK S \in Coverings : \E lens \in [S -> Lengths] : Request(S, lens) /\ Head(job) \in Packets(S, lens)
    BY SentPacket
  <1>1. PICK lens \in [S -> Lengths] : Request(S, lens) /\ Head(job) \in Packets(S, lens) BY <1>s
  <1>2. PICK t : t = Tail(job) OBVIOUS
  <1>3. job \in Seq(Packets(S, lens)) /\ Ordered(job) BY <1>1 DEF Request
  <1>4. /\ Range(job) = Range(Tail(job)) \cup {Head(job)}
        /\ \A q \in Range(Tail(job)) : Before(Head(job), q)
    BY <1>3, TailFacts
  <1>5. Rank(Head(job)) \in {3, 4}
    <2>1. CASE Head(job).do = "wave" BY <1>1, <2>1, KindsByDo, Ranks
    <2>2. CASE Head(job).do = "list" BY <1>1, <2>2, KindsByDo, Ranks
    <2>3. CASE Head(job).do = "play" BY <1>1, <2>3, KindsByDo, Ranks
    <2> QED BY <2>1, <2>2, <2>3
  <1>6. ~Pending(Off)
    <2>1. Rank(Off) = 2 BY Ranks
    <2>2. ~Before(Head(job), Off) BY <1>5, <2>1 DEF Before
    <2>3. Off # Head(job) BY <1>5, <2>1
    <2> QED BY <1>4, <2>2, <2>3 DEF Pending
  <1> QED BY <1>1, <1>4, <1>5, <1>6 DEF Request, Writing

LEMMA OffPlays == ASSUME play_off PROVE Players'
  <1>1. /\ on' = [m \in Modules |-> FALSE] /\ fsm' = [m \in Modules |-> "idle"]
        /\ play_pos' = [m \in Modules |-> -1] /\ cur' = [m \in Modules |-> 0]
    BY DEF play_off
  <1> QED BY <1>1 DEF Players, Resting

LEMMA PlayPlays == ASSUME Types, Requested, Players, play_on PROVE Players'
  <1>1. /\ job # <<>> /\ Head(job).do = "play"
        /\ on' = [m \in Modules |-> m \in Head(job).modules]
        /\ depth' = [m \in Modules |-> IF m \in Head(job).modules THEN Head(job).n[m] % MaxSlots ELSE 0]
        /\ fsm' = [m \in Modules |-> IF m \in Head(job).modules THEN "starting" ELSE "idle"]
        /\ next' = [m \in Modules |-> IF m \in Head(job).modules THEN inc_idx(0, Head(job).n[m] % MaxSlots)
                                      ELSE next[m]]
        /\ armed' = [m \in Modules |-> IF m \in Head(job).modules
                                       THEN [serial |-> req.serial, n |-> Head(job).n[m]] ELSE NotArmed]
        /\ mem' = mem /\ list' = list /\ cur' = cur /\ play_pos' = play_pos
    BY DEF play_on, Do, This, store
  <1>s. PICK S \in Coverings : \E lens \in [S -> Lengths] : Request(S, lens) /\ Head(job) \in Packets(S, lens)
    BY <1>1, SentPacket
  <1>2. PICK lens \in [S -> Lengths] : Request(S, lens) /\ Head(job) \in Packets(S, lens) BY <1>s
  <1>3. Head(job) = Play(S, lens) BY <1>1, <1>2, KindsByDo
  <1>4. Head(job).modules = S /\ Head(job).n = [m \in S |-> Len(lens[m])] BY <1>3 DEF Play
  <1>5. ASSUME NEW m \in S PROVE Head(job).n[m] = Len(lens[m]) /\ Head(job).n[m] \in 1..MaxSlots
    <2>1. lens[m] \in Lengths OBVIOUS
    <2>2. Len(lens[m]) \in 1..MaxSlots BY <2>1, LengthsFacts
    <2> QED BY <1>4, <2>2
  <1>6. S \subseteq Modules BY CoveringFacts
  <1>7. job' = Tail(job) BY DEF play_on, Sent
  <1>8. /\ Range(job) = Range(job') \cup {Head(job)} /\ \A q \in Range(job') : Before(Head(job), q)
    BY <1>1, <1>2, <1>7, Sending
  <1>9. ASSUME NEW m \in S, NEW i \in 0..(Len(lens[m]) - 1)
        PROVE  Holds(m, req.serial, list[m][i], i)
    <2>1. Pending(Play(S, lens)) BY <1>3, <1>8 DEF Pending
    <2>2. i \in 0..(Len(lens[m]) - 1) OBVIOUS
    <2>3. Step("wave", m, lens[m], i) \notin Range(job) /\ Step("list", m, lens[m], i) \notin Range(job)
      <3>1. /\ Rank(Step("wave", m, lens[m], i)) = 3 /\ Rank(Step("list", m, lens[m], i)) = 3 /\ Rank(Head(job)) = 4
        BY <1>3, Ranks
      <3> QED BY <1>8, <3>1 DEF Before
    <2>4. Written(m, lens[m], i) /\ list[m][i] = Slot(m, lens[m], i)
      BY <1>2, <2>1, <2>2, <2>3 DEF Request, Writing, Pending
    <2> QED BY <2>4 DEF Written
  <1>10. AllOff BY <1>1, WaveOff
  <1> SUFFICES ASSUME NEW m \in Modules PROVE IF on'[m] THEN Playing(m)' ELSE Resting(m)'
    BY DEF Players
  <1>11. Resting(m) BY <1>10 DEF Players, AllOff
  <1>12. CASE m \in S
    <2>0. PICK n \in 1..MaxSlots : n = Len(lens[m]) /\ n = Head(job).n[m] BY <1>5, <1>12
    <2>1. on'[m] /\ fsm'[m] = "starting" /\ cur'[m] = 0 /\ play_pos'[m] = -1
      BY <1>1, <1>4, <1>11, <1>12 DEF Resting
    <2>2. armed'[m].n = n /\ armed'[m].serial = req.serial /\ depth'[m] = n % MaxSlots
      BY <1>1, <1>4, <2>0, <1>12
    <2>3. next'[m] = Succ(0, n)
      <3>1. 0 \in 0..(n - 1) BY Sizes
      <3>2. inc_idx(0, n % MaxSlots) = Succ(0, n) BY <3>1, IncSucc
      <3> QED BY <1>1, <1>4, <2>0, <1>12, <3>2
    <2>4. \A i \in 0..(n - 1) : Holds(m, armed[m].serial, list[m][i], i)'
      BY <1>1, <1>9, <1>12, <2>0, <2>2 DEF Holds
    <2>5. 0 \in 0..(n - 1) BY Sizes
    <2> QED BY <2>1, <2>2, <2>3, <2>4, <2>5 DEF Playing
  <1>13. CASE m \notin S
    <2>1. ~on'[m] /\ fsm'[m] = "idle" /\ cur'[m] = 0 /\ play_pos'[m] = -1
      BY <1>1, <1>4, <1>11, <1>13 DEF Resting
    <2> QED BY <2>1 DEF Resting
  <1> QED BY <1>12, <1>13

LEMMA PlayersNext == ASSUME Types, Requested, Players, Next PROVE Players'
  <1>1. CASE Route
    <2>1. UNCHANGED <<store, player, history>> BY <1>1, RouteSent
    <2> QED BY <2>1, PlayersKept DEF store, player, history
  <1>2. CASE set_dac_mode \/ apply_trig_groups \/ send_group_sched_ctrl
    <2>1. UNCHANGED <<store, player, armed>>
      BY <1>2 DEF set_dac_mode, apply_trig_groups, send_group_sched_ctrl, history
    <2> QED BY <2>1, PlayersKept DEF store, player
  <1>3. CASE play_off BY <1>3, OffPlays
  <1>4. CASE write_wave \/ send_list_write
    <2>1. UNCHANGED player /\ job # <<>> /\ Head(job).do \in {"wave", "list", "play"}
      BY <1>4 DEF write_wave, send_list_write, Do
    <2>2. AllOff BY <2>1, WaveOff
    <2>3. on' = on /\ UNCHANGED <<fsm, cur, play_pos>> BY <2>1 DEF player
    <2> QED BY <2>2, <2>3, PlayersOff
  <1>5. CASE play_on BY <1>5, PlayPlays
  <1>6. CASE trigger
    <2>1. UNCHANGED <<store, armed>> /\ \E groups : Trigger(groups) BY <1>6 DEF trigger
    <2> QED BY <2>1, TriggerPlays DEF store
  <1>7. CASE Raise
    <2>1. UNCHANGED <<list, player, history>> /\ (mem' = mem \/ (job # <<>> /\ Head(job).do = "wave"))
      BY <1>7 DEF Raise, Do
    <2>2. mem' = mem \/ AllOff BY <2>1, WaveOff
    <2> QED BY <2>1, <2>2, PlayersKept DEF player, history
  <1>8. CASE Fire
    <2>1. UNCHANGED <<store, armed>> /\ ((\E groups : Trigger(groups)) \/ UNCHANGED player)
      BY <1>8 DEF Fire
    <2>2. CASE UNCHANGED player BY <2>1, <2>2, PlayersKept DEF store, player
    <2> QED BY <2>1, <2>2, TriggerPlays DEF store
  <1>9. CASE Elsewhere
    <2>1. UNCHANGED <<store, armed>> /\ \E groups : Trigger(groups) BY <1>9 DEF Elsewhere
    <2> QED BY <2>1, TriggerPlays DEF store
  <1>10. CASE \E m \in Modules : Refill(m) BY <1>10, RefillPlays
  <1> QED BY <1>1, <1>2, <1>3, <1>4, <1>5, <1>6, <1>7, <1>8, <1>9, <1>10 DEF Next, Packet

LEMMA PlayersInit == ASSUME Init PROVE Players
  BY DEF Init, Players, Resting

\* What a player that is on plays.
LEMMA PlayersWhole == ASSUME Types, Players PROVE WhatPlaysIsWhole
  <1> SUFFICES ASSUME NEW m \in Modules, on[m]
               PROVE  /\ \A i \in 0..(armed[m].n - 1) :
                          /\ list[m][i] # None
                          /\ \A a \in Bursts(list[m][i].addr, list[m][i].len) : mem[a] = <<armed[m].serial, m, i>>
                      /\ play_pos[m] >= 0 =>
                          LET i == (cur[m] + armed[m].n - 1) % armed[m].n IN
                          shows[m] = list[m][i] /\ (armed[m].n < MaxSlots => play_pos[m] = i)
    BY DEF WhatPlaysIsWhole
  <1>1. /\ armed[m].n \in 1..MaxSlots /\ cur[m] \in 0..(armed[m].n - 1)
        /\ \A i \in 0..(armed[m].n - 1) : Holds(m, armed[m].serial, list[m][i], i)
        /\ play_pos[m] >= 0 => /\ shows[m] = list[m][Pred(cur[m], armed[m].n)]
                               /\ armed[m].n < MaxSlots => play_pos[m] = Pred(cur[m], armed[m].n)
    BY DEF Players, Playing
  <1>2. ASSUME NEW i \in 0..(armed[m].n - 1)
        PROVE  /\ list[m][i] # None
               /\ \A a \in Bursts(list[m][i].addr, list[m][i].len) : mem[a] = <<armed[m].serial, m, i>>
    <2>1. None \notin Entry BY PlaybackAssumption DEF PlaybackAssumption
    <2>2. Holds(m, armed[m].serial, list[m][i], i) BY <1>1
    <2> QED BY <2>1, <2>2 DEF Holds
  <1>3. (cur[m] + armed[m].n - 1) % armed[m].n = Pred(cur[m], armed[m].n)
    <2>1. armed[m].n \in Nat \ {0} BY <1>1, Sizes
    <2> QED BY <1>1, <2>1, PredMod
  <1> QED BY <1>1, <1>2, <1>3

-----------------------------------------------------------------------------
(* A Stop.                                                                 *)

\* The end of a stop: all modules are hit.
LEMMA AllFacts == All = Fires(Groups) /\ Rank(All) = 5 /\ All.do = "trigger" /\ All.groups = Groups
  <1>1. All = Fires(Groups) BY DEF All, Fires
  <1> QED BY <1>1, Ranks, Dos DEF All

LEMMA Empty == Range(<<>>) = {}
  BY DEF Range

\* A packet of a stop that it says nothing of.
LEMMA StopPassed ==
    ASSUME Stopping, NEW S, NEW lens, Request(S, lens), job # <<>>, job' = Tail(job),
           Rank(Head(job)) \in {2, 3, 5}, Head(job) # All,
           UNCHANGED <<req, active, idle>>, sched'.running = sched.running,
           Head(job) = Off \/ UNCHANGED <<on, armed, play_pos>>
    PROVE  Stopping'
  <1>1. /\ Range(job) = Range(job') \cup {Head(job)}
    BY Sending
  <1>2. /\ Head(job) # NoSched /\ Head(job) # Play(Modules, Zeroes) /\ Head(job) # Mode(Modules, "ddr")
        /\ Rank(Head(job)) # 1
    BY Ranks
  <1>3. req' = req /\ active' = active /\ idle' = idle OBVIOUS
  <1> SUFFICES ASSUME req.name = "stop", ~req.failed
               PROVE  Stopping'
    BY <1>3 DEF Stopping
  <1> DEFINE r == Range(job)
             s == Range(job')
  <1>4. /\ NoSched \in r \/ ~sched.running
        /\ \A p \in r : Rank(p) <= 5
        /\ IF Play(Modules, Zeroes) \in r THEN All \in r
           ELSE Off \notin r /\ \A m \in Modules : on[m] /\ armed[m].serial = req.serial
        /\ All \in r \/ \A m \in Modules : play_pos[m] >= 0
    BY DEF Stopping, Pending
  <1>5. ~req.joined =>
            /\ NoSched \in r => Mode(Modules, "ddr") \in r
            /\ \/ Mode(Modules, "ddr") \in r /\ All \in r
                  /\ \A p \in r : Rank(p) = 1 => p = Mode(Modules, "ddr")
               \/ /\ \A p \in r : Rank(p) # 1
                  /\ All \in r /\ \A m \in Modules : idle[m] = "ddr"
    BY DEF Stopping, Pending
  <1>6. r = s \cup {Head(job)} BY <1>1
  <1> HIDE DEF r, s
  <1>7. /\ NoSched \in s \/ ~sched'.running
        /\ \A p \in s : Rank(p) <= 5
    BY <1>2, <1>4, <1>6
  <1>8. /\ IF Play(Modules, Zeroes) \in s THEN All \in s
           ELSE Off \notin s /\ \A m \in Modules : on'[m] /\ armed'[m].serial = req.serial
        /\ All \in s \/ \A m \in Modules : play_pos'[m] >= 0
    <2>1. CASE Head(job) = Off BY <1>2, <1>4, <1>6, <2>1
    <2>2. CASE Head(job) # Off
      <3>1. on' = on /\ armed' = armed /\ play_pos' = play_pos BY <2>2
      <3> QED BY <1>2, <1>4, <1>6, <3>1
    <2> QED BY <2>1, <2>2
  <1>9. ~req.joined =>
            /\ NoSched \in s => Mode(Modules, "ddr") \in s
            /\ \/ Mode(Modules, "ddr") \in s /\ All \in s
                  /\ \A p \in s : Rank(p) = 1 => p = Mode(Modules, "ddr")
               \/ /\ \A p \in s : Rank(p) # 1
                  /\ All \in s /\ \A m \in Modules : idle'[m] = "ddr"
    BY <1>2, <1>3, <1>5, <1>6
  <1> QED BY <1>3, <1>7, <1>8, <1>9 DEF Stopping, Pending, s

\* A stop that other requests, or a failure, end.
LEMMA NotStopping == ASSUME req'.name # "stop" \/ req'.failed PROVE Stopping'
  BY DEF Stopping

\* What is true of a stop between two packets, as facts about what is left to be sent.
LEMMA StopFacts ==
    ASSUME Stopping, req.name = "stop", ~req.failed, job # <<>>, NEW r, r = Range(job)
    PROVE  /\ NoSched \in r \/ ~sched.running
           /\ \A p \in r : Rank(p) <= 5
           /\ IF Play(Modules, Zeroes) \in r THEN All \in r
              ELSE Off \notin r /\ \A m \in Modules : on[m] /\ armed[m].serial = req.serial
           /\ All \in r \/ \A m \in Modules : play_pos[m] >= 0
           /\ ~req.joined =>
                 /\ NoSched \in r => Mode(Modules, "ddr") \in r
                 /\ \/ Mode(Modules, "ddr") \in r /\ All \in r
                       /\ \A p \in r : Rank(p) = 1 => p = Mode(Modules, "ddr")
                    \/ /\ \A p \in r : Rank(p) # 1
                       /\ All \in r /\ \A m \in Modules : idle[m] = "ddr"
  BY DEF Stopping, Pending

LEMMA StopLater ==
    ASSUME req'.name = "stop" /\ ~req'.failed =>
           /\ NoSched \in Range(job') \/ ~sched'.running
           /\ \A p \in Range(job') : Rank(p) <= 5
           /\ IF Play(Modules, Zeroes) \in Range(job') THEN All \in Range(job')
              ELSE Off \notin Range(job') /\ \A m \in Modules : on'[m] /\ armed'[m].serial = req'.serial
           /\ All \in Range(job') \/ \A m \in Modules : play_pos'[m] >= 0
           /\ ~req'.joined =>
                 /\ NoSched \in Range(job') => Mode(Modules, "ddr") \in Range(job')
                 /\ \/ Mode(Modules, "ddr") \in Range(job') /\ All \in Range(job')
                       /\ \A p \in Range(job') : Rank(p) = 1 => p = Mode(Modules, "ddr")
                    \/ /\ \A p \in Range(job') : Rank(p) # 1
                       /\ \/ All \in Range(job') /\ \A m \in Modules : idle'[m] = "ddr"
                          \/ job' = <<>> /\ \A m \in Modules : active'[m] = "ddr"
    PROVE  Stopping'
  BY DEF Stopping, Pending

LEMMA ModeStops == ASSUME Types, Requested, Stopping, set_dac_mode PROVE Stopping'
  <1>1. /\ job # <<>> /\ job' = Tail(job) /\ Head(job).do = "mode"
        /\ idle' = [m \in Modules |-> IF m \in Head(job).modules THEN Head(job).value ELSE idle[m]]
        /\ req' = req /\ active' = active /\ sched' = sched /\ on' = on /\ armed' = armed /\ play_pos' = play_pos
    BY DEF set_dac_mode, Do, Sent, This, player, history
  <1>s. PICK S \in Coverings : \E lens \in [S -> Lengths] : Request(S, lens) /\ Head(job) \in Packets(S, lens)
    BY <1>1, SentPacket
  <1>2. PICK lens \in [S -> Lengths] : Request(S, lens) /\ Head(job) \in Packets(S, lens) BY <1>s
  <1>3. /\ Range(job) = Range(job') \cup {Head(job)} /\ \A q \in Range(job') : Before(Head(job), q)
        /\ \A q \in Range(job) : q \in Packets(S, lens)
    BY <1>1, <1>2, Sending
  <1>4. PICK T \in Coverings, v \in {"ddr", "sine"} : Head(job) = Mode(T, v)
    BY <1>1, <1>2, KindsByDo
  <1>5. Rank(Head(job)) = 1 BY <1>4, Ranks
  <1>6. \A q \in Range(job') : Rank(q) > 1 /\ Rank(q) \in Nat
    BY <1>3, <1>5, KindsByRank DEF Before
  <1>7. Head(job) # All /\ Head(job) # Play(Modules, Zeroes) /\ Head(job) # NoSched /\ Head(job) # Off
    BY <1>5, Ranks, AllFacts
  <1>8. NoSched \notin Range(job')
    BY <1>6, Ranks
  <1> SUFFICES ASSUME req.name = "stop", ~req.failed PROVE Stopping'
    BY <1>1, NotStopping
  <1>9. PICK r : r = Range(job) OBVIOUS
  <1>10. /\ NoSched \in r \/ ~sched.running
         /\ \A p \in r : Rank(p) <= 5
         /\ IF Play(Modules, Zeroes) \in r THEN All \in r
            ELSE Off \notin r /\ \A m \in Modules : on[m] /\ armed[m].serial = req.serial
         /\ All \in r \/ \A m \in Modules : play_pos[m] >= 0
         /\ ~req.joined =>
               \/ Mode(Modules, "ddr") \in r /\ All \in r
                     /\ \A p \in r : Rank(p) = 1 => p = Mode(Modules, "ddr")
               \/ \A p \in r : Rank(p) # 1
    BY <1>1, <1>9, StopFacts
  <1>11. ~req.joined => All \in Range(job') /\ \A m \in Modules : idle'[m] = "ddr"
    <2> SUFFICES ASSUME ~req.joined PROVE All \in Range(job') /\ \A m \in Modules : idle'[m] = "ddr"
      OBVIOUS
    <2>1. Head(job) \in r BY <1>3, <1>9
    <2>2. Head(job) = Mode(Modules, "ddr") /\ All \in r BY <1>5, <1>10, <2>1
    <2>3. Head(job).modules = Modules /\ Head(job).value = "ddr" BY <2>2 DEF Mode
    <2> QED BY <1>1, <1>3, <1>7, <1>9, <2>2, <2>3
  <1> QED BY <1>1, <1>3, <1>6, <1>7, <1>8, <1>9, <1>10, <1>11, StopLater

LEMMA StopSends == ASSUME Types, Requested, Stopping, send_group_sched_ctrl PROVE Stopping'
  <1>1. /\ job # <<>> /\ job' = Tail(job) /\ Head(job).do = "sched" /\ sched'.running = Head(job).run
    BY SchedSent
  <1>2. /\ on' = on /\ armed' = armed /\ play_pos' = play_pos /\ req' = req /\ active' = active /\ idle' = idle
    BY SchedSent DEF player, modes
  <1>s. PICK S \in Coverings : \E lens \in [S -> Lengths] : Request(S, lens) /\ Head(job) \in Packets(S, lens)
    BY <1>1, SentPacket
  <1>3. PICK lens \in [S -> Lengths] : Request(S, lens) /\ Head(job) \in Packets(S, lens) BY <1>s
  <1>4. /\ Range(job) = Range(job') \cup {Head(job)}
    BY <1>1, <1>3, Sending
  <1> SUFFICES ASSUME req.name = "stop", ~req.failed PROVE Stopping'
    BY <1>2, NotStopping
  <1>5. PICK r : r = Range(job) OBVIOUS
  <1>6. /\ NoSched \in r \/ ~sched.running
        /\ \A p \in r : Rank(p) <= 5
        /\ IF Play(Modules, Zeroes) \in r THEN All \in r
           ELSE Off \notin r /\ \A m \in Modules : on[m] /\ armed[m].serial = req.serial
        /\ All \in r \/ \A m \in Modules : play_pos[m] >= 0
        /\ ~req.joined =>
              /\ NoSched \in r => Mode(Modules, "ddr") \in r
              /\ \/ Mode(Modules, "ddr") \in r /\ All \in r
                    /\ \A p \in r : Rank(p) = 1 => p = Mode(Modules, "ddr")
                 \/ /\ \A p \in r : Rank(p) # 1
                    /\ All \in r /\ \A m \in Modules : idle[m] = "ddr"
    BY <1>1, <1>5, StopFacts
  <1>7. Head(job) = NoSched
    <2>1. ASSUME NEW k \in 0..(n_groups - 1), NEW long \in BOOLEAN, Head(job) = Sched(S, k, long)
          PROVE FALSE
      <3>1. k \in Nat BY Sizes
      <3>2. Rank(Head(job)) = 6 + k BY <2>1, <3>1, SchedRank
      <3> QED BY <1>4, <1>5, <1>6, <3>1, <3>2
    <2> QED BY <1>1, <1>3, <2>1, KindsByDo
  <1>8. ~sched'.running BY <1>1, <1>7 DEF NoSched
  <1>9. Rank(NoSched) = 0 BY Ranks
  <1>10. All # NoSched /\ Play(Modules, Zeroes) # NoSched /\ Off # NoSched /\ Mode(Modules, "ddr") # NoSched
    BY Ranks, AllFacts
  <1>11. r = Range(job') \cup {NoSched} BY <1>4, <1>5, <1>7
  <1> QED BY <1>2, <1>6, <1>8, <1>9, <1>10, <1>11, StopLater

LEMMA PlayStops == ASSUME Types, Requested, Stopping, play_on PROVE Stopping'
  <1>1. /\ job # <<>> /\ job' = Tail(job) /\ Head(job).do = "play"
        /\ on' = [m \in Modules |-> m \in Head(job).modules]
        /\ armed' = [m \in Modules |-> IF m \in Head(job).modules
                                       THEN [serial |-> req.serial, n |-> Head(job).n[m]] ELSE NotArmed]
        /\ req' = req /\ active' = active /\ idle' = idle /\ sched' = sched /\ play_pos' = play_pos
    BY DEF play_on, Do, Sent, This, modes
  <1>s. PICK S \in Coverings : \E lens \in [S -> Lengths] : Request(S, lens) /\ Head(job) \in Packets(S, lens)
    BY <1>1, SentPacket
  <1>2. PICK lens \in [S -> Lengths] : Request(S, lens) /\ Head(job) \in Packets(S, lens) BY <1>s
  <1>3. /\ Range(job) = Range(job') \cup {Head(job)} /\ \A q \in Range(job') : Before(Head(job), q)
        /\ \A q \in Range(job) : q \in Packets(S, lens)
    BY <1>1, <1>2, Sending
  <1>4. Head(job) = Play(S, lens) /\ Rank(Head(job)) = 4 BY <1>1, <1>2, KindsByDo, Ranks
  <1>5. \A q \in Range(job') : Rank(q) > 4 /\ Rank(q) \in Nat
    BY <1>3, <1>4, KindsByRank DEF Before
  <1> SUFFICES ASSUME req.name = "stop", ~req.failed PROVE Stopping'
    BY <1>1, NotStopping
  <1>6. PICK r : r = Range(job) OBVIOUS
  <1>7. /\ NoSched \in r \/ ~sched.running
        /\ \A p \in r : Rank(p) <= 5
        /\ IF Play(Modules, Zeroes) \in r THEN All \in r
           ELSE \A m \in Modules : on[m]
        /\ All \in r \/ \A m \in Modules : play_pos[m] >= 0
        /\ ~req.joined =>
              /\ NoSched \in r => Mode(Modules, "ddr") \in r
              /\ \/ Mode(Modules, "ddr") \in r /\ All \in r
                 \/ /\ \A p \in r : Rank(p) # 1
                    /\ All \in r /\ \A m \in Modules : idle[m] = "ddr"
    BY <1>1, <1>6, StopFacts
  <1>8. Play(Modules, Zeroes) \in r
    <2>1. AllOff BY <1>1, WaveOff
    <2>2. 0 \in Modules BY Sizes DEF Modules
    <2> QED BY <1>7, <2>1, <2>2 DEF AllOff
  <1>9. Head(job) = Play(Modules, Zeroes)
    <2>1. Play(Modules, Zeroes) \in Packets(S, lens) BY <1>3, <1>6, <1>8
    <2>2. Play(Modules, Zeroes).do = "play" BY Dos
    <2> QED BY <1>4, <2>1, <2>2, KindsByDo
  <1>10. Head(job).modules = Modules BY <1>9 DEF Play
  <1>11. \A m \in Modules : on'[m] /\ armed'[m].serial = req'.serial BY <1>1, <1>10
  <1>12. /\ Play(Modules, Zeroes) \notin Range(job') /\ Off \notin Range(job') /\ NoSched \notin Range(job')
         /\ Mode(Modules, "ddr") \notin Range(job') /\ All # Head(job) /\ NoSched # Head(job)
         /\ Mode(Modules, "ddr") # Head(job)
    BY <1>4, <1>5, Ranks, AllFacts
  <1>13. All \in Range(job') BY <1>3, <1>6, <1>7, <1>8, <1>12
  <1>14. ~sched'.running BY <1>1, <1>3, <1>6, <1>7, <1>12
  <1>15. ~req.joined => \A m \in Modules : idle'[m] = "ddr" BY <1>1, <1>3, <1>6, <1>7, <1>12
  <1> QED BY <1>1, <1>3, <1>5, <1>6, <1>7, <1>11, <1>12, <1>13, <1>14, <1>15, StopLater

\* A player that has shown a slot goes on showing slots.
LEMMA Started ==
    ASSUME Types, NEW groups, Trigger(groups), NEW m \in Modules, play_pos[m] >= 0
    PROVE  play_pos'[m] >= 0
  <1>1. play_pos'[m] = play_pos[m] \/ play_pos'[m] = 0 \/ play_pos'[m] = play_pos[m] + 1
    BY DEF Trigger
  <1>2. play_pos[m] \in -1..(MaxSlots - 1) BY DEF Types, TypeOK
  <1> QED BY <1>1, <1>2

\* All modules are hit, and a player that has not yet shown a slot runs.
LEMMA AllStarted ==
    ASSUME Types, Players, Trigger(Groups), NEW m \in Modules, on[m], fsm[m] # "starting"
    PROVE  play_pos'[m] >= 0 /\ active'[m] = idle[m]
  <1>1. m \in Hit(Groups) BY DEF Hit, Types, TypeOK
  <1>2. active'[m] = idle[m] BY <1>1 DEF Trigger
  <1>3. play_pos[m] \in -1..(MaxSlots - 1) BY DEF Types, TypeOK
  <1>4. CASE fsm[m] = "running"
    <2>1. play_pos'[m] = IF play_pos[m] + 1 >= depth[m] THEN 0 ELSE play_pos[m] + 1
      BY <1>1, <1>4 DEF Trigger
    <2> QED BY <1>2, <1>3, <2>1
  <1>5. CASE fsm[m] # "running"
    <2>1. fsm[m] = "refill"
      <3>1. fsm[m] \in {"idle", "starting", "running", "refill"} BY DEF Types, TypeOK
      <3>2. fsm[m] # "idle" BY DEF Players, Playing
      <3> QED BY <1>5, <3>1, <3>2
    <2>2. play_pos[m] >= 0 BY <2>1 DEF Players, Playing
    <2> QED BY <1>2, <2>2, Started
  <1> QED BY <1>4, <1>5

LEMMA TriggerStops == ASSUME Types, Requested, Players, Stopping, trigger PROVE Stopping'
  <1>1. /\ job # <<>> /\ job' = Tail(job) /\ Head(job).do = "trigger" /\ Trigger(Head(job).groups)
        /\ \A m \in Modules : fsm[m] # "starting"
        /\ req' = req /\ sched' = sched /\ armed' = armed
    BY DEF trigger, Do, Sent, This
  <1>2. on' = on BY <1>1 DEF Trigger
  <1>s. PICK S \in Coverings : \E lens \in [S -> Lengths] : Request(S, lens) /\ Head(job) \in Packets(S, lens)
    BY <1>1, SentPacket
  <1>3. PICK lens \in [S -> Lengths] : Request(S, lens) /\ Head(job) \in Packets(S, lens) BY <1>s
  <1>4. /\ job' \in Seq(Packets(S, lens))
        /\ Range(job) = Range(job') \cup {Head(job)} /\ \A q \in Range(job') : Before(Head(job), q)
        /\ \A q \in Range(job) : q \in Packets(S, lens)
    BY <1>1, <1>3, Sending
  <1>5. PICK groups \in SUBSET Groups : Head(job) = Fires(groups)
    BY <1>1, <1>3, KindsByDo
  <1>6. Rank(Head(job)) = 5 BY <1>5, Ranks
  <1>7. \A q \in Range(job') : Rank(q) > 5 /\ Rank(q) \in Nat
    BY <1>4, <1>6, KindsByRank DEF Before
  <1> SUFFICES ASSUME req.name = "stop", ~req.failed PROVE Stopping'
    BY <1>1, NotStopping
  <1>8. PICK r : r = Range(job) OBVIOUS
  <1>9. /\ NoSched \in r \/ ~sched.running
        /\ \A p \in r : Rank(p) <= 5
        /\ IF Play(Modules, Zeroes) \in r THEN All \in r
           ELSE \A m \in Modules : on[m] /\ armed[m].serial = req.serial
        /\ All \in r \/ \A m \in Modules : play_pos[m] >= 0
        /\ ~req.joined =>
              /\ \/ Mode(Modules, "ddr") \in r
                 \/ All \in r /\ \A m \in Modules : idle[m] = "ddr"
    BY <1>1, <1>8, StopFacts
  <1>10. Range(job') = {} BY <1>4, <1>7, <1>8, <1>9
  <1>11. job' = <<>>
    <2>1. PICK j \in Seq(Packets(S, lens)) : j = job' BY <1>4
    <2>2. Len(j) = 0
      <3>1. CASE Len(j) # 0
        <4>1. Len(j) \in Nat /\ 1 \in 1..Len(j) BY <3>1
        <4>2. j[1] \in Range(j) BY <4>1, RangeOf
        <4> QED BY <1>10, <2>1, <4>2
      <3> QED BY <3>1
    <2> QED BY <2>1, <2>2
  <1>12. /\ Play(Modules, Zeroes) \notin r /\ NoSched \notin r /\ Mode(Modules, "ddr") \notin r
    BY <1>4, <1>6, <1>8, <1>10, Ranks
  <1>13. All \in r => Trigger(Groups)
    BY <1>1, <1>4, <1>8, <1>10, AllFacts
  <1>14. \A m \in Modules : play_pos'[m] >= 0
    <2>1. CASE All \in r BY <1>1, <1>9, <1>12, <1>13, <2>1, AllStarted
    <2>2. CASE All \notin r BY <1>1, <1>9, <2>2, Started
    <2> QED BY <2>1, <2>2
  <1>15. ~req.joined => \A m \in Modules : active'[m] = "ddr"
    <2> SUFFICES ASSUME ~req.joined, NEW m \in Modules PROVE active'[m] = "ddr"
      OBVIOUS
    <2>1. All \in r /\ idle[m] = "ddr" BY <1>9, <1>12
    <2>2. on[m] BY <1>9, <1>12
    <2> QED BY <1>1, <1>13, <2>1, <2>2, AllStarted
  <1> QED BY <1>1, <1>2, <1>9, <1>10, <1>11, <1>12, <1>14, <1>15, StopLater

LEMMA FireStops == ASSUME Types, Stopping, Fire PROVE Stopping'
  <1>1. job' = job /\ req' = req /\ armed' = armed /\ sched.running /\ sched'.running = sched.running
    BY FireSent
  <1>2. on' = on BY DEF Fire, Trigger, player
  <1>3. ASSUME NEW m \in Modules, play_pos[m] >= 0 PROVE play_pos'[m] >= 0
    <2>1. play_pos' = play_pos \/ \E groups : Trigger(groups) BY DEF Fire, player
    <2> QED BY <1>3, <2>1, Started
  <1> SUFFICES ASSUME req.name = "stop", ~req.failed PROVE Stopping'
    BY <1>1, NotStopping
  <1>4. NoSched \in Range(job) BY <1>1 DEF Stopping, Pending
  <1>5. job # <<>> BY <1>4, Empty
  <1>6. PICK r : r = Range(job) OBVIOUS
  <1>7. /\ \A p \in r : Rank(p) <= 5
        /\ IF Play(Modules, Zeroes) \in r THEN All \in r
           ELSE Off \notin r /\ \A m \in Modules : on[m] /\ armed[m].serial = req.serial
        /\ All \in r \/ \A m \in Modules : play_pos[m] >= 0
        /\ ~req.joined =>
              /\ Mode(Modules, "ddr") \in r
              /\ \/ Mode(Modules, "ddr") \in r /\ All \in r
                    /\ \A p \in r : Rank(p) = 1 => p = Mode(Modules, "ddr")
                 \/ /\ \A p \in r : Rank(p) # 1
                    /\ All \in r /\ \A m \in Modules : idle[m] = "ddr"
    BY <1>4, <1>5, <1>6, StopFacts
  <1>8. Rank(Mode(Modules, "ddr")) = 1 BY Ranks
  <1>9. ~req.joined =>
           /\ Mode(Modules, "ddr") \in r /\ All \in r
           /\ \A p \in r : Rank(p) = 1 => p = Mode(Modules, "ddr")
    BY <1>7, <1>8
  <1> QED BY <1>1, <1>2, <1>3, <1>4, <1>6, <1>7, <1>9, StopLater

LEMMA ElsewhereStops == ASSUME Types, Stopping, Elsewhere PROVE Stopping'
  <1>1. job' = job /\ armed' = armed /\ sched' = sched /\ req' = [req EXCEPT !.joined = req.name = "stop"]
    BY DEF Elsewhere
  <1>2. PICK groups : Trigger(groups) BY DEF Elsewhere
  <1>3. on' = on BY <1>2 DEF Trigger
  <1>4. /\ req'.name = req.name /\ req'.serial = req.serial /\ req'.failed = req.failed
        /\ req'.joined = (req.name = "stop")
    BY <1>1 DEF Types
  <1>5. \A m \in Modules : play_pos[m] >= 0 => play_pos'[m] >= 0 BY <1>2, Started
  <1> SUFFICES ASSUME req.name = "stop", ~req.failed PROVE Stopping'
    BY <1>4, NotStopping
  <1>6. /\ NoSched \in Range(job) \/ ~sched.running
        /\ \A p \in Range(job) : Rank(p) <= 5
        /\ IF Play(Modules, Zeroes) \in Range(job) THEN All \in Range(job)
           ELSE Off \notin Range(job) /\ \A m \in Modules : on[m] /\ armed[m].serial = req.serial
        /\ All \in Range(job) \/ \A m \in Modules : play_pos[m] >= 0
    BY DEF Stopping, Pending
  <1>7. req'.joined BY <1>4
  <1> QED BY <1>1, <1>3, <1>4, <1>5, <1>6, <1>7, StopLater

LEMMA RefillStops == ASSUME Stopping, NEW m \in Modules, Refill(m) PROVE Stopping'
  <1>1. /\ job' = job /\ req' = req /\ sched' = sched /\ armed' = armed /\ on' = on /\ play_pos' = play_pos
        /\ active' = active /\ idle' = idle
    BY DEF Refill, modes, history
  <1> QED BY <1>1 DEF Stopping, Pending

LEMMA StopStarts == ASSUME Types, api_board_stop PROVE Stopping'
  <1>1. job' = stop_rotation_schedule \o <<Mode(Modules, "ddr")>> \o arm_test1_pattern(Modules, [m \in Modules |-> 1]) \o <<All>>
    BY DEF api_board_stop
  <1>2. PICK len \in [Modules -> Lens] : len = [m \in Modules |-> 1] BY LensFacts
  <1>3. PICK lens : lens = [m \in Modules |-> <<len[m], len[m]>>] OBVIOUS
  <1>4. lens = Zeroes BY <1>2, <1>3 DEF Zeroes
  <1>5. Range(job') = ArmPackets(Modules, lens) \cup {NoSched, Mode(Modules, "ddr"), All}
    <2>1. PICK j : j = job' OBVIOUS
    <2>2. PICK S \in SUBSET Modules : S = Modules OBVIOUS
    <2>3. len \in [S -> Lens] /\ lens = [m \in S |-> <<len[m], len[m]>>] BY <1>2, <1>3, <2>2
    <2>4. j = stop_rotation_schedule \o <<Mode(Modules, "ddr")>> \o arm_test1_pattern(S, len) \o <<All>>
      BY <1>1, <1>2, <2>1, <2>2
    <2>5. Range(j) = ArmPackets(S, lens) \cup {NoSched, Mode(Modules, "ddr"), All}
      BY <2>3, <2>4, Test1Fresh
    <2> QED BY <2>1, <2>2, <2>5
  <1>6. Play(Modules, Zeroes) \in Range(job') BY <1>5, <1>4 DEF ArmPackets
  <1>7. \A p \in ArmPackets(Modules, lens) : Rank(p) \in 2..4 BY ArmRanks
  <1>8. \A p \in Range(job') : Rank(p) \in 0..5 /\ (Rank(p) = 1 => p = Mode(Modules, "ddr"))
    BY <1>5, <1>7, AllFacts, Ranks
  <1> QED BY <1>5, <1>6, <1>8, StopLater

\* A single packet after a stop.
LEMMA TellStops ==
    ASSUME Types, Stopping, Tell, NEW p, job' = <<p>>, Rank(p) \in {1, 5}
    PROVE  Stopping'
  <1>1. /\ job = <<>> /\ UNCHANGED <<player, modes, sched, history>>
        /\ req' = [req EXCEPT !.joined = req.name = "stop"]
    BY DEF Tell
  <1>2. /\ req'.name = req.name /\ req'.serial = req.serial /\ req'.failed = req.failed
        /\ req'.joined = (req.name = "stop")
    BY <1>1 DEF Types
  <1>3. on' = on /\ armed' = armed /\ play_pos' = play_pos /\ sched' = sched BY <1>1 DEF player, history
  <1>4. PICK j : j = <<p>> OBVIOUS
  <1>5. Range(job') = {p}
    <2>1. Range(j) = {p} BY <1>4, OneOrdered
    <2> QED BY <1>4, <2>1
  <1> SUFFICES ASSUME req.name = "stop", ~req.failed PROVE Stopping'
    BY <1>2, NotStopping
  <1>6. /\ ~sched.running
        /\ \A m \in Modules : on[m] /\ armed[m].serial = req.serial
        /\ \A m \in Modules : play_pos[m] >= 0
    BY <1>1, Empty DEF Stopping, Pending
  <1>7. p # Play(Modules, Zeroes) /\ p # Off BY Ranks
  <1>8. req'.joined BY <1>2
  <1>9. /\ NoSched \in Range(job') \/ ~sched'.running
        /\ \A q \in Range(job') : Rank(q) <= 5
    BY <1>3, <1>5, <1>6
  <1>10. /\ Play(Modules, Zeroes) \notin Range(job') /\ Off \notin Range(job')
         /\ \A m \in Modules : on'[m] /\ armed'[m].serial = req'.serial
         /\ \A m \in Modules : play_pos'[m] >= 0
    BY <1>2, <1>3, <1>5, <1>6, <1>7
  <1> QED BY <1>8, <1>9, <1>10, StopLater

LEMMA RouteStops == ASSUME Types, Stopping, Route PROVE Stopping'
  <1>1. CASE api_board_stop BY <1>1, StopStarts
  <1>2. ASSUME NEW name, Arm(name), name # "stop" PROVE Stopping'
    <2>1. req' = [name |-> name, serial |-> req.serial + 1, failed |-> FALSE, joined |-> FALSE]
      BY <1>2 DEF Arm
    <2> QED BY <1>2, <2>1, NotStopping
  <1>3. CASE api_board_arm \/ api_board_arm_stereo_staircase \/ api_board_arm_test1 \/ api_board_arm_rotation
    <2>1. Arm("arm") \/ Arm("staircase") \/ Arm("test1") \/ Arm("rotation")
      BY <1>3 DEF api_board_arm, api_board_arm_stereo_staircase, api_board_arm_test1, api_board_arm_rotation
    <2> QED BY <1>2, <2>1
  <1>4. CASE api_trigger
    <2>1. PICK groups : Tell /\ job' = <<Fires(groups)>> BY <1>4 DEF api_trigger, Fires
    <2>2. Rank(Fires(groups)) = 5 BY Ranks
    <2> QED BY <2>1, <2>2, TellStops
  <1>5. CASE api_board_dac_mode_ramp_set
    <2>1. PICK v : Tell /\ job' = <<Mode(Modules, v)>> BY <1>5 DEF api_board_dac_mode_ramp_set
    <2>2. Rank(Mode(Modules, v)) = 1 BY Ranks
    <2> QED BY <2>1, <2>2, TellStops
  <1>6. CASE api_board_trig_group_set
    <2>1. PICK S, g : Tell /\ job' = <<Group(S, g)>> BY <1>6 DEF api_board_trig_group_set, Group
    <2>2. Rank(Group(S, g)) = 5 BY Ranks
    <2> QED BY <2>1, <2>2, TellStops
  <1> QED BY <1>1, <1>3, <1>4, <1>5, <1>6 DEF Route

LEMMA WriteStops == ASSUME Types, Requested, Stopping, write_wave \/ send_list_write PROVE Stopping'
  <1>1. /\ job # <<>> /\ Head(job).do \in {"wave", "list"}
        /\ UNCHANGED <<on, armed, play_pos, active, idle, sched>>
        /\ (job' = Tail(job) /\ req' = req) \/ req' = [req EXCEPT !.failed = TRUE]
    BY DEF write_wave, send_list_write, Do, Sent, player, modes, history
  <1>2. CASE req' = [req EXCEPT !.failed = TRUE]
    <2>1. req'.failed BY <1>2 DEF Types
    <2> QED BY <2>1, NotStopping
  <1>3. CASE job' = Tail(job) /\ req' = req
    <2>s. PICK S \in Coverings : \E lens \in [S -> Lengths] : Request(S, lens) /\ Head(job) \in Packets(S, lens)
      BY <1>1, SentPacket
    <2>1. PICK lens \in [S -> Lengths] : Request(S, lens) /\ Head(job) \in Packets(S, lens) BY <2>s
    <2>2. Rank(Head(job)) = 3
      <3>1. CASE Head(job).do = "wave" BY <2>1, <3>1, KindsByDo, Ranks
      <3>2. CASE Head(job).do = "list" BY <2>1, <3>2, KindsByDo, Ranks
      <3> QED BY <1>1, <3>1, <3>2
    <2>3. Head(job) # All BY <2>2, AllFacts
    <2> QED BY <1>1, <1>3, <2>1, <2>2, <2>3, StopPassed
  <1> QED BY <1>1, <1>2, <1>3

LEMMA OffStops == ASSUME Types, Requested, Stopping, play_off PROVE Stopping'
  <1>1. /\ job # <<>> /\ job' = Tail(job) /\ Head(job).do = "off"
        /\ UNCHANGED <<req, active, idle, sched>>
    BY DEF play_off, Do, Sent, modes
  <1>s. PICK S \in Coverings : \E lens \in [S -> Lengths] : Request(S, lens) /\ Head(job) \in Packets(S, lens)
    BY <1>1, SentPacket
  <1>2. PICK lens \in [S -> Lengths] : Request(S, lens) /\ Head(job) \in Packets(S, lens) BY <1>s
  <1>3. Head(job) = Off /\ Rank(Head(job)) = 2 BY <1>1, <1>2, KindsByDo, Ranks
  <1>4. Head(job) # All BY <1>3, AllFacts
  <1> QED BY <1>1, <1>2, <1>3, <1>4, StopPassed

LEMMA GroupStops == ASSUME Types, Requested, Stopping, apply_trig_groups PROVE Stopping'
  <1>1. /\ job # <<>> /\ job' = Tail(job) /\ Head(job).do = "group"
        /\ UNCHANGED <<req, active, idle, sched, on, armed, play_pos>>
    BY DEF apply_trig_groups, Do, Sent, modes, player
  <1>s. PICK S \in Coverings : \E lens \in [S -> Lengths] : Request(S, lens) /\ Head(job) \in Packets(S, lens)
    BY <1>1, SentPacket
  <1>2. PICK lens \in [S -> Lengths] : Request(S, lens) /\ Head(job) \in Packets(S, lens) BY <1>s
  <1>3. Rank(Head(job)) = 5 BY <1>1, <1>2, KindsByDo, Ranks
  <1>4. Head(job) # All BY <1>1, AllFacts
  <1> QED BY <1>1, <1>2, <1>3, <1>4, StopPassed

LEMMA RaiseStops == ASSUME Types, Raise PROVE Stopping'
  <1>1. req' = [req EXCEPT !.failed = TRUE] BY DEF Raise
  <1>2. req'.failed BY <1>1 DEF Types
  <1> QED BY <1>2, NotStopping

LEMMA StoppingNext == ASSUME Types, Requested, Players, Stopping, Next PROVE Stopping'
  <1>1. CASE Packet
    BY <1>1, ModeStops, OffStops, WriteStops, PlayStops, GroupStops, StopSends, TriggerStops DEF Packet
  <1>2. CASE \E m \in Modules : Refill(m) BY <1>2, RefillStops
  <1> QED BY <1>1, <1>2, RouteStops, RaiseStops, FireStops, ElsewhereStops DEF Next

LEMMA StoppingInit == ASSUME Init PROVE Stopping
  <1>1. req.name # "stop" BY DEF Init
  <1> QED BY <1>1 DEF Stopping

LEMMA StopIsOver == ASSUME Types, Players, Stopping PROVE StopIsQuiet
  <1> SUFFICES ASSUME job = <<>>, req.name = "stop", ~req.failed
               PROVE  /\ ~sched.running
                      /\ \A m \in Modules : /\ on[m] /\ play_pos[m] >= 0 /\ mem[shows[m].addr][1] = req.serial
                                            /\ ~req.joined => active[m] = "ddr"
    BY DEF StopIsQuiet
  <1>1. /\ ~sched.running
        /\ \A m \in Modules : on[m] /\ armed[m].serial = req.serial
        /\ \A m \in Modules : play_pos[m] >= 0
        /\ ~req.joined => \A m \in Modules : active[m] = "ddr"
    BY Empty DEF Stopping, Pending
  <1>2. ASSUME NEW m \in Modules PROVE mem[shows[m].addr][1] = req.serial
    <2>1. Playing(m) /\ play_pos[m] >= 0 BY <1>1 DEF Players
    <2>2. PICK n \in 1..MaxSlots : n = armed[m].n BY <2>1 DEF Playing
    <2>3. /\ cur[m] \in 0..(n - 1) /\ shows[m] = list[m][Pred(cur[m], n)]
          /\ \A i \in 0..(n - 1) : Holds(m, armed[m].serial, list[m][i], i)
      BY <2>1, <2>2 DEF Playing
    <2>4. PICK i \in 0..(n - 1) : i = Pred(cur[m], n)
      <3>1. n \in Nat \ {0} BY Sizes
      <3> QED BY <2>3, <3>1, PredMod
    <2>5. Holds(m, armed[m].serial, shows[m], i) BY <2>3, <2>4
    <2>6. shows[m].addr \in Bursts(shows[m].addr, shows[m].len)
      <3>1. shows[m] \in Entry BY <2>5 DEF Holds
      <3>2. shows[m].addr \in Addresses /\ shows[m].len \in Lens BY <3>1 DEF Entry
      <3>3. shows[m].addr \in Nat
        <4>1. (M + 1) * Region \in Nat BY Sizes
        <4> QED BY <3>2, <4>1 DEF Addresses
      <3>4. shows[m].len \in Nat \ {0} BY <3>2, LensFacts
      <3> QED BY <3>3, <3>4 DEF Bursts
    <2>7. mem[shows[m].addr] = <<armed[m].serial, m, i>> BY <2>5, <2>6 DEF Holds
    <2> QED BY <1>1, <2>7
  <1> QED BY <1>1, <1>2

-----------------------------------------------------------------------------
(* The rotation.                                                           *)

LEMMA NoRound == ASSUME rot' = NoRotation PROVE Round'
  BY DEF Round, NoRotation

LEMMA RoundKept ==
    ASSUME Round, UNCHANGED <<isMaster, sched, rot, on, armed, gid, play_pos>>
    PROVE  Round'
  BY DEF Round

\* While a rotation turns, nothing is stored, listed or switched on.
LEMMA RoundOff == ASSUME Round, AllOff, UNCHANGED <<isMaster, sched, rot>> PROVE Round'
  <1>1. ~(isMaster /\ sched.running /\ rot.long /\ rot.modules # {})
    <2>1. ASSUME isMaster /\ sched.running /\ rot.long /\ rot.modules # {} PROVE FALSE
      <3>1. rot.modules \subseteq Modules /\ \A m \in rot.modules : on[m] BY <2>1 DEF Round
      <3> QED BY <2>1, <3>1 DEF AllOff
    <2> QED BY <2>1
  <1> QED BY <1>1 DEF Round

LEMMA SchedRound == ASSUME Types, Requested, send_group_sched_ctrl PROVE Round'
  <1>1. /\ job # <<>> /\ job' = Tail(job) /\ Head(job).do = "sched"
        /\ UNCHANGED <<isMaster, store, player, modes, gid, armed, req, bounds>>
    BY SchedSent
  <1>2. /\ sched'.intv = [sched.intv EXCEPT ![Head(job).slot] = Head(job).intv]
        /\ sched'.group = [sched.group EXCEPT ![Head(job).slot] = Head(job).groups]
        /\ sched'.depth = Head(job).depth
        /\ Head(job).run /\ ~sched.running => sched'.idx = 0 /\ sched'.left = sched.intv[0]
        /\ rot' = IF Head(job).run /\ ~sched.running /\ \A m \in Head(job).modules : play_pos[m] = -1
                  THEN [modules |-> Head(job).modules, long |-> Head(job).intv.long]
                  ELSE IF Head(job).run /\ sched.running THEN rot ELSE NoRotation
    BY SchedSent
  <1>3. on' = on /\ armed' = armed /\ gid' = gid /\ play_pos' = play_pos BY <1>1 DEF player
  <1>s. PICK S \in Coverings : \E lens \in [S -> Lengths] : Request(S, lens) /\ Head(job) \in Packets(S, lens)
    BY <1>1, SentPacket
  <1>4. PICK lens \in [S -> Lengths] : Request(S, lens) /\ Head(job) \in Packets(S, lens) BY <1>s
  <1>5. /\ Range(job) = Range(job') \cup {Head(job)} /\ \A q \in Range(job') : Before(Head(job), q)
    BY <1>1, <1>4, Sending
  <1>6. CASE ~Head(job).run BY <1>2, <1>6, NoRound
  <1>7. ASSUME Head(job).run PROVE Round'
    <2>1. PICK k \in 0..(n_groups - 1), long \in BOOLEAN : Head(job) = Sched(S, k, long)
      <3>1. Head(job) # NoSched BY <1>7 DEF NoSched
      <3> QED BY <1>1, <1>4, <3>1, KindsByDo
    <2>2. /\ Head(job).slot = k /\ Head(job).intv = Interval(k, long) /\ Head(job).groups = {1}
          /\ Head(job).run = (k = n_groups - 1) /\ Head(job).depth = n_groups /\ Head(job).modules = S
      BY <2>1 DEF Sched
    <2>3. k = n_groups - 1 /\ k \in Nat
      <3>1. k = n_groups - 1 BY <1>7, <2>2
      <3>2. k \in Nat BY Sizes
      <3> QED BY <3>1, <3>2
    <2>4. Rank(Head(job)) = 6 + k BY <2>1, <2>3, SchedRank
    <2>5. \A q \in Range(job') : Rank(q) > 6 + k
      BY <1>5, <2>3, <2>4 DEF Before
    <2>6. /\ Off \notin Range(job) /\ Play(S, lens) \notin Range(job) /\ Group(S, 1) \notin Range(job)
      <3>1. Off # Head(job) /\ Play(S, lens) # Head(job) /\ Group(S, 1) # Head(job)
        BY <2>3, <2>4, Ranks
      <3>2. Off \notin Range(job') /\ Play(S, lens) \notin Range(job') /\ Group(S, 1) \notin Range(job')
        BY <2>3, <2>5, Ranks
      <3> QED BY <1>5, <3>1, <3>2
    <2>7. Sched(S, k, long) \in Range(job) BY <1>5, <2>1
    <2>8. /\ Sized(S, lens) /\ rot = NoRotation
          /\ \A m \in S : on[m] /\ armed[m].n = n_groups
          /\ \A m \in S : gid[m] = 1
          /\ \A e \in 0..(n_groups - 1) :
              Sched(S, e, long) \in Range(job) \/ (sched.intv[e] = Interval(e, long) /\ sched.group[e] = {1})
      BY <1>4, <2>6, <2>7 DEF Request, Rotating, Pending
    <2>9. ASSUME NEW e \in 0..(n_groups - 1), e # k
          PROVE  sched.intv[e] = Interval(e, long) /\ sched.group[e] = {1}
      <3>1. e \in Nat /\ e < k BY <2>3, <2>9, Sizes
      <3>2. Rank(Sched(S, e, long)) = 6 + e BY <3>1, SchedRank
      <3>3. Sched(S, e, long) \notin Range(job) BY <1>5, <2>3, <2>4, <2>5, <3>1, <3>2
      <3> QED BY <2>8, <3>3
    <2>10. ASSUME NEW e \in 0..(n_groups - 1)
           PROVE  sched'.intv[e] = Interval(e, long) /\ sched'.group[e] = {1}
      <3>1. k \in Slots /\ e \in Slots BY Sizes DEF Slots
      <3>2. DOMAIN sched.intv = Slots /\ DOMAIN sched.group = Slots BY DEF Types
      <3> QED BY <1>2, <2>2, <2>9, <3>1, <3>2
    <2>11. CASE rot' = NoRotation BY <2>11, NoRound
    <2>12. CASE rot' # NoRotation
      <3>1. ~sched.running /\ \A m \in S : play_pos[m] = -1
        BY <1>2, <1>7, <2>2, <2>8, <2>12
      <3>2. rot' = [modules |-> S, long |-> Interval(k, long).long] BY <1>2, <1>7, <2>2, <3>1
      <3>3. rot'.modules = S /\ rot'.long = long BY <3>2 DEF Interval
      <3>4. 0 \in 0..(n_groups - 1) /\ 0 # k BY <2>3, Sizes
      <3>5. sched'.idx = 0 /\ sched'.left = Interval(0, long) BY <1>2, <1>7, <2>9, <3>1, <3>4
      <3>6. S \subseteq Modules BY CoveringFacts
      <3>7. sched'.depth = n_groups BY <1>2, <2>2
      <3> QED BY <1>3, <2>8, <2>10, <3>1, <3>3, <3>4, <3>5, <3>6, <3>7 DEF Round
    <2> QED BY <2>11, <2>12
  <1> QED BY <1>6, <1>7

LEMMA FireRound == ASSUME Types, Players, Round, Fire PROVE Round'
  <1>1. /\ sched'.intv = sched.intv /\ sched'.group = sched.group /\ sched'.depth = sched.depth
        /\ sched'.running = sched.running
        /\ sched'.idx = IF sched.idx + 1 < sched.depth THEN sched.idx + 1 ELSE 0
        /\ sched'.left = sched.intv[sched'.idx]
        /\ UNCHANGED <<isMaster, store, gid, job, req, armed, rot, bounds>>
    BY FireSent
  <1>2. isMaster' = isMaster /\ gid' = gid /\ armed' = armed /\ rot' = rot BY <1>1
  <1>0. ASSUME ~(isMaster /\ sched.running /\ rot.long /\ rot.modules # {}) PROVE Round'
    <2>1. ~(isMaster' /\ sched'.running /\ rot'.long /\ rot'.modules # {}) BY <1>0, <1>1, <1>2
    <2> QED BY <2>1 DEF Round
  <1> SUFFICES ASSUME isMaster, sched.running, rot.long, rot.modules # {} PROVE Round'
    BY <1>0
  <1>3. /\ rot.modules \subseteq Modules
        /\ sched.depth = n_groups /\ sched.idx \in 0..(n_groups - 1)
        /\ sched.left = Interval(sched.idx, TRUE)
        /\ \A e \in 0..(n_groups - 1) : sched.intv[e] = Interval(e, TRUE) /\ sched.group[e] = {1}
        /\ \A m \in rot.modules :
            /\ on[m] /\ armed[m].n = n_groups /\ gid[m] = 1
            /\ IF play_pos[m] = -1 THEN sched.idx = 0 ELSE play_pos[m] = Pred(sched.idx, n_groups)
    BY DEF Round
  <1>4. Trigger({1}) /\ (sched.left.long => \A m \in Modules : fsm[m] \in {"idle", "running"})
    BY <1>3 DEF Fire
  <1>5. \A m \in Modules : fsm[m] \in {"idle", "running"} BY <1>3, <1>4 DEF Interval
  <1>6. PICK i \in 0..(n_groups - 1) : i = sched.idx BY <1>3
  <1>7. n_groups \in Nat /\ n_groups >= 2 /\ n_groups \in Nat \ {0} /\ n_groups \in 0..(MaxSlots - 1)
        /\ MaxSlots \in Nat \ {0}
    BY Sizes
  <1>8. sched'.idx = Succ(i, n_groups)
    BY <1>1, <1>3, <1>6, <1>7 DEF Succ
  <1>9. Succ(i, n_groups) \in 0..(n_groups - 1) /\ Pred(Succ(i, n_groups), n_groups) = i
    BY <1>7, PredSucc
  <1>10. sched'.left = Interval(sched'.idx, TRUE) BY <1>1, <1>3, <1>8, <1>9
  <1>11. ASSUME NEW m \in rot.modules
         PROVE  on'[m] /\ play_pos'[m] = i
    <2>1. on' = on BY <1>4 DEF Trigger
    <2>2. m \in Modules /\ m \in Hit({1}) BY <1>3 DEF Hit
    <2>3. fsm[m] = "running" BY <1>3, <1>5, <2>2 DEF Players, Playing
    <2>4. play_pos'[m] = IF play_pos[m] + 1 >= depth[m] THEN 0 ELSE play_pos[m] + 1
      BY <1>4, <2>2, <2>3 DEF Trigger
    <2>5. depth[m] = n_groups
      <3>1. depth[m] = n_groups % MaxSlots BY <1>3, <2>2 DEF Players, Playing
      <3> QED BY <1>7, <3>1, ModLess
    <2>6. IF play_pos[m] = -1 THEN i = 0 ELSE play_pos[m] = Pred(i, n_groups) BY <1>3, <1>6
    <2>7. play_pos'[m] = i
      <3>1. CASE play_pos[m] = -1 BY <1>7, <2>4, <2>5, <2>6, <3>1
      <3>2. CASE play_pos[m] # -1 BY <1>7, <2>4, <2>5, <2>6, <3>2 DEF Pred
      <3> QED BY <3>1, <3>2
    <2> QED BY <1>3, <2>1, <2>7
  <1>12. i # -1 BY <1>7
  <1>13. \A m \in rot.modules : /\ on'[m] /\ armed'[m].n = n_groups /\ gid'[m] = 1
                                /\ play_pos'[m] # -1 /\ play_pos'[m] = Pred(sched'.idx, n_groups)
    BY <1>2, <1>3, <1>8, <1>9, <1>11, <1>12
  <1>14. /\ sched'.depth = n_groups /\ sched'.idx \in 0..(n_groups - 1)
         /\ \A e \in 0..(n_groups - 1) : sched'.intv[e] = Interval(e, TRUE) /\ sched'.group[e] = {1}
    BY <1>1, <1>3, <1>8, <1>9
  <1>15. rot'.modules \subseteq Modules /\ \A m \in rot'.modules : m \in rot.modules BY <1>2, <1>3
  <1> QED BY <1>10, <1>13, <1>14, <1>15 DEF Round

LEMMA RoundNext == ASSUME Types, Requested, Players, Round, Next PROVE Round'
  <1>1. CASE Route
    <2>1. UNCHANGED <<isMaster, player, gid, sched, history>> BY <1>1, RouteSent
    <2> QED BY <2>1, RoundKept DEF player, history
  <1>2. CASE set_dac_mode
    <2>1. UNCHANGED <<isMaster, player, gid, sched, history>> BY <1>2 DEF set_dac_mode, Sent
    <2> QED BY <2>1, RoundKept DEF player, history
  <1>3. CASE play_off \/ apply_trig_groups \/ trigger \/ Elsewhere
    BY <1>3, NoRound DEF play_off, apply_trig_groups, trigger, Elsewhere
  <1>4. CASE write_wave \/ send_list_write \/ play_on
    <2>1. UNCHANGED <<isMaster, sched, rot>> /\ job # <<>> /\ Head(job).do \in {"wave", "list", "play"}
      BY <1>4 DEF write_wave, send_list_write, play_on, Do, Sent, history
    <2>2. AllOff BY <2>1, WaveOff
    <2> QED BY <2>1, <2>2, RoundOff
  <1>5. CASE send_group_sched_ctrl BY <1>5, SchedRound
  <1>6. CASE Raise
    <2>1. UNCHANGED <<isMaster, player, gid, sched, history>> BY <1>6 DEF Raise
    <2> QED BY <2>1, RoundKept DEF player, history
  <1>7. CASE Fire BY <1>7, FireRound
  <1>8. CASE \E m \in Modules : Refill(m)
    <2>1. UNCHANGED <<isMaster, sched, on, play_pos, gid, history>> BY <1>8 DEF Refill
    <2> QED BY <2>1, RoundKept DEF history
  <1> QED BY <1>1, <1>2, <1>3, <1>4, <1>5, <1>6, <1>7, <1>8 DEF Next, Packet

LEMMA RoundInit == ASSUME Init PROVE Round
  BY DEF Init, Round, NoRotation

LEMMA RoundTime == ASSUME Types, Round PROVE SetLastsItsTime
  <1> SUFFICES ASSUME isMaster, sched.running, rot.long, NEW m \in rot.modules
               PROVE  IF play_pos[m] = -1 THEN sched.idx = 0 ELSE sched.left.set = play_pos[m]
    BY DEF SetLastsItsTime
  <1>1. /\ sched.left = Interval(sched.idx, TRUE)
        /\ IF play_pos[m] = -1 THEN sched.idx = 0 ELSE play_pos[m] = Pred(sched.idx, n_groups)
    BY DEF Round
  <1>2. sched.left.set = Pred(sched.idx, n_groups) BY <1>1 DEF Interval, Pred
  <1> QED BY <1>1, <1>2

-----------------------------------------------------------------------------
(* The invariant holds always, and what follows from it.                   *)

LEMMA Stutter == ASSUME IInv, UNCHANGED vars PROVE IInv'
  <1>1. /\ UNCHANGED <<isMaster, store, player, modes, gid, sched, job, req, armed, rot>>
    BY DEF vars, history
  <1>2. Types'
    <2>1. PlayerTypes' BY <1>1, PlayersUnchanged, TypesParts DEF IInv
    <2>2. StoreTypes' /\ OtherTypes' /\ SchedTypes'
      BY <1>1, TypesParts DEF IInv, StoreTypes, OtherTypes, SchedTypes, store
    <2> QED BY <2>1, <2>2, TypesLater
  <1>3. Requested' BY <1>1, RequestedKept DEF IInv, player, store
  <1>4. Players' BY <1>1, PlayersKept DEF IInv, player, store
  <1>5. Stopping' BY <1>1 DEF IInv, Stopping, Pending, player, modes
  <1>6. Round' BY <1>1, RoundKept DEF IInv, player
  <1> QED BY <1>2, <1>3, <1>4, <1>5, <1>6 DEF IInv

\* Every step of the console, the board and the other boards keeps the invariant: the packets
\* of a request, in the order board_ctrl.py sends them, the players' triggers and refills, the
\* scheduler's beats, and a request that fails half-way.
THEOREM Inductive == Spec => []IInv
  <1>1. Init => IInv
    BY TypesInit, RequestedInit, PlayersInit, StoppingInit, RoundInit DEF IInv
  <1>2. IInv /\ [Next]_vars => IInv'
    <2>1. ASSUME IInv, Next PROVE IInv'
      BY <2>1, TypesNext, RequestedNext, PlayersNext, StoppingNext, RoundNext DEF IInv
    <2> QED BY <2>1, Stutter
  <1> QED BY <1>1, <1>2, PTL DEF Spec

\* The registers of the players, of the mode sides and of the scheduler keep to their ranges;
\* list_depth and play_pos wrap where waveform_controller.v makes them.
THEOREM TypeCorrect == Spec => []TypeOK
  <1>1. IInv => TypeOK BY DEF IInv, Types
  <1> QED BY <1>1, Inductive, PTL

\* Whatever fails on the way, a module that is switched on (T_PLAY_CTRL) reads waveforms of one
\* request, all their bursts and all its slots: _check_slot_fits and the margins keep the slots
\* apart, and the off packet comes before the first write.  It shows them in order.
THEOREM PlayersPlayWhole == Spec => []WhatPlaysIsWhole
  <1>1. IInv => WhatPlaysIsWhole BY PlayersWhole DEF IInv
  <1> QED BY <1>1, Inductive, PTL

\* A Stop of the panels that did not fail ends with the scheduler off, every module on the
\* zeroes of that very request and, if no other board's trigger joined in, the mode side of the
\* waveforms in use, whichever rotation or arm was under way before.
THEOREM StopsAreQuiet == Spec => []StopIsQuiet
  <1>1. IInv => StopIsQuiet BY StopIsOver DEF IInv
  <1> QED BY <1>1, Inductive, PTL

\* start_rotation_schedule puts the duration of set i in entry (i + 1) % n, and
\* group_trig_scheduler.v loads an entry's interval when it fires the one before: while
\* set i plays, what is counted down is the duration of set i.
THEOREM SetsLastTheirTime == Spec => []SetLastsItsTime
  <1>1. IInv => SetLastsItsTime BY RoundTime DEF IInv
  <1> QED BY <1>1, Inductive, PTL
=============================================================================
