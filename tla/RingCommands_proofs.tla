------------------------- MODULE RingCommands_proofs -------------------------
(***************************************************************************)
(* A board carries out the commands of one host in the order in which they *)
(* were given, for every ring, every set of hosts and destinations and any *)
(* number of commands.                                                     *)
(*                                                                         *)
(* A command is in five kinds of queue on its way, and a broadcast is in   *)
(* several at once, so that no queue by itself says what the order is.     *)
(* The inductive invariant IInv takes all queues as one function of their  *)
(* places (Queue).  A command for one board has a position, which grows by *)
(* one with every move; of two commands of one host for the same board the *)
(* one that is further was given earlier (Ordered).  A broadcast is alone  *)
(* of its host, which waits before and after it (Alone); this is what a    *)
(* transmitter that holds back the commands behind a frame without an end  *)
(* takes away, so that the order is kept for as long as none is sent then. *)
(* What the second beat of a refused command is taken for is no command;   *)
(* the invariant passes over it.                                           *)
(*                                                                         *)
(* Every action but Send and Apply is a move: it takes the first command   *)
(* of one queue to the end of others (Shift).  What a move keeps is shown  *)
(* once, for any move; then that the dispatcher's and the data channel's   *)
(* actions are moves by one position.                                      *)
(***************************************************************************)
EXTENDS RingCommands, SequenceTheorems, FiniteSetTheorems, TLAPS

-----------------------------------------------------------------------------
(* The ring's geometry.                                                    *)

\* Hops from board a to board b.
Hops(a, b) == IF b >= a THEN b - a ELSE b + N - a

\* The next board round the ring is a board.
LEMMA Afterwards ==
    ASSUME NEW b \in Boards
    PROVE  After(b) \in Boards /\ After(b) = IF b + 1 < N THEN b + 1 ELSE 0
  <1>1. N \in Nat /\ N >= 2 /\ b \in 0..N-1  BY RingAssumption DEF Boards
  <1>2. CASE b + 1 < N  BY <1>1, <1>2 DEF After, Boards
  <1>3. CASE b + 1 = N  BY <1>1, <1>3 DEF After, Boards
  <1> QED  BY <1>1, <1>2, <1>3

\* The next board is one hop further from any board a, or it is a itself.
LEMMA OneHop ==
    ASSUME NEW a \in Boards, NEW b \in Boards
    PROVE  /\ Hops(a, b) \in 0..(N - 1) /\ (Hops(a, b) = 0 <=> a = b)
           /\ Hops(a, After(b)) = IF After(b) = a THEN 0 ELSE Hops(a, b) + 1
           /\ After(b) = a => Hops(a, b) = N - 1
           /\ After(b) # b
  <1>1. N \in Nat /\ N >= 2 /\ a \in 0..N-1 /\ b \in 0..N-1  BY RingAssumption DEF Boards
  <1>2. After(b) = IF b + 1 < N THEN b + 1 ELSE 0  BY Afterwards
  <1> QED  BY <1>1, <1>2 DEF Hops

\* The hops from a board tell the others apart.
LEMMA SameHops ==
    ASSUME NEW a \in Boards, NEW b \in Boards, NEW c \in Boards, Hops(a, b) = Hops(a, c)
    PROVE  b = c
  <1>1. N \in Nat /\ N >= 2 /\ a \in 0..N-1 /\ b \in 0..N-1 /\ c \in 0..N-1
        BY RingAssumption DEF Boards
  <1> QED  BY <1>1 DEF Hops

-----------------------------------------------------------------------------
(* The queues as one, and what is always true of them.                     *)

\* A place is a kind of queue on a board; Queue has the queue of each.
Kinds == {"fp", "rx", "tx", "relay", "local"}
Places == Kinds \X Boards
Queue == [p \in Places |->
    IF p[1] = "fp" THEN fp[p[2]] ELSE IF p[1] = "rx" THEN rx[p[2]] ELSE
    IF p[1] = "tx" THEN tx[p[2]] ELSE IF p[1] = "relay" THEN relay[p[2]] ELSE local[p[2]]]

\* Belongs: a command is on its way to where it is addressed.
Belongs(p, f) ==
    /\ p[1] = "fp" => f.src = p[2]
    /\ p[1] = "tx" => f.dest # p[2] /\ (f.dest # All => f.src = p[2])
    /\ p[1] = "relay" /\ f.dest # All =>
         f.dest \in Boards /\ Hops(f.src, p[2]) # 0 /\ Hops(f.src, p[2]) < Hops(f.src, f.dest)
    /\ p[1] = "rx" /\ f.dest # All => f.dest = p[2] /\ f.src # p[2]
    /\ p[1] = "local" /\ f.dest # All => f.dest = p[2]

\* How far a command for one board has come; each move takes it one further.
Pos(p, f) ==
    IF p[1] = "fp" THEN 0 ELSE IF p[1] = "tx" THEN 1 ELSE
    IF p[1] = "relay" THEN 1 + Hops(f.src, p[2]) ELSE
    IF p[1] = "rx" THEN 1 + Hops(f.src, p[2]) ELSE
    IF f.src = p[2] THEN 1 ELSE 2 + Hops(f.src, p[2])

\* What a queue may hold: the relay FIFOs also what was taken for a frame.
Entries == Command \cup Strays

\* Commands of one host for one and the same board; those that are for board b.
Same(f, g) == IsCommand(f) /\ IsCommand(g) /\ f.src = g.src /\ f.dest = g.dest /\ f.dest # All
For(b, f) == f.dest \in {b, All}
Mine(h, S) == {c \in S : c.src = h}

\* The invariant: every command is on its way; of two for the same board the one that is
\* further, or nearer to the head of the same queue, was given no later (only repeats are
\* equal); with a broadcast there is no other command of its host; what a board has
\* carried out is no later than what is still coming to it; and all were counted.
OnTheWay(q) ==
    \A p \in Places : \A i \in 1..Len(q[p]) : IsCommand(q[p][i]) => Belongs(p, q[p][i])
Ordered(q) == \A p, r \in Places : \A i \in 1..Len(q[p]) : \A j \in 1..Len(q[r]) :
    Same(q[p][i], q[r][j]) /\ (Pos(p, q[p][i]) > Pos(r, q[r][j]) \/ (p = r /\ i < j))
        => q[p][i].no <= q[r][j].no
Alone(q) == \A p, r \in Places : \A i \in 1..Len(q[p]) : \A j \in 1..Len(q[r]) :
    IsCommand(q[p][i]) /\ IsCommand(q[r][j]) /\ q[p][i].src = q[r][j].src /\ q[p][i].dest = All
        => q[p][i] = q[r][j]
Later(q, l) == \A p \in Places : \A i \in 1..Len(q[p]) : \A b \in Boards :
    IsCommand(q[p][i]) /\ For(b, q[p][i]) => l[b][q[p][i].src] <= q[p][i].no
Counted(q, l, S) ==
    /\ IsFiniteSet(S) /\ \A c \in S : c.no <= Cardinality(Mine(c.src, S))
    /\ \A p \in Places : \A i \in 1..Len(q[p]) :
         IsCommand(q[p][i]) => q[p][i].no <= Cardinality(Mine(q[p][i].src, S))
    /\ \A b \in Boards, h \in Hosts : l[b][h] <= Cardinality(Mine(h, S))

Sound(q, l, S) == OnTheWay(q) /\ Ordered(q) /\ Alone(q) /\ Later(q, l) /\ Counted(q, l, S)
IInv == TypeOK /\ IsFiniteSet(sent) /\ (~unpaced => Sound(Queue, last, sent))

\* Commands are numbered.
LEMMA NumbersAreNat ==
    \A n \in Numbers : n \in Nat
  <1> SUFFICES ASSUME NEW n \in Numbers PROVE n \in Nat  OBVIOUS
  <1>1. PICK h \in Hosts : n \in 0..Budget[h]  BY DEF Numbers
  <1> QED  BY <1>1

\* The fields of a command.
LEMMA CommandTyped ==
    ASSUME NEW f \in Command
    PROVE  /\ f.src \in Hosts /\ f.src \in Boards /\ f.no \in Numbers /\ f.no \in Nat
           /\ f.dest \in Dests /\ f.dest \in Nat /\ All \in Nat /\ IsCommand(f)
  <1>1. f.src \in Hosts /\ f.dest \in Dests /\ f.no \in Numbers \ {0}  BY DEF Command
  <1> QED  BY <1>1, NumbersAreNat, RingAssumption DEF IsCommand

\* A stray is no command; what is one among the entries was sent by a host.
LEMMA EntryTyped ==
    ASSUME NEW f \in Entries
    PROVE  (f \in Strays => ~IsCommand(f)) /\ (IsCommand(f) <=> f \in Command)
  <1>1. f \in Strays => f.no = 0  BY RingAssumption
  <1> QED  BY <1>1, CommandTyped DEF Entries, IsCommand

\* A queue of commands is a queue of entries.
LEMMA EntrySeq ==
    ASSUME NEW s \in Seq(Command)
    PROVE  s \in Seq(Entries)
  <1>1. Command \subseteq Entries  BY DEF Entries
  <1> QED  BY <1>1, SeqMonotonic

-----------------------------------------------------------------------------
(* Places and positions.                                                   *)

\* Of two commands of one host for one board, those at the same position are in the
\* same queue, and none is further than the registers of its board.
LEMMA Positions ==
    ASSUME NEW p \in Places, NEW r \in Places, NEW f \in Command, NEW g \in Command,
           Same(f, g), Belongs(p, f), Belongs(r, g)
    PROVE  /\ Pos(p, f) \in Nat /\ Pos(r, g) \in Nat
           /\ Pos(p, f) = Pos(r, g) => p = r
           /\ p[1] = "local" => Pos(r, g) <= Pos(p, f)
  <1>1. /\ p = <<p[1], p[2]>> /\ p[1] \in Kinds /\ p[2] \in Boards
        /\ r = <<r[1], r[2]>> /\ r[1] \in Kinds /\ r[2] \in Boards
    BY DEF Places
  <1>2. f.src \in Boards /\ g.src = f.src /\ g.dest = f.dest /\ f.dest # All
    BY RingAssumption DEF Command, Same
  <1>3. PICK s \in Boards : s = f.src  BY <1>2
  <1>4. PICK a \in Nat, b \in Nat : a = Hops(s, p[2]) /\ b = Hops(s, r[2])
    BY <1>1, OneHop
  <1>5. (a = 0 <=> s = p[2]) /\ (b = 0 <=> s = r[2]) /\ (a = b => p[2] = r[2])
    BY <1>1, <1>4, OneHop, SameHops
  <1>6. PICK x, y : x = p[1] /\ y = r[1]  OBVIOUS
  <1>7. PICK u, v : u = p[2] /\ v = r[2]  OBVIOUS
  <1>8. x \in Kinds /\ y \in Kinds /\ p = <<x, u>> /\ r = <<y, v>>  BY <1>1, <1>6, <1>7
  <1>9. f.dest \in Boards => Hops(s, f.dest) \in Nat /\ (f.dest = u => Hops(s, f.dest) = a)
        /\ (f.dest = v => Hops(s, f.dest) = b)
    BY <1>4, <1>7, OneHop
  <1>10. PICK d : d = f.dest  OBVIOUS
  <1>11. PICK c : c = Hops(s, d)  OBVIOUS
  <1>12. /\ d # All
         /\ x = "fp" => s = u
         /\ x = "tx" => d # u /\ s = u
         /\ x = "relay" => d \in Boards /\ a # 0 /\ a < c
         /\ x = "rx" => d = u /\ s # u
         /\ x = "local" => d = u
    BY <1>2, <1>3, <1>4, <1>6, <1>7, <1>10, <1>11 DEF Belongs
  <1>13. /\ y = "fp" => s = v
         /\ y = "tx" => d # v /\ s = v
         /\ y = "relay" => d \in Boards /\ b # 0 /\ b < c
         /\ y = "rx" => d = v /\ s # v
         /\ y = "local" => d = v
    BY <1>2, <1>3, <1>4, <1>6, <1>7, <1>10, <1>11 DEF Belongs
  <1>14. /\ u \in Boards /\ v \in Boards
         /\ d = u => c = a
         /\ d = v => c = b
         /\ d \in Boards => c \in Nat
    BY <1>1, <1>4, <1>7, <1>9, <1>10, <1>11
  <1>15. (a = 0 <=> s = u) /\ (b = 0 <=> s = v) /\ (a = b => u = v)  BY <1>5, <1>7
  <1>16. Pos(p, f) = IF x = "fp" THEN 0 ELSE IF x = "tx" THEN 1 ELSE IF x = "relay" THEN 1 + a ELSE
                     IF x = "rx" THEN 1 + a ELSE IF s = u THEN 1 ELSE 2 + a
    BY <1>3, <1>4, <1>6, <1>7 DEF Pos
  <1>17. Pos(r, g) = IF y = "fp" THEN 0 ELSE IF y = "tx" THEN 1 ELSE IF y = "relay" THEN 1 + b ELSE
                     IF y = "rx" THEN 1 + b ELSE IF s = v THEN 1 ELSE 2 + b
    BY <1>2, <1>3, <1>4, <1>6, <1>7 DEF Pos
  <1>18. x \in {"fp", "rx", "tx", "relay", "local"} /\ y \in {"fp", "rx", "tx", "relay", "local"}
    BY <1>8 DEF Kinds
  <1>19. Pos(p, f) \in Nat /\ Pos(r, g) \in Nat  BY <1>4, <1>16, <1>17
  <1>20. ASSUME Pos(p, f) = Pos(r, g) PROVE x = y /\ u = v
    BY <1>4, <1>12, <1>13, <1>14, <1>15, <1>16, <1>17, <1>18, <1>20, SMTT(60)
  <1>21. ASSUME x = "local" PROVE Pos(r, g) <= Pos(p, f)
    BY <1>4, <1>12, <1>13, <1>14, <1>15, <1>16, <1>17, <1>18, <1>21, SMTT(60)
  <1> QED  BY <1>6, <1>8, <1>19, <1>20, <1>21

-----------------------------------------------------------------------------
(* A move: the first entry of one queue goes to the end of others, or      *)
(* leaves a stray there.                                                   *)

Shift(q, s, o, D, g) ==
    /\ g \in Entries /\ (IsCommand(g) => g = Head(q[o]))
    /\ o \in Places /\ D \subseteq Places /\ o \notin D /\ q[o] # <<>>
    /\ \A p \in Places : s[p] = IF p = o THEN Tail(q[p]) ELSE
                                IF p \in D THEN Append(q[p], g) ELSE q[p]

\* Where a command of a queue was before the move.
Was(o, p, i) == IF p = o THEN i + 1 ELSE i

\* A command that is in a queue after a move was there before, one place further back in
\* the queue moved from, or is the one that moved, now the last.
LEMMA Moved ==
    ASSUME NEW q \in [Places -> Seq(Entries)], NEW s, NEW o, NEW D, NEW g, Shift(q, s, o, D, g),
           NEW p \in Places, NEW i \in 1..Len(s[p])
    PROVE  \/ Was(o, p, i) \in 1..Len(q[p]) /\ s[p][i] = q[p][Was(o, p, i)]
           \/ p \in D /\ p # o /\ i = Len(q[p]) + 1 /\ s[p][i] = g
  <1>1. q[p] \in Seq(Entries) /\ q[o] \in Seq(Entries) /\ Len(q[p]) \in Nat  BY DEF Shift
  <1>2. CASE p = o
    <2>1. s[p] = Tail(q[p]) /\ q[p] # <<>>  BY <1>2 DEF Shift
    <2>2. /\ Len(Tail(q[p])) = Len(q[p]) - 1
          /\ \A k \in 1..Len(Tail(q[p])) : Tail(q[p])[k] = q[p][k + 1]
      BY <1>1, <2>1, HeadTailProperties
    <2>3. i + 1 \in 1..Len(q[p]) /\ s[p][i] = q[p][i + 1]  BY <1>1, <2>1, <2>2
    <2> QED  BY <1>2, <2>3 DEF Was
  <1>3. CASE p # o /\ p \in D
    <2>1. s[p] = Append(q[p], g) /\ g \in Entries  BY <1>3 DEF Shift
    <2>3. /\ Len(s[p]) = Len(q[p]) + 1
          /\ \A k \in 1..Len(q[p]) : s[p][k] = q[p][k]
          /\ s[p][Len(q[p]) + 1] = g
      BY <1>1, <2>1, AppendProperties
    <2>4. i \in 1..Len(q[p]) \/ i = Len(q[p]) + 1  BY <1>1, <2>3
    <2> QED  BY <1>3, <2>3, <2>4 DEF Was
  <1>4. CASE p # o /\ p \notin D
    <2>1. s[p] = q[p]  BY <1>4 DEF Shift
    <2> QED  BY <1>4, <2>1 DEF Was
  <1> QED  BY <1>2, <1>3, <1>4

\* The command that moves was the first of its queue.
LEMMA Mover ==
    ASSUME NEW q \in [Places -> Seq(Entries)], NEW s, NEW o, NEW D, NEW g, Shift(q, s, o, D, g)
    PROVE  /\ o \in Places /\ 1 \in 1..Len(q[o]) /\ q[o][1] \in Entries /\ D \subseteq Places
           /\ g \in Entries /\ (IsCommand(g) => g = q[o][1])
  <1>1. /\ q[o] \in Seq(Entries) /\ q[o] # <<>> /\ o \in Places /\ D \subseteq Places
        /\ g \in Entries /\ (IsCommand(g) => g = Head(q[o]))
    BY DEF Shift
  <1>2. Len(q[o]) \in Nat /\ Len(q[o]) # 0  BY <1>1, EmptySeq
  <1>3. Head(q[o]) = q[o][1]  BY <1>1, HeadTailProperties
  <1> QED  BY <1>1, <1>2, <1>3, ElementOfSeq

\* Every command that is there after a move was there before.
LEMMA Came ==
    ASSUME NEW q \in [Places -> Seq(Entries)], NEW s, NEW o, NEW D, NEW g, Shift(q, s, o, D, g),
           NEW p \in Places, NEW i \in 1..Len(s[p]), IsCommand(s[p][i])
    PROVE  \E r \in Places : \E k \in 1..Len(q[r]) : s[p][i] = q[r][k] /\ (p = r \/ (p \in D
          /\ r = o /\ k = 1))
  <1>1. CASE Was(o, p, i) \in 1..Len(q[p]) /\ s[p][i] = q[p][Was(o, p, i)]  BY <1>1
  <1>2. CASE p \in D /\ s[p][i] = g  BY <1>2, Mover
  <1> QED  BY <1>1, <1>2, Moved

\* The same, as a fact about all places.
LEMMA CameAll ==
    ASSUME NEW q \in [Places -> Seq(Entries)], NEW s, NEW o, NEW D, NEW g, Shift(q, s, o, D, g)
    PROVE  \A p \in Places : \A i \in 1..Len(s[p]) : IsCommand(s[p][i]) =>
                \E r \in Places : \E k \in 1..Len(q[r]) : s[p][i] = q[r][k]
  <1> SUFFICES ASSUME NEW p \in Places, NEW i \in 1..Len(s[p]), IsCommand(s[p][i])
               PROVE  \E r \in Places : \E k \in 1..Len(q[r]) : s[p][i] = q[r][k]
    OBVIOUS
  <1>1. PICK r \in Places : \E k \in 1..Len(q[r]) : s[p][i] = q[r][k] /\ (p = r \/ (p \in D
        /\ r = o /\ k = 1))
    BY Came
  <1> QED  BY <1>1

\* The parts of the invariant survive a move: every command is on its way if the one that
\* moves still is.
LEMMA WayKept ==
    ASSUME NEW q \in [Places -> Seq(Entries)], NEW s, NEW o, NEW D, NEW g, Shift(q, s, o, D, g),
           OnTheWay(q), IsCommand(g) => \A p \in D : Belongs(p, g)
    PROVE  OnTheWay(s)
  <1> SUFFICES ASSUME NEW p \in Places, NEW i \in 1..Len(s[p]), IsCommand(s[p][i]) PROVE Belongs(p, s[p][i])
    BY DEF OnTheWay
  <1>1. CASE Was(o, p, i) \in 1..Len(q[p]) /\ s[p][i] = q[p][Was(o, p, i)]
    BY <1>1 DEF OnTheWay
  <1>2. CASE p \in D /\ s[p][i] = g  BY <1>2
  <1> QED  BY <1>1, <1>2, Moved

\* A move brings no command into the company of a broadcast of its host.
LEMMA AloneKept ==
    ASSUME NEW q \in [Places -> Seq(Entries)], NEW s, NEW o, NEW D, NEW g, Shift(q, s, o, D, g), Alone(q)
    PROVE  Alone(s)
  <1>0. \A p \in Places : \A i \in 1..Len(s[p]) : IsCommand(s[p][i]) =>
            \E r \in Places : \E k \in 1..Len(q[r]) : s[p][i] = q[r][k]
    BY CameAll
  <1> SUFFICES ASSUME NEW p \in Places, NEW t \in Places, NEW i \in 1..Len(s[p]),
        NEW j \in 1..Len(s[t]),
                      NEW a, a = s[p][i], NEW b, b = s[t][j], IsCommand(a), IsCommand(b),
                      a.src = b.src, a.dest = All
               PROVE  a = b
    BY DEF Alone
  <1>1. PICK r \in Places : \E k \in 1..Len(q[r]) : s[p][i] = q[r][k]  BY <1>0
  <1>2. PICK k \in 1..Len(q[r]) : a = q[r][k]  BY <1>1
  <1>3. PICK u \in Places : \E l \in 1..Len(q[u]) : s[t][j] = q[u][l]  BY <1>0
  <1>4. PICK l \in 1..Len(q[u]) : b = q[u][l]  BY <1>3
  <1> QED  BY <1>2, <1>4 DEF Alone

\* No command becomes older than what its board has carried out.
LEMMA LaterKept ==
    ASSUME NEW q \in [Places -> Seq(Entries)], NEW s, NEW o, NEW D, NEW g, Shift(q, s, o, D, g), NEW l,
          Later(q, l)
    PROVE  Later(s, l)
  <1> SUFFICES ASSUME NEW p \in Places, NEW i \in 1..Len(s[p]), NEW b \in Boards,
                      IsCommand(s[p][i]), For(b, s[p][i])
               PROVE  l[b][s[p][i].src] <= s[p][i].no
    BY DEF Later
  <1>1. PICK r \in Places : \E k \in 1..Len(q[r]) : s[p][i] = q[r][k]  BY CameAll
  <1>2. PICK k \in 1..Len(q[r]) : s[p][i] = q[r][k]  BY <1>1
  <1> QED  BY <1>2 DEF Later

\* No command has a number its host has not yet given.
LEMMA CountedKept ==
    ASSUME NEW q \in [Places -> Seq(Entries)], NEW s, NEW o, NEW D, NEW g, Shift(q, s, o, D, g), NEW l,
          NEW S, Counted(q, l, S)
    PROVE  Counted(s, l, S)
  <1>0. \A p \in Places : \A i \in 1..Len(s[p]) : IsCommand(s[p][i]) =>
            \E r \in Places : \E k \in 1..Len(q[r]) : s[p][i] = q[r][k]
    BY CameAll
  <1>1. ASSUME NEW p \in Places, NEW i \in 1..Len(s[p]), IsCommand(s[p][i])
        PROVE  s[p][i].no <= Cardinality(Mine(s[p][i].src, S))
    <2>1. PICK r \in Places : \E k \in 1..Len(q[r]) : s[p][i] = q[r][k]  BY <1>0, <1>1
    <2>2. PICK k \in 1..Len(q[r]) : s[p][i] = q[r][k]  BY <2>1
    <2> QED  BY <1>1, <2>2 DEF Counted
  <1> QED  BY <1>1 DEF Counted

\* The order of the commands for one board survives a move by one step.
LEMMA OrderKept ==
    ASSUME NEW q \in [Places -> Seq(Entries)], NEW s, NEW o, NEW D, NEW g, Shift(q, s, o, D, g),
           OnTheWay(q), Ordered(q), IsCommand(g) => \A p \in D : Belongs(p, g),
           IsCommand(g) /\ g.dest # All => \A p \in D : Pos(p, g) = Pos(o, g) + 1
    PROVE  Ordered(s)
  <1>0. PICK f : f = g  OBVIOUS
  <1>1. /\ o \in Places /\ 1 \in 1..Len(q[o]) /\ f \in Entries /\ D \subseteq Places
        /\ IsCommand(f) => f = q[o][1] /\ f \in Command
    BY <1>0, Mover, EntryTyped
  <1>2. IsCommand(f) => Belongs(o, f)  BY <1>1 DEF OnTheWay
  <1> SUFFICES ASSUME NEW p \in Places, NEW r \in Places, NEW i \in 1..Len(s[p]),
        NEW j \in 1..Len(s[r]),
                      NEW a, a = s[p][i], NEW b, b = s[r][j], Same(a, b),
                      Pos(p, a) > Pos(r, b) \/ (p = r /\ i < j)
               PROVE  a.no <= b.no
    BY DEF Ordered
  <1>3. PICK k : k = Was(o, p, i)  OBVIOUS
  <1>4. PICK l : l = Was(o, r, j)  OBVIOUS
  <1>5. \/ k \in 1..Len(q[p]) /\ a = q[p][k]
        \/ p \in D /\ p # o /\ i = Len(q[p]) + 1 /\ a = f
    BY <1>0, <1>3, Moved
  <1>6. \/ l \in 1..Len(q[r]) /\ b = q[r][l]
        \/ r \in D /\ r # o /\ j = Len(q[r]) + 1 /\ b = f
    BY <1>0, <1>4, Moved
  <1>7. \A x \in Places : \A y \in 1..Len(q[x]) :
            IsCommand(q[x][y]) => q[x][y] \in Command /\ Belongs(x, q[x][y])
    <2> SUFFICES ASSUME NEW x \in Places, NEW y \in 1..Len(q[x]), IsCommand(q[x][y])
                 PROVE  q[x][y] \in Command /\ Belongs(x, q[x][y])
      OBVIOUS
    <2>1. q[x] \in Seq(Entries)  OBVIOUS
    <2>2. q[x][y] \in Entries  BY <2>1, ElementOfSeq
    <2> QED  BY <2>2, EntryTyped DEF OnTheWay
  <1>70. IsCommand(a) /\ IsCommand(b)  BY DEF Same
  <1>71. IsCommand(f) => \A x \in D : Belongs(x, f)  BY <1>0
  <1>72. IsCommand(f) /\ f.dest # All => \A x \in D : Pos(x, f) = Pos(o, f) + 1  BY <1>0
  <1>8. a \in Command /\ Belongs(p, a)  BY <1>1, <1>5, <1>7, <1>70, <1>71
  <1>9. b \in Command /\ Belongs(r, b)  BY <1>1, <1>6, <1>7, <1>70, <1>71
  <1>10. Len(q[p]) \in Nat /\ Len(q[r]) \in Nat /\ i \in Nat /\ j \in Nat  OBVIOUS
  <1>11. CASE k \in 1..Len(q[p]) /\ a = q[p][k] /\ l \in 1..Len(q[r]) /\ b = q[r][l]
    <2>1. p = r /\ i < j => k < l  BY <1>3, <1>4, <1>10 DEF Was
    <2> QED  BY <1>11, <2>1 DEF Ordered
  <1>12. CASE p \in D /\ p # o /\ i = Len(q[p]) + 1 /\ a = f /\ l \in 1..Len(q[r]) /\ b = q[r][l]
    <2>1. Pos(p, f) = Pos(o, f) + 1 /\ IsCommand(f)  BY <1>12, <1>70, <1>72 DEF Same
    <2>2. Same(f, b)  BY <1>12
    <2>3. Pos(o, f) \in Nat /\ Pos(r, b) \in Nat /\ (Pos(o, f) = Pos(r, b) => o = r)
      BY <2>1, <2>2, <1>1, <1>2, <1>9, Positions
    <2>4. ~(p = r /\ i < j)  BY <1>4, <1>10, <1>12 DEF Was
    <2>5. Pos(p, f) > Pos(r, b)  BY <2>4, <1>12
    <2>6. Pos(o, f) > Pos(r, b) \/ o = r  BY <2>1, <2>3, <2>5
    <2>7. o = r => 1 < l  BY <1>4, <1>10 DEF Was
    <2> QED  BY <2>1, <2>2, <2>6, <2>7, <1>1, <1>12 DEF Ordered
  <1>13. CASE k \in 1..Len(q[p]) /\ a = q[p][k] /\ r \in D /\ r # o /\ j = Len(q[r]) + 1 /\ b = f
    <2>1. Same(a, f) /\ f.dest # All /\ IsCommand(f)  BY <1>13 DEF Same
    <2>2. Pos(r, f) = Pos(o, f) + 1  BY <2>1, <1>13, <1>72
    <2>3. Pos(p, a) \in Nat /\ Pos(o, f) \in Nat  BY <2>1, <1>1, <1>2, <1>8, Positions
    <2>4. p = r => Pos(p, a) = Pos(r, f)  BY <2>1 DEF Pos, Same
    <2>5. Pos(p, a) > Pos(o, f)  BY <1>13, <2>2, <2>3, <2>4
    <2> QED  BY <1>1, <1>13, <2>1, <2>5 DEF Ordered
  <1>14. CASE p \in D /\ i = Len(q[p]) + 1 /\ a = f /\ r \in D /\ j = Len(q[r]) + 1 /\ b = f
    <2>1. f.dest # All /\ IsCommand(f)  BY <1>14 DEF Same
    <2>2. Pos(p, f) = Pos(o, f) + 1 /\ Pos(r, f) = Pos(o, f) + 1  BY <2>1, <1>14, <1>72
    <2>3. Same(f, f)  BY <2>1 DEF Same
    <2>4. Pos(o, f) \in Nat  BY <2>1, <2>3, <1>1, <1>2, Positions
    <2> QED  BY <1>10, <1>14, <2>2, <2>4
  <1> QED  BY <1>5, <1>6, <1>11, <1>12, <1>13, <1>14

\* What the actions on the queues have to keep; any move does that brings the command one
\* position further.
LEMMA SoundKept ==
    ASSUME NEW q \in [Places -> Seq(Entries)], NEW s, NEW o, NEW D, NEW g, Shift(q, s, o, D, g), NEW l, NEW S,
           Sound(q, l, S), IsCommand(g) => \A p \in D : Belongs(p, g),
           IsCommand(g) /\ g.dest # All => \A p \in D : Pos(p, g) = Pos(o, g) + 1
    PROVE  Sound(s, l, S)
  <1>1. OnTheWay(s)  BY WayKept DEF Sound
  <1>2. Ordered(s)  BY OrderKept DEF Sound
  <1>3. Alone(s)  BY AloneKept DEF Sound
  <1>4. Later(s, l)  BY LaterKept DEF Sound
  <1>5. Counted(s, l, S)  BY CountedKept DEF Sound
  <1> QED  BY <1>1, <1>2, <1>3, <1>4, <1>5 DEF Sound

-----------------------------------------------------------------------------
(* The queues.                                                             *)

\* The queues are sequences of commands on every board, the relay FIFOs of entries.
QueueTypes == /\ \A x \in {fp, rx, tx, local} : x \in [Boards -> Seq(Command)]
              /\ relay \in [Boards -> Seq(Entries)]

\* What the queue of each place is, and that these are the places.
LEMMA QueueIs ==
    ASSUME NEW b \in Boards
    PROVE  /\ Queue[<<"fp", b>>] = fp[b] /\ Queue[<<"rx", b>>] = rx[b]
           /\ Queue[<<"tx", b>>] = tx[b]
           /\ Queue[<<"relay", b>>] = relay[b] /\ Queue[<<"local", b>>] = local[b]
           /\ <<"fp", b>> \in Places /\ <<"rx", b>> \in Places /\ <<"tx", b>> \in Places
           /\ <<"relay", b>> \in Places /\ <<"local", b>> \in Places
  BY DEF Queue, Places, Kinds

\* The same in the next state.
LEMMA QueueWillBe ==
    ASSUME NEW b \in Boards
    PROVE  /\ Queue'[<<"fp", b>>] = fp'[b] /\ Queue'[<<"rx", b>>] = rx'[b]
           /\ Queue'[<<"tx", b>>] = tx'[b]
           /\ Queue'[<<"relay", b>>] = relay'[b] /\ Queue'[<<"local", b>>] = local'[b]
  BY DEF Queue, Places, Kinds

\* The queues hold entries.
LEMMA QueueTyped ==
    ASSUME QueueTypes
    PROVE  Queue \in [Places -> Seq(Entries)]
  <1>1. \A p \in Places : p[2] \in Boards  BY DEF Places
  <1>2. \A b \in Boards : /\ fp[b] \in Seq(Entries) /\ rx[b] \in Seq(Entries)
                          /\ tx[b] \in Seq(Entries) /\ relay[b] \in Seq(Entries)
                          /\ local[b] \in Seq(Entries)
    <2> SUFFICES ASSUME NEW b \in Boards
                 PROVE  /\ fp[b] \in Seq(Entries) /\ rx[b] \in Seq(Entries)
                        /\ tx[b] \in Seq(Entries) /\ relay[b] \in Seq(Entries)
                        /\ local[b] \in Seq(Entries)
      OBVIOUS
    <2>1. /\ fp[b] \in Seq(Command) /\ rx[b] \in Seq(Command) /\ tx[b] \in Seq(Command)
          /\ local[b] \in Seq(Command) /\ relay[b] \in Seq(Entries)
      BY DEF QueueTypes
    <2> QED  BY <2>1, EntrySeq
  <1> QED  BY <1>1, <1>2 DEF Queue

\* There are no other places.
LEMMA PlaceIs ==
    ASSUME NEW p \in Places
    PROVE  \E b \in Boards : \/ p = <<"fp", b>> \/ p = <<"rx", b>> \/ p = <<"tx", b>>
                             \/ p = <<"relay", b>> \/ p = <<"local", b>>
  BY DEF Places, Kinds

\* What an action does to a queue.
LEMMA PushAt ==
    ASSUME NEW x \in [Boards -> Seq(Command)], NEW b \in Boards, NEW f \in Command
    PROVE  /\ Push(x, b, f) \in [Boards -> Seq(Command)]
           /\ \A c \in Boards : Push(x, b, f)[c] = IF c = b THEN Append(x[c], f) ELSE x[c]
  <1>1. Append(x[b], f) \in Seq(Command)  BY AppendProperties
  <1> QED  BY <1>1 DEF Push

\* Taking the first command of a queue.
LEMMA PopAt ==
    ASSUME NEW x \in [Boards -> Seq(Command)], NEW b \in Boards, x[b] # <<>>
    PROVE  /\ Pop(x, b) \in [Boards -> Seq(Command)]
           /\ \A c \in Boards : Pop(x, b)[c] = IF c = b THEN Tail(x[c]) ELSE x[c]
           /\ Head(x[b]) = x[b][1] /\ x[b][1] \in Command
  <1>1. x[b] \in Seq(Command)  OBVIOUS
  <1>2. Tail(x[b]) \in Seq(Command) /\ Head(x[b]) = x[b][1] /\ Head(x[b]) \in Command
    BY <1>1, HeadTailProperties
  <1> QED  BY <1>2 DEF Pop

\* The same for a relay FIFO.
LEMMA PushEntryAt ==
    ASSUME NEW x \in [Boards -> Seq(Entries)], NEW b \in Boards, NEW f \in Entries
    PROVE  /\ Push(x, b, f) \in [Boards -> Seq(Entries)]
           /\ \A c \in Boards : Push(x, b, f)[c] = IF c = b THEN Append(x[c], f) ELSE x[c]
  <1>1. Append(x[b], f) \in Seq(Entries)  BY AppendProperties
  <1> QED  BY <1>1 DEF Push

\* Taking the first entry of a relay FIFO.
LEMMA PopEntryAt ==
    ASSUME NEW x \in [Boards -> Seq(Entries)], NEW b \in Boards, x[b] # <<>>
    PROVE  /\ Pop(x, b) \in [Boards -> Seq(Entries)]
           /\ \A c \in Boards : Pop(x, b)[c] = IF c = b THEN Tail(x[c]) ELSE x[c]
           /\ Head(x[b]) = x[b][1] /\ x[b][1] \in Entries
  <1>1. x[b] \in Seq(Entries)  OBVIOUS
  <1>2. Tail(x[b]) \in Seq(Entries) /\ Head(x[b]) = x[b][1] /\ Head(x[b]) \in Entries
    BY <1>1, HeadTailProperties
  <1> QED  BY <1>2 DEF Pop

\* The first command of a queue.
LEMMA HeadIs ==
    ASSUME NEW S, NEW x \in [Boards -> Seq(S)], NEW b \in Boards, x[b] # <<>>
    PROVE  Head(x[b]) = x[b][1] /\ Head(x[b]) \in S
  <1>1. x[b] \in Seq(S)  OBVIOUS
  <1> QED  BY <1>1, HeadTailProperties

-----------------------------------------------------------------------------
(* The actions as moves.                                                   *)

\* Where a frame the dispatcher of b has taken goes; taking it there is a move.
Routes(b, f) == (IF For(b, f) THEN {<<"local", b>>} ELSE {}) \cup (IF f.dest # b THEN {<<"tx",
      b>>} ELSE {})
LEMMA RouteShifts ==
    ASSUME QueueTypes, NEW b \in Boards, NEW o, NEW f, f \in Command, Routed(b, f), UNCHANGED relay,
           \/ o = <<"rx", b>> /\ rx[b] # <<>> /\ f = Head(rx[b]) /\ rx' = Pop(rx, b) /\ fp' = fp
           \/ o = <<"fp", b>> /\ fp[b] # <<>> /\ f = Head(fp[b]) /\ fp' = Pop(fp, b) /\ rx' = rx
    PROVE  Shift(Queue, Queue', o, Routes(b, f), f) /\ QueueTypes'
  <1>1. /\ fp \in [Boards -> Seq(Command)] /\ rx \in [Boards -> Seq(Command)]
        /\ tx \in [Boards -> Seq(Command)]
        /\ relay \in [Boards -> Seq(Entries)] /\ local \in [Boards -> Seq(Command)]
    BY DEF QueueTypes
  <1>2. /\ local' = IF For(b, f) THEN Push(local, b, f) ELSE local
        /\ tx' = IF f.dest # b THEN Push(tx, b, f) ELSE tx
    BY DEF Routed, For
  <1>3. /\ \A x \in {fp', rx', tx', local'} : x \in [Boards -> Seq(Command)]
        /\ relay' \in [Boards -> Seq(Entries)]
    <2>1. local' \in [Boards -> Seq(Command)] /\ tx' \in [Boards -> Seq(Command)]  BY <1>1, <1>2,
          PushAt
    <2>2. CASE rx[b] # <<>> /\ rx' = Pop(rx, b) /\ fp' = fp
      <3>1. rx' \in [Boards -> Seq(Command)]  BY <1>1, <2>2, PopAt
      <3> QED  BY <1>1, <2>1, <2>2, <3>1
    <2>3. CASE fp[b] # <<>> /\ fp' = Pop(fp, b) /\ rx' = rx
      <3>1. fp' \in [Boards -> Seq(Command)]  BY <1>1, <2>3, PopAt
      <3> QED  BY <1>1, <2>1, <2>3, <3>1
    <2> QED  BY <2>2, <2>3
  <1>4. o \in Places /\ Queue[o] # <<>> /\ Head(Queue[o]) = f  BY QueueIs
  <1>5. Routes(b, f) \subseteq Places /\ o \notin Routes(b, f)
    <2>1. \A p \in Routes(b, f) : p = <<"local", b>> \/ p = <<"tx", b>>  BY DEF Routes
    <2>2. o # <<"local", b>> /\ o # <<"tx", b>>  OBVIOUS
    <2> QED  BY <2>1, <2>2, QueueIs
  <1>6. ASSUME NEW c \in Boards
        PROVE  /\ local'[c] = IF c = b /\ For(b, f) THEN Append(local[c], f) ELSE local[c]
               /\ tx'[c] = IF c = b /\ f.dest # b THEN Append(tx[c], f) ELSE tx[c]
               /\ rx'[c] = IF o = <<"rx", c>> THEN Tail(rx[c]) ELSE rx[c]
               /\ fp'[c] = IF o = <<"fp", c>> THEN Tail(fp[c]) ELSE fp[c]
    <2>1. local'[c] = IF c = b /\ For(b, f) THEN Append(local[c], f) ELSE local[c]
      <3>1. CASE For(b, f)
        <4>1. local' = Push(local, b, f) /\ local \in [Boards -> Seq(Command)]  BY <1>1, <1>2, <3>1
        <4>2. Push(local, b, f)[c] = IF c = b THEN Append(local[c], f) ELSE local[c]  BY <4>1,
              PushAt
        <4> QED  BY <3>1, <4>1, <4>2
      <3>2. CASE ~(For(b, f))  BY <1>1, <1>2, <3>2
      <3> QED  BY <3>1, <3>2
    <2>2. tx'[c] = IF c = b /\ f.dest # b THEN Append(tx[c], f) ELSE tx[c]
      <3>1. CASE f.dest # b
        <4>1. tx' = Push(tx, b, f) /\ tx \in [Boards -> Seq(Command)]  BY <1>1, <1>2, <3>1
        <4>2. Push(tx, b, f)[c] = IF c = b THEN Append(tx[c], f) ELSE tx[c]  BY <4>1, PushAt
        <4> QED  BY <3>1, <4>1, <4>2
      <3>2. CASE ~(f.dest # b)  BY <1>1, <1>2, <3>2
      <3> QED  BY <3>1, <3>2
    <2>3. CASE o = <<"rx", b>> /\ rx[b] # <<>> /\ rx' = Pop(rx, b) /\ fp' = fp
      <3>1. rx'[c] = IF c = b THEN Tail(rx[c]) ELSE rx[c]  BY <1>1, <2>3, PopAt
      <3>2. (o = <<"rx", c>> <=> c = b) /\ o # <<"fp", c>>  BY <2>3
      <3> QED  BY <2>1, <2>2, <2>3, <3>1, <3>2
    <2>4. CASE o = <<"fp", b>> /\ fp[b] # <<>> /\ fp' = Pop(fp, b) /\ rx' = rx
      <3>1. fp'[c] = IF c = b THEN Tail(fp[c]) ELSE fp[c]  BY <1>1, <2>4, PopAt
      <3>2. (o = <<"fp", c>> <=> c = b) /\ o # <<"rx", c>>  BY <2>4
      <3> QED  BY <2>1, <2>2, <2>4, <3>1, <3>2
    <2> QED  BY <2>3, <2>4
  <1>7. ASSUME NEW p \in Places
        PROVE  Queue'[p] = IF p = o THEN Tail(Queue[p]) ELSE
                           IF p \in Routes(b, f) THEN Append(Queue[p], f) ELSE Queue[p]
    <2>1. PICK c \in Boards : \/ p = <<"fp", c>> \/ p = <<"rx", c>> \/ p = <<"tx", c>>
                              \/ p = <<"relay", c>> \/ p = <<"local", c>>
      BY PlaceIs
    <2>2. CASE p = <<"fp", c>>
      <3>1. p \notin Routes(b, f)  BY <2>2 DEF Routes
      <3> QED  BY <1>6, <2>2, <3>1, QueueIs, QueueWillBe
    <2>3. CASE p = <<"rx", c>>
      <3>1. p \notin Routes(b, f)  BY <2>3 DEF Routes
      <3> QED  BY <1>6, <2>3, <3>1, QueueIs, QueueWillBe
    <2>4. CASE p = <<"tx", c>>
      <3>1. p \in Routes(b, f) <=> c = b /\ f.dest # b  BY <2>4 DEF Routes
      <3>2. p # o  BY <2>4
      <3> QED  BY <1>6, <2>4, <3>1, <3>2, QueueIs, QueueWillBe
    <2>5. CASE p = <<"relay", c>>
      <3>1. p \notin Routes(b, f) /\ p # o  BY <2>5 DEF Routes
      <3> QED  BY <2>5, <3>1, QueueIs, QueueWillBe
    <2>6. CASE p = <<"local", c>>
      <3>1. p \in Routes(b, f) <=> c = b /\ For(b, f)  BY <2>6 DEF Routes
      <3>2. p # o  BY <2>6
      <3> QED  BY <1>6, <2>6, <3>1, <3>2, QueueIs, QueueWillBe
    <2> QED  BY <2>1, <2>2, <2>3, <2>4, <2>5, <2>6
  <1>8. Shift(Queue, Queue', o, Routes(b, f), f)  BY <1>4, <1>5, <1>7 DEF Shift, Entries
  <1> QED  BY <1>3, <1>8 DEF QueueTypes

\* Where a frame the receiver of board c has read goes; taking it there from a queue of
\* the transmitter before it is a move.
Delivers(c, f) == (IF ToLocal(c, f) /\ IsCommand(f) THEN {<<"rx", c>>} ELSE {}) \cup (IF ToRelay(c,
      f) THEN {<<"relay", c>>} ELSE {})
LEMMA TransmitShifts ==
    ASSUME QueueTypes, NEW b \in Boards, NEW o, NEW h, NEW f, f \in Reads(h), h \in Entries,
           Received(After(b), f), UNCHANGED <<fp, local>>,
           \/ /\ o = <<"relay", b>> /\ relay[b] # <<>> /\ h = Head(relay[b]) /\ tx' = tx
              /\ relay' = IF ToRelay(After(b), f) THEN Push(Pop(relay, b), After(b), f)
                    ELSE Pop(relay, b)
           \/ /\ o = <<"tx", b>> /\ tx[b] # <<>> /\ h = Head(tx[b]) /\ tx' = Pop(tx, b)
              /\ relay' = IF ToRelay(After(b), f) THEN Push(relay, After(b), f) ELSE relay
    PROVE  Shift(Queue, Queue', o, Delivers(After(b), f), f) /\ QueueTypes'
  <1>1. /\ fp \in [Boards -> Seq(Command)] /\ rx \in [Boards -> Seq(Command)]
        /\ tx \in [Boards -> Seq(Command)]
        /\ relay \in [Boards -> Seq(Entries)] /\ local \in [Boards -> Seq(Command)]
    BY DEF QueueTypes
  <1>2. PICK n \in Boards : n = After(b) /\ n # b  BY Afterwards, OneHop
  <1>20. f \in Entries /\ (IsCommand(f) => f = h /\ f \in Command)
    <2>1. f = h \/ f \in Strays  BY DEF Reads
    <2>2. f \in Entries  BY <2>1 DEF Entries
    <2> QED  BY <2>1, <2>2, EntryTyped
  <1>21. PICK loc \in BOOLEAN : loc <=> ToLocal(n, f) /\ IsCommand(f)  OBVIOUS
  <1>3. rx' = IF loc THEN Push(rx, n, f) ELSE rx  BY <1>2, <1>21 DEF Received
  <1>4. rx' \in [Boards -> Seq(Command)]  BY <1>1, <1>3, <1>20, <1>21, PushAt
  <1>0. \/ o = <<"relay", b>> /\ relay[b] # <<>> /\ tx' = tx
        \/ o = <<"tx", b>> /\ tx[b] # <<>> /\ tx' = Pop(tx, b)
    OBVIOUS
  <1>5. PICK x : x = IF o = <<"relay", b>> THEN Pop(relay, b) ELSE relay  OBVIOUS
  <1>50. /\ x \in [Boards -> Seq(Entries)]
         /\ \A c \in Boards : x[c] = IF o = <<"relay", c>> THEN Tail(relay[c]) ELSE relay[c]
    <2>1. CASE o = <<"relay", b>> /\ relay[b] # <<>>
      <3>1. \A c \in Boards : o = <<"relay", c>> <=> c = b  BY <2>1
      <3> QED  BY <1>1, <1>5, <2>1, <3>1, PopEntryAt
    <2>2. CASE o = <<"tx", b>>
      <3>1. \A c \in Boards : o # <<"relay", c>>  BY <2>2
      <3> QED  BY <1>1, <1>5, <2>2, <3>1
    <2> QED  BY <1>0, <2>1, <2>2
  <1>6. relay' = IF ToRelay(n, f) THEN Push(x, n, f) ELSE x  BY <1>2, <1>5
  <1>7. relay' \in [Boards -> Seq(Entries)]  BY <1>6, <1>20, <1>50, PushEntryAt
  <1>8. /\ tx' \in [Boards -> Seq(Command)]
        /\ \A c \in Boards : tx'[c] = IF o = <<"tx", c>> THEN Tail(tx[c]) ELSE tx[c]
    <2>1. CASE o = <<"tx", b>> /\ tx[b] # <<>> /\ tx' = Pop(tx, b)
      <3>1. \A c \in Boards : o = <<"tx", c>> <=> c = b  BY <2>1
      <3> QED  BY <1>1, <2>1, <3>1, PopAt
    <2>2. CASE o = <<"relay", b>> /\ tx' = tx
      <3>1. \A c \in Boards : o # <<"tx", c>>  BY <2>2
      <3> QED  BY <1>1, <2>2, <3>1
    <2> QED  BY <1>0, <2>1, <2>2
  <1>9. o \in Places /\ Queue[o] # <<>> /\ Head(Queue[o]) = h  BY QueueIs
  <1>10. Delivers(n, f) \subseteq Places /\ o \notin Delivers(n, f)
    <2>1. \A p \in Delivers(n, f) : p = <<"rx", n>> \/ p = <<"relay", n>>  BY DEF Delivers
    <2>2. o # <<"rx", n>> /\ o # <<"relay", n>>  BY <1>2
    <2> QED  BY <2>1, <2>2, QueueIs
  <1>11. ASSUME NEW c \in Boards
         PROVE  /\ rx'[c] = IF c = n /\ loc THEN Append(rx[c], f) ELSE rx[c]
                /\ tx'[c] = IF o = <<"tx", c>> THEN Tail(tx[c]) ELSE tx[c]
                /\ relay'[c] = IF o = <<"relay", c>> THEN Tail(relay[c]) ELSE
                               IF c = n /\ ToRelay(n, f) THEN Append(relay[c], f) ELSE relay[c]
    <2>1. x[c] = IF o = <<"relay", c>> THEN Tail(relay[c]) ELSE relay[c]  BY <1>50
    <2>2. relay'[c] = IF c = n /\ ToRelay(n, f) THEN Append(x[c], f) ELSE x[c]
      BY <1>6, <1>20, <1>50, PushEntryAt
    <2>3. o = <<"relay", c>> => c # n  BY <1>2
    <2>4. rx'[c] = IF c = n /\ loc THEN Append(rx[c], f) ELSE rx[c]
      <3>1. CASE loc
        <4>1. rx' = Push(rx, n, f) /\ rx \in [Boards -> Seq(Command)]  BY <1>1, <1>3, <3>1
        <4>2. Push(rx, n, f)[c] = IF c = n THEN Append(rx[c], f) ELSE rx[c]
          BY <1>20, <1>21, <3>1, <4>1, PushAt
        <4> QED  BY <3>1, <4>1, <4>2
      <3>2. CASE ~loc  BY <1>1, <1>3, <3>2
      <3> QED  BY <3>1, <3>2
    <2>5. tx'[c] = IF o = <<"tx", c>> THEN Tail(tx[c]) ELSE tx[c]  BY <1>8
    <2> QED  BY <2>1, <2>2, <2>3, <2>4, <2>5
  <1>12. ASSUME NEW p \in Places
         PROVE  Queue'[p] = IF p = o THEN Tail(Queue[p]) ELSE
                            IF p \in Delivers(n, f) THEN Append(Queue[p], f) ELSE Queue[p]
    <2>1. PICK c \in Boards : \/ p = <<"fp", c>> \/ p = <<"rx", c>> \/ p = <<"tx", c>>
                              \/ p = <<"relay", c>> \/ p = <<"local", c>>
      BY PlaceIs
    <2>2. CASE p = <<"fp", c>>
      <3>1. p \notin Delivers(n, f) /\ p # o  BY <2>2 DEF Delivers
      <3> QED  BY <2>2, <3>1, QueueIs, QueueWillBe
    <2>3. CASE p = <<"rx", c>>
      <3>1. p \in Delivers(n, f) <=> c = n /\ loc  BY <1>21, <2>3 DEF Delivers
      <3>2. p # o  BY <2>3
      <3> QED  BY <1>11, <2>3, <3>1, <3>2, QueueIs, QueueWillBe
    <2>4. CASE p = <<"tx", c>>
      <3>1. p \notin Delivers(n, f)  BY <2>4 DEF Delivers
      <3> QED  BY <1>11, <2>4, <3>1, QueueIs, QueueWillBe
    <2>5. CASE p = <<"relay", c>>
      <3>1. p \in Delivers(n, f) <=> c = n /\ ToRelay(n, f)  BY <2>5 DEF Delivers
      <3> QED  BY <1>11, <2>5, <3>1, QueueIs, QueueWillBe
    <2>6. CASE p = <<"local", c>>
      <3>1. p \notin Delivers(n, f) /\ p # o  BY <2>6 DEF Delivers
      <3> QED  BY <2>6, <3>1, QueueIs, QueueWillBe
    <2> QED  BY <2>1, <2>2, <2>3, <2>4, <2>5, <2>6
  <1>13. Shift(Queue, Queue', o, Delivers(n, f), f)  BY <1>9, <1>10, <1>12, <1>20 DEF Shift
  <1>14. QueueTypes'  BY <1>1, <1>4, <1>7, <1>8 DEF QueueTypes
  <1> QED  BY <1>2, <1>13, <1>14

-----------------------------------------------------------------------------
(* Each move brings a command one step further.                            *)

\* What the dispatcher passes on has come one position further and is still on its way.
LEMMA RouteFits ==
    ASSUME NEW b \in Boards, NEW o, o \in {<<"rx", b>>, <<"fp", b>>}, NEW f \in Command,
          Belongs(o, f),
           NEW p \in Routes(b, f)
    PROVE  Belongs(p, f) /\ (f.dest # All => Pos(p, f) = Pos(o, f) + 1)
  <1>1. f.src \in Boards /\ Hops(f.src, b) \in Nat  BY RingAssumption, OneHop DEF Command
  <1>2. CASE p = <<"local", b>> /\ For(b, f)
    <2>1. Belongs(p, f)  BY <1>2 DEF Belongs, For
    <2>2. Pos(p, f) = IF f.src = b THEN 1 ELSE 2 + Hops(f.src, b)  BY <1>2 DEF Pos
    <2>3. CASE o = <<"rx", b>>
      <3>1. Pos(o, f) = 1 + Hops(f.src, b) /\ (f.dest # All => f.src # b)  BY <2>3 DEF Pos, Belongs
      <3> QED  BY <1>1, <2>1, <2>2, <3>1
    <2>4. CASE o = <<"fp", b>>
      <3>1. Pos(o, f) = 0 /\ f.src = b  BY <2>4 DEF Pos, Belongs
      <3> QED  BY <1>1, <2>1, <2>2, <3>1
    <2> QED  BY <2>3, <2>4
  <1>3. CASE p = <<"tx", b>> /\ f.dest # b
    <2>1. Pos(p, f) = 1  BY <1>3 DEF Pos
    <2>2. CASE o = <<"rx", b>>
      <3>1. f.dest = All  BY <1>3, <2>2 DEF Belongs
      <3> QED  BY <1>3, <3>1 DEF Belongs
    <2>3. CASE o = <<"fp", b>>
      <3>1. Pos(o, f) = 0 /\ f.src = b  BY <2>3 DEF Pos, Belongs
      <3> QED  BY <1>3, <2>1, <3>1 DEF Belongs
    <2> QED  BY <2>2, <2>3
  <1> QED  BY <1>2, <1>3 DEF Routes

\* So has what the receiver of the data channel passes on: to the local queue at the
\* board it is for, to the relay FIFO before.
LEMMA DeliveryFits ==
    ASSUME NEW b \in Boards, NEW o, o \in {<<"relay", b>>, <<"tx", b>>}, NEW f \in Command,
          Belongs(o, f),
           NEW p \in Delivers(After(b), f)
    PROVE  Belongs(p, f) /\ (f.dest # All => Pos(p, f) = Pos(o, f) + 1)
  <1>1. PICK s \in Boards : s = f.src  BY RingAssumption DEF Command
  <1>2. PICK n \in Boards : n = After(b)  BY Afterwards
  <1>3. PICK d \in Nat : d = f.dest
    <2>1. f.dest \in Nat  BY RingAssumption DEF Command
    <2> QED  BY <2>1
  <1>4. /\ Hops(s, b) \in 0..(N - 1) /\ (Hops(s, b) = 0 <=> s = b)
        /\ Hops(s, n) = IF n = s THEN 0 ELSE Hops(s, b) + 1
        /\ n = s => Hops(s, b) = N - 1
        /\ n # b /\ N \in Nat
    BY <1>2, OneHop, RingAssumption
  <1>5. CASE d = All
    <2>1. Belongs(p, f)
      <3>1. p = <<"rx", n>> \/ p = <<"relay", n>>  BY <1>2 DEF Delivers
      <3> QED  BY <1>3, <1>5, <3>1 DEF Belongs
    <2> QED  BY <1>3, <1>5, <2>1
  <1>6. CASE d # All
    <2>1. /\ Hops(s, b) = 0 => o = <<"tx", b>>
          /\ o = <<"tx", b>> => s = b /\ d # b
          /\ o = <<"relay", b>> => d \in Boards /\ Hops(s, b) # 0 /\ Hops(s, b) < Hops(s, d)
      BY <1>1, <1>3, <1>4, <1>6 DEF Belongs
    <2>2. Pos(o, f) = 1 + Hops(s, b)
      <3>1. CASE o = <<"tx", b>>  BY <1>4, <2>1, <3>1 DEF Pos
      <3>2. CASE o = <<"relay", b>>  BY <1>1, <3>2 DEF Pos
      <3> QED  BY <3>1, <3>2
    <2>3. d \in Boards => Hops(s, d) \in 0..(N - 1) /\ (Hops(s, d) = Hops(s, n) => d = n)
          /\ (Hops(s, d) = 0 <=> s = d)
      BY <1>2, OneHop, SameHops
    <2>4. d \in Boards => n # s
      <3>1. o = <<"tx", b>> => n # s  BY <1>4, <2>1
      <3>2. o = <<"relay", b>> => n # s  BY <1>4, <2>1, <2>3
      <3> QED  BY <3>1, <3>2
    <2>5. CASE p = <<"rx", n>> /\ ToLocal(n, f)
      <3>1. d = n  BY <1>3, <1>6, <2>5 DEF ToLocal
      <3>2. Belongs(p, f)  BY <1>1, <1>3, <2>4, <2>5, <3>1 DEF Belongs
      <3>3. Pos(p, f) = 1 + Hops(s, n)  BY <1>1, <2>5 DEF Pos
      <3> QED  BY <1>4, <2>2, <2>4, <3>1, <3>2, <3>3
    <2>6. CASE p = <<"relay", n>> /\ ToRelay(n, f)
      <3>1. d # n /\ d \in Boards
        <4>1. d # n /\ d < N  BY <1>3, <1>6, <2>6 DEF ToRelay, GateOk
        <4> QED  BY <1>3, <1>4, <4>1 DEF Boards
      <3>2. Hops(s, n) = Hops(s, b) + 1  BY <1>4, <2>4, <3>1
      <3>3. Hops(s, b) < Hops(s, d)  BY <1>4, <2>1, <2>3, <3>1
      <3>4. Hops(s, n) < Hops(s, d) /\ Hops(s, n) # 0  BY <1>4, <2>3, <3>1, <3>2, <3>3
      <3>5. Belongs(p, f)  BY <1>1, <1>3, <2>6, <3>1, <3>4 DEF Belongs
      <3>6. Pos(p, f) = 1 + Hops(s, n)  BY <1>1, <2>6 DEF Pos
      <3> QED  BY <1>4, <2>2, <3>2, <3>5, <3>6
    <2> QED  BY <1>2, <2>5, <2>6 DEF Delivers
  <1> QED  BY <1>5, <1>6

-----------------------------------------------------------------------------
(* Action by action.                                                       *)

\* The invariant without the types of the histories.
Sane == QueueTypes /\ (~unpaced => Sound(Queue, last, sent))

\* dispatcher.v keeps the invariant.
LEMMA DispatchSane ==
    ASSUME Sane, NEW b \in Boards, Dispatch(b)
    PROVE  Sane'
  <1>1. UNCHANGED <<last, sent, relay, unpaced>>
    BY DEF Dispatch, DispatchRx, DispatchFp, carried
  <1>2. QueueTypes /\ Queue \in [Places -> Seq(Entries)]
        BY QueueTyped DEF Sane
  <1>3. rx \in [Boards -> Seq(Command)] /\ fp \in [Boards -> Seq(Command)]  BY <1>2 DEF QueueTypes
  <1>4. PICK o, f : /\ Routed(b, f)
                    /\ \/ o = <<"rx", b>> /\ rx[b] # <<>> /\ f = Head(rx[b]) /\ rx' = Pop(rx,
                          b) /\ fp' = fp
                       \/ o = <<"fp", b>> /\ fp[b] # <<>> /\ f = Head(fp[b]) /\ fp' = Pop(fp,
                             b) /\ rx' = rx
    <2>1. CASE DispatchRx(b)  BY <2>1 DEF DispatchRx
    <2>2. CASE DispatchFp(b)  BY <2>2 DEF DispatchFp
    <2> QED  BY <2>1, <2>2 DEF Dispatch
  <1>5. f \in Command /\ f = Queue[o][1] /\ o \in Places /\ o \in {<<"rx", b>>, <<"fp", b>>}
    <2>1. CASE o = <<"rx", b>> /\ rx[b] # <<>> /\ f = Head(rx[b])
      <3>1. f = rx[b][1] /\ f \in Command  BY <1>3, <2>1, HeadIs
      <3> QED  BY <2>1, <3>1, QueueIs
    <2>2. CASE o = <<"fp", b>> /\ fp[b] # <<>> /\ f = Head(fp[b])
      <3>1. f = fp[b][1] /\ f \in Command  BY <1>3, <2>2, HeadIs
      <3> QED  BY <2>2, <3>1, QueueIs
    <2> QED  BY <1>4, <2>1, <2>2
  <1>6. Shift(Queue, Queue', o, Routes(b, f), f) /\ QueueTypes'
    BY <1>1, <1>2, <1>4, <1>5, RouteShifts
  <1>7. ASSUME ~unpaced PROVE Sound(Queue', last, sent)
    <2>1. Sound(Queue, last, sent)  BY <1>7 DEF Sane
    <2>2. Belongs(o, f)
      <3>1. 1 \in 1..Len(Queue[o])  BY <1>2, <1>6, Mover
      <3>2. IsCommand(f)  BY <1>5, CommandTyped
      <3> QED  BY <1>5, <2>1, <3>1, <3>2 DEF Sound, OnTheWay
    <2>3. \A p \in Routes(b, f) : Belongs(p, f)  BY <1>5, <2>2, RouteFits
    <2>4. f.dest # All => \A p \in Routes(b, f) : Pos(p, f) = Pos(o, f) + 1
      BY <1>5, <2>2, RouteFits
    <2> QED  BY <1>2, <1>6, <2>1, <2>3, <2>4, SoundKept
  <1> QED  BY <1>1, <1>6, <1>7 DEF Sane

\* So do both turns of the transmitter.
LEMMA TransmitSane ==
    ASSUME Sane, NEW b \in Boards, TransmitRelay(b) \/ TransmitLocal(b)
    PROVE  Sane'
  <1>1. UNCHANGED <<last, sent, fp, local, unpaced>>
    BY DEF TransmitRelay, TransmitLocal, carried
  <1>2. QueueTypes /\ Queue \in [Places -> Seq(Entries)]
        BY QueueTyped DEF Sane
  <1>3. tx \in [Boards -> Seq(Command)] /\ relay \in [Boards -> Seq(Entries)]
        BY <1>2 DEF QueueTypes
  <1>4. PICK o, h, f : /\ Received(After(b), f) /\ f \in Reads(h)
                    /\ \/ /\ o = <<"relay", b>> /\ relay[b] # <<>> /\ h = Head(relay[b]) /\ tx' = tx
                          /\ relay' = IF ToRelay(After(b), f) THEN Push(Pop(relay, b), After(b),
                                f) ELSE Pop(relay, b)
                       \/ /\ o = <<"tx", b>> /\ tx[b] # <<>> /\ h = Head(tx[b]) /\ tx' = Pop(tx, b)
                          /\ relay' = IF ToRelay(After(b), f) THEN Push(relay, After(b), f)
                                ELSE relay
    <2>1. CASE TransmitRelay(b)  BY <2>1 DEF TransmitRelay
    <2>2. CASE TransmitLocal(b)  BY <2>2 DEF TransmitLocal
    <2> QED  BY <2>1, <2>2
  <1>5. h \in Entries /\ o \in Places /\ o \in {<<"relay", b>>, <<"tx", b>>}
    <2>1. CASE o = <<"relay", b>> /\ relay[b] # <<>> /\ h = Head(relay[b])
      <3>1. h \in Entries  BY <1>3, <2>1, HeadIs
      <3> QED  BY <2>1, <3>1, QueueIs
    <2>2. CASE o = <<"tx", b>> /\ tx[b] # <<>> /\ h = Head(tx[b])
      <3>1. h \in Command  BY <1>3, <2>2, HeadIs
      <3> QED  BY <2>2, <3>1, QueueIs DEF Entries
    <2> QED  BY <1>4, <2>1, <2>2
  <1>6. Shift(Queue, Queue', o, Delivers(After(b), f), f) /\ QueueTypes'
    BY <1>1, <1>2, <1>4, <1>5, TransmitShifts
  <1>7. ASSUME ~unpaced PROVE Sound(Queue', last, sent)
    <2>1. Sound(Queue, last, sent)  BY <1>7 DEF Sane
    <2>2. IsCommand(f) => f \in Command /\ Belongs(o, f)
      <3>1. 1 \in 1..Len(Queue[o]) /\ f \in Entries /\ (IsCommand(f) => f = Queue[o][1])
        BY <1>2, <1>6, Mover
      <3> QED  BY <1>5, <2>1, <3>1, EntryTyped DEF Sound, OnTheWay
    <2>3. IsCommand(f) => \A p \in Delivers(After(b), f) : Belongs(p, f)
      BY <1>5, <2>2, DeliveryFits
    <2>4. IsCommand(f) /\ f.dest # All =>
            \A p \in Delivers(After(b), f) : Pos(p, f) = Pos(o, f) + 1
      BY <1>5, <2>2, DeliveryFits
    <2> QED  BY <1>2, <1>6, <2>1, <2>3, <2>4, SoundKept
  <1> QED  BY <1>1, <1>6, <1>7 DEF Sane

\* local_reg_handler.v carries a command out: the other ones for this board came after it.
LEMMA ApplySane ==
    ASSUME Sane, last \in [Boards -> [Hosts -> Numbers]], applied \in [Boards -> SUBSET Command],
           NEW b \in Boards, Apply(b)
    PROVE  /\ Sane' /\ last' \in [Boards -> [Hosts -> Numbers]]
           /\ applied' \in [Boards -> SUBSET Command]
           /\ ~unpaced => \A c \in Boards, h \in Hosts : last'[c][h] >= last[c][h]
  <1>1. QueueTypes /\ Queue \in [Places -> Seq(Entries)]
        BY QueueTyped DEF Sane
  <1>2. /\ fp \in [Boards -> Seq(Command)] /\ rx \in [Boards -> Seq(Command)]
        /\ tx \in [Boards -> Seq(Command)]
        /\ relay \in [Boards -> Seq(Entries)] /\ local \in [Boards -> Seq(Command)]
    BY <1>1 DEF QueueTypes
  <1>3. PICK f : f = Head(local[b])  OBVIOUS
  <1>4. PICK o : o = <<"local", b>>  OBVIOUS
  <1>5. /\ local[b] # <<>> /\ local' = Pop(local, b)
        /\ UNCHANGED <<fp, rx, tx, relay, sent, unpaced>>
        /\ applied' = [applied EXCEPT ![b] = @ \cup {f}]
        /\ last' = [last EXCEPT ![b][f.src] = f.no]
    BY <1>3 DEF Apply
  <1>6. f = local[b][1] /\ f \in Command  BY <1>2, <1>3, <1>5, HeadIs
  <1>7. o \in Places /\ Queue[o] = local[b]  BY <1>4, QueueIs
  <1>8. local' \in [Boards -> Seq(Command)] /\ \A c \in Boards : local'[c]
        = IF c = b THEN Tail(local[c]) ELSE local[c]
    BY <1>2, <1>5, PopAt
  <1>9. QueueTypes'  BY <1>2, <1>5, <1>8 DEF QueueTypes
  <1>10. ASSUME NEW p \in Places
         PROVE  Queue'[p] = IF p = o THEN Tail(Queue[p]) ELSE Queue[p]
    <2>1. PICK c \in Boards : \/ p = <<"fp", c>> \/ p = <<"rx", c>> \/ p = <<"tx", c>>
                              \/ p = <<"relay", c>> \/ p = <<"local", c>>
      BY PlaceIs
    <2>2. CASE p = <<"local", c>>  BY <1>4, <1>8, <2>2, QueueIs, QueueWillBe
    <2>3. CASE p = <<"fp", c>> \/ p = <<"rx", c>> \/ p = <<"tx", c>> \/ p = <<"relay", c>>
      <3>1. p # o  BY <1>4, <2>3
      <3> QED  BY <1>5, <2>3, <3>1, QueueIs, QueueWillBe
    <2> QED  BY <2>1, <2>2, <2>3
  <1>11. Shift(Queue, Queue', o, {}, f)
    BY <1>3, <1>5, <1>6, <1>7, <1>10 DEF Shift, Entries
  <1>12. f = Queue[o][1]  BY <1>6, <1>7
  <1>14. f.src \in Hosts /\ f.no \in Numbers /\ f.no \in Nat /\ f.dest \in Nat /\ All \in Nat
         /\ IsCommand(f)
    BY <1>6, CommandTyped
  <1>20. last' \in [Boards -> [Hosts -> Numbers]]  BY <1>5, <1>14
  <1>21. applied' \in [Boards -> SUBSET Command]  BY <1>5, <1>6
  <1> SUFFICES ASSUME ~unpaced
               PROVE  /\ Sound(Queue', last', sent)
                      /\ \A c \in Boards, h \in Hosts : last'[c][h] >= last[c][h]
    BY <1>5, <1>9, <1>20, <1>21 DEF Sane
  <1>29. Sound(Queue, last, sent)  BY DEF Sane
  <1>13. Sound(Queue', last, sent)  BY <1>1, <1>11, <1>29, SoundKept
  <1>15. 1 \in 1..Len(Queue[o])  BY <1>1, <1>11, Mover
  <1>16. Belongs(o, f)  BY <1>7, <1>12, <1>14, <1>15, <1>29 DEF Sound, OnTheWay
  <1>17. For(b, f)  BY <1>4, <1>16 DEF Belongs, For
  <1>18. last[b][f.src] <= f.no  BY <1>7, <1>12, <1>14, <1>15, <1>17, <1>29 DEF Sound, Later
  <1>19. \A c \in Boards, h \in Hosts : last'[c][h] = IF c = b /\ h = f.src THEN f.no
        ELSE last[c][h]
    BY <1>5, <1>14
  <1>22. \A c \in Boards, h \in Hosts : last[c][h] \in Nat  BY NumbersAreNat
  <1>23. \A c \in Boards, h \in Hosts : last'[c][h] >= last[c][h]  BY <1>14, <1>18, <1>19, <1>22
  <1>24. Later(Queue', last')
    <2> SUFFICES ASSUME NEW p \in Places, NEW i \in 1..Len(Queue'[p]), NEW c \in Boards,
                        IsCommand(Queue'[p][i]), For(c, Queue'[p][i])
                 PROVE  last'[c][Queue'[p][i].src] <= Queue'[p][i].no
      BY DEF Later
    <2>1. PICK g : g = Queue'[p][i]  OBVIOUS
    <2>2. Was(o, p, i) \in 1..Len(Queue[p]) /\ g = Queue[p][Was(o, p, i)]  BY <1>1, <1>11, <2>1,
          Moved
    <2>3. PICK k \in 1..Len(Queue[p]) : k = Was(o, p, i) /\ g = Queue[p][k]  BY <2>2
    <2>4. g \in Command /\ IsCommand(g)
      <3>1. Queue[p] \in Seq(Entries)  BY <1>1
      <3>2. g \in Entries  BY <2>3, <3>1, ElementOfSeq
      <3> QED  BY <2>1, <3>2, EntryTyped
    <2>5. g.src \in Hosts  BY <2>4 DEF Command
    <2>6. CASE c = b /\ g.src = f.src
      <3>1. CASE f.dest = All \/ g.dest = All
        <4>1. f = g  BY <1>7, <1>12, <1>14, <1>15, <1>29, <2>3, <2>4, <2>6, <3>1 DEF Sound, Alone
        <4> QED  BY <1>14, <1>19, <2>1, <2>6, <4>1
      <3>2. CASE f.dest # All /\ g.dest # All
        <4>1. Same(f, g)  BY <1>14, <1>17, <2>1, <2>4, <2>6, <3>2 DEF Same, For
        <4>2. Belongs(p, g)  BY <1>29, <2>3, <2>4 DEF Sound, OnTheWay
        <4>3. Pos(o, f) \in Nat /\ Pos(p, g) \in Nat /\ (Pos(o, f) = Pos(p, g) => o = p)
              /\ Pos(p, g) <= Pos(o, f)
          BY <1>4, <1>6, <1>7, <1>16, <2>4, <4>1, <4>2, Positions
        <4>4. Pos(o, f) > Pos(p, g) \/ o = p  BY <4>3
        <4>5. o = p => 1 < k  BY <2>3 DEF Was
        <4>6. f.no <= g.no  BY <1>7, <1>12, <1>15, <1>29, <2>3, <4>1, <4>4, <4>5 DEF Sound, Ordered
        <4> QED  BY <1>14, <1>19, <2>1, <2>6, <4>6
      <3> QED  BY <3>1, <3>2
    <2>7. CASE ~(c = b /\ g.src = f.src)
      <3>1. last[c][g.src] <= g.no  BY <1>29, <2>1, <2>3, <2>4 DEF Sound, Later
      <3> QED  BY <1>19, <2>1, <2>5, <2>7, <3>1
    <2> QED  BY <2>6, <2>7
  <1>25. Counted(Queue', last', sent)
    <2>1. Counted(Queue', last, sent)  BY <1>13 DEF Sound
    <2>2. f.no <= Cardinality(Mine(f.src, sent))
      BY <1>7, <1>12, <1>14, <1>15, <1>29 DEF Sound, Counted
    <2> QED  BY <1>19, <2>1, <2>2 DEF Counted
  <1>26. Sound(Queue', last', sent)  BY <1>13, <1>24, <1>25 DEF Sound
  <1> QED  BY <1>23, <1>26

\* send_pkt: a new command has the highest number of its host so far.
LEMMA SendSane ==
    ASSUME Sane, last \in [Boards -> [Hosts -> Numbers]], sent \subseteq Command,
          IsFiniteSet(sent), NEW h \in Hosts, Send(h)
    PROVE  Sane' /\ sent' \subseteq Command /\ IsFiniteSet(sent')
  <1>1. QueueTypes /\ Queue \in [Places -> Seq(Entries)]
        BY QueueTyped DEF Sane
  <1>2. /\ fp \in [Boards -> Seq(Command)] /\ rx \in [Boards -> Seq(Command)]
        /\ tx \in [Boards -> Seq(Command)]
        /\ relay \in [Boards -> Seq(Entries)] /\ local \in [Boards -> Seq(Command)]
    BY <1>1 DEF QueueTypes
  <1>3. PICK d \in Dests : MaySend(h, d) /\ Written(h, d)  BY DEF Send
  <1>4. PICK n : n = Cardinality(Mine(h, sent))  OBVIOUS
  <1>5. PICK c : c = [src |-> h, dest |-> d, no |-> n + 1]  OBVIOUS
  <1>6. /\ n < Budget[h] /\ fp' = Push(fp, h, c) /\ sent' = sent \cup {c}
        /\ unpaced' = (unpaced \/ Held)
        /\ UNCHANGED <<rx, tx, relay, local, applied, last>>
    BY <1>3, <1>4, <1>5 DEF Written, Mine, carried
  <1>8. IsFiniteSet(Mine(h, sent)) /\ n \in Nat
    <2>1. Mine(h, sent) \subseteq sent  BY DEF Mine
    <2> QED  BY <1>4, <2>1, FS_Subset, FS_CardinalityType
  <1>9. c \in Command
    <2>1. Budget[h] \in Nat /\ n + 1 \in 0..Budget[h] /\ n + 1 # 0  BY <1>6, <1>8, RingAssumption
    <2>3. 0..Budget[h] \subseteq Numbers  BY DEF Numbers
    <2>2. n + 1 \in Numbers \ {0}  BY <2>1, <2>3
    <2> QED  BY <1>5, <2>2 DEF Command
  <1>10. c.src = h /\ c.dest = d /\ c.no = n + 1  BY <1>5
  <1>13. IsFiniteSet(sent') /\ sent' \subseteq Command  BY <1>6, <1>9, FS_AddElement
  <1>14. PICK o : o = <<"fp", h>>  OBVIOUS
  <1>15. h \in Boards  BY RingAssumption
  <1>16. o \in Places /\ Queue[o] = fp[h]  BY <1>14, <1>15, QueueIs
  <1>17. fp' \in [Boards -> Seq(Command)] /\ \A x \in Boards : fp'[x]
        = IF x = h THEN Append(fp[x], c) ELSE fp[x]
    <2>1. /\ Push(fp, h, c) \in [Boards -> Seq(Command)]
          /\ \A x \in Boards : Push(fp, h, c)[x] = IF x = h THEN Append(fp[x], c) ELSE fp[x]
      BY <1>2, <1>9, <1>15, PushAt
    <2> QED  BY <1>6, <2>1
  <1>18. QueueTypes'  BY <1>2, <1>6, <1>17 DEF QueueTypes
  <1> SUFFICES ASSUME ~unpaced, ~Held PROVE Sound(Queue', last, sent')
    BY <1>6, <1>13, <1>18 DEF Sane
  <1>29. Sound(Queue, last, sent)  BY DEF Sane
  <1>7. \A x \in sent : x.no <= Cardinality(Mine(x.src, sent))  BY <1>29 DEF Sound, Counted
  <1>11. c \notin sent  BY <1>4, <1>7, <1>8, <1>10
  <1>12. \A x \in Hosts : Cardinality(Mine(x, sent')) = IF x = h THEN n + 1
        ELSE Cardinality(Mine(x, sent))
    <2>1. Mine(h, sent') = Mine(h, sent) \cup {c}  BY <1>6, <1>10 DEF Mine
    <2>2. c \notin Mine(h, sent)  BY <1>11 DEF Mine
    <2>3. Cardinality(Mine(h, sent')) = n + 1  BY <1>4, <1>8, <2>1, <2>2, FS_AddElement
    <2>4. \A x \in Hosts : x # h => Mine(x, sent') = Mine(x, sent)  BY <1>6, <1>10 DEF Mine
    <2> QED  BY <2>3, <2>4
  <1>19. ASSUME NEW p \in Places
         PROVE  Queue'[p] = IF p = o THEN Append(Queue[p], c) ELSE Queue[p]
    <2>1. PICK x \in Boards : \/ p = <<"fp", x>> \/ p = <<"rx", x>> \/ p = <<"tx", x>>
                              \/ p = <<"relay", x>> \/ p = <<"local", x>>
      BY PlaceIs
    <2>2. CASE p = <<"fp", x>>
      <3>1. p = o <=> x = h  BY <1>14, <2>2
      <3> QED  BY <1>17, <2>2, <3>1, QueueIs, QueueWillBe
    <2>3. CASE p = <<"rx", x>> \/ p = <<"tx", x>> \/ p = <<"relay", x>> \/ p = <<"local", x>>
      <3>1. p # o  BY <1>14, <2>3
      <3>2. rx' = rx /\ tx' = tx /\ relay' = relay /\ local' = local  BY <1>6
      <3>3. CASE p = <<"rx", x>>  BY <3>2, <3>3, QueueIs, QueueWillBe, <3>1
      <3>4. CASE p = <<"tx", x>>  BY <3>2, <3>4, QueueIs, QueueWillBe, <3>1
      <3>5. CASE p = <<"relay", x>>  BY <3>2, <3>5, QueueIs, QueueWillBe, <3>1
      <3>6. CASE p = <<"local", x>>  BY <3>2, <3>6, QueueIs, QueueWillBe, <3>1
      <3> QED  BY <2>3, <3>3, <3>4, <3>5, <3>6
    <2> QED  BY <2>1, <2>2, <2>3
  <1>20. Sound(Queue', last, sent')
    <2>1. ASSUME NEW p \in Places, NEW i \in 1..Len(Queue'[p])
          PROVE  \/ (i \in 1..Len(Queue[p]) /\ Queue'[p][i] = Queue[p][i])
                 \/ (p = o /\ i = Len(Queue[p]) + 1 /\ Queue'[p][i] = c)
      <3>1. Queue[p] \in Seq(Entries) /\ Len(Queue[p]) \in Nat /\ c \in Entries
        BY <1>1, <1>9 DEF Entries
      <3>2. CASE p = o
        <4>1. Queue'[p] = Append(Queue[p], c)  BY <1>19, <3>2
        <4>2. /\ Len(Queue'[p]) = Len(Queue[p]) + 1
              /\ \A k \in 1..Len(Queue[p]) : Queue'[p][k] = Queue[p][k]
              /\ Queue'[p][Len(Queue[p]) + 1] = c
          BY <3>1, <4>1, AppendProperties
        <4>3. i \in 1..Len(Queue[p]) \/ i = Len(Queue[p]) + 1  BY <3>1, <4>2
        <4> QED  BY <3>2, <4>2, <4>3
      <3>3. CASE p # o  BY <1>19, <3>3
      <3> QED  BY <3>2, <3>3
    <2>2. ASSUME NEW p \in Places, NEW i \in 1..Len(Queue[p]), IsCommand(Queue[p][i])
          PROVE  /\ Queue[p][i] \in Command /\ Queue[p][i] \in Everywhere
                 /\ Belongs(p, Queue[p][i]) /\ Pos(p, Queue[p][i]) \in Nat
                 /\ Queue[p][i].src \in Hosts /\ Queue[p][i].no \in Nat
                 /\ Queue[p][i].no <= Cardinality(Mine(Queue[p][i].src, sent))
      <3>1. Queue[p] \in Seq(Entries)  BY <1>1
      <3>2. Queue[p][i] \in Command
        <4>1. Queue[p][i] \in Entries  BY <3>1, ElementOfSeq
        <4> QED  BY <2>2, <4>1, EntryTyped
      <3>3. Queue[p][i] \in ToSet(Queue[p])
        <4>1. i \in DOMAIN Queue[p]  BY <3>1
        <4> QED  BY <4>1 DEF ToSet
      <3>4. \E q \in {fp, rx, tx, relay, local} : \E b \in Boards : Queue[p] = q[b]
        <4>1. PICK x \in Boards : \/ p = <<"fp", x>> \/ p = <<"rx", x>> \/ p = <<"tx", x>>
                                  \/ p = <<"relay", x>> \/ p = <<"local", x>>
          BY PlaceIs
        <4> QED  BY <4>1, QueueIs
      <3>5. Queue[p][i] \in Everywhere  BY <2>2, <3>3, <3>4 DEF Everywhere
      <3>6. Queue[p][i].src \in Boards /\ Queue[p][i].src \in Hosts /\ Queue[p][i].no \in Nat
        BY <3>2, CommandTyped
      <3>7. p[2] \in Boards  BY DEF Places
      <3>8. Pos(p, Queue[p][i]) \in Nat
        <4>1. Hops(Queue[p][i].src, p[2]) \in Nat  BY <3>6, <3>7, OneHop
        <4> QED  BY <4>1 DEF Pos
      <3>9. Belongs(p, Queue[p][i]) /\ Queue[p][i].no <= Cardinality(Mine(Queue[p][i].src, sent))
        BY <1>29, <2>2 DEF Sound, OnTheWay, Counted
      <3> QED  BY <3>2, <3>5, <3>6, <3>8, <3>9
    <2>3. OnTheWay(Queue')
      <3>1. Belongs(o, c)  BY <1>10, <1>14 DEF Belongs
      <3> QED  BY <2>1, <2>2, <3>1 DEF OnTheWay
    <2>4. Ordered(Queue')
      <3> SUFFICES ASSUME NEW p \in Places, NEW r \in Places, NEW i \in 1..Len(Queue'[p]),
            NEW j \in 1..Len(Queue'[r]),
                          NEW a, a = Queue'[p][i], NEW b, b = Queue'[r][j], Same(a, b),
                          Pos(p, a) > Pos(r, b) \/ (p = r /\ i < j)
                   PROVE  a.no <= b.no
        BY DEF Ordered
      <3>1. CASE i \in 1..Len(Queue[p]) /\ a = Queue[p][i] /\ j \in 1..Len(Queue[r])
            /\ b = Queue[r][j]
        BY <1>29, <3>1 DEF Sound, Ordered
      <3>2. CASE p = o /\ i = Len(Queue[p]) + 1 /\ a = c /\ j \in 1..Len(Queue[r])
            /\ b = Queue[r][j]
        <4>1. Pos(p, a) = 0 /\ Pos(r, b) \in Nat  BY <1>14, <2>2, <3>2 DEF Pos, Same
        <4>2. p = r /\ i < j  BY <4>1
        <4> QED  BY <3>2, <4>2
      <3>3. CASE i \in 1..Len(Queue[p]) /\ a = Queue[p][i] /\ r = o /\ j = Len(Queue[r]) + 1
            /\ b = c
        <4>1. a.no <= Cardinality(Mine(a.src, sent)) /\ a.no \in Nat  BY <2>2, <3>3 DEF Same
        <4>2. a.src = h  BY <1>10, <3>3 DEF Same
        <4>3. a.no <= n  BY <1>4, <4>1, <4>2
        <4> QED  BY <1>8, <1>10, <3>3, <4>1, <4>3
      <3>4. CASE p = o /\ i = Len(Queue[p]) + 1 /\ a = c /\ r = o /\ j = Len(Queue[r]) + 1 /\ b = c
        <4>1. a.no = n + 1 /\ b.no = n + 1  BY <1>10, <3>4
        <4> QED  BY <1>8, <4>1
      <3>5. (i \in 1..Len(Queue[p]) /\ a = Queue[p][i]) \/ (p = o /\ i = Len(Queue[p]) + 1
            /\ a = c)  BY <2>1
      <3>6. (j \in 1..Len(Queue[r]) /\ b = Queue[r][j]) \/ (r = o /\ j = Len(Queue[r]) + 1
            /\ b = c)  BY <2>1
      <3> QED  BY <3>1, <3>2, <3>3, <3>4, <3>5, <3>6
    <2>5. Alone(Queue')
      <3> SUFFICES ASSUME NEW p \in Places, NEW r \in Places, NEW i \in 1..Len(Queue'[p]),
            NEW j \in 1..Len(Queue'[r]),
                          NEW a, a = Queue'[p][i], NEW b, b = Queue'[r][j],
                          IsCommand(a), IsCommand(b), a.src = b.src, a.dest = All
                   PROVE  a = b
        BY DEF Alone
      <3>1. CASE i \in 1..Len(Queue[p]) /\ a = Queue[p][i] /\ j \in 1..Len(Queue[r])
            /\ b = Queue[r][j]
        BY <1>29, <3>1 DEF Sound, Alone
      <3>2. CASE a = c /\ j \in 1..Len(Queue[r]) /\ b = Queue[r][j]
        <4>1. d = All /\ b \in Everywhere /\ b.src = h  BY <1>10, <2>2, <3>2
        <4> QED  BY <1>3, <4>1 DEF MaySend
      <3>3. CASE i \in 1..Len(Queue[p]) /\ a = Queue[p][i] /\ b = c
        <4>1. a \in Everywhere /\ a.src = h /\ a.dest = All  BY <1>10, <2>2, <3>3
        <4> QED  BY <1>3, <4>1 DEF MaySend
      <3>4. (i \in 1..Len(Queue[p]) /\ a = Queue[p][i]) \/ a = c  BY <2>1
      <3>5. (j \in 1..Len(Queue[r]) /\ b = Queue[r][j]) \/ b = c  BY <2>1
      <3> QED  BY <3>1, <3>2, <3>3, <3>4, <3>5
    <2>6. \A b \in Boards, x \in Hosts : last[b][x] \in Nat /\ last[b][x] <= Cardinality(Mine(x,
          sent))
      BY <1>29, NumbersAreNat DEF Sound, Counted
    <2>7. Later(Queue', last)
      <3> SUFFICES ASSUME NEW p \in Places, NEW i \in 1..Len(Queue'[p]), NEW a, a = Queue'[p][i],
            NEW b \in Boards, IsCommand(a), For(b, a)
                   PROVE  last[b][a.src] <= a.no
        BY DEF Later
      <3>1. CASE i \in 1..Len(Queue[p]) /\ a = Queue[p][i]  BY <1>29, <3>1 DEF Sound, Later
      <3>2. CASE a = c
        <4>1. last[b][h] \in Nat /\ last[b][h] <= n  BY <1>4, <2>6
        <4> QED  BY <1>8, <1>10, <3>2, <4>1
      <3> QED  BY <2>1, <3>1, <3>2
    <2>8. \A x \in Hosts : Cardinality(Mine(x, sent)) \in Nat
      <3>1. \A x \in Hosts : Mine(x, sent) \subseteq sent  BY DEF Mine
      <3> QED  BY <3>1, FS_Subset, FS_CardinalityType
    <2>9. \A x \in Hosts : Cardinality(Mine(x, sent)) <= Cardinality(Mine(x, sent'))  BY <1>4,
          <1>8, <1>12, <2>8
    <2>10. Counted(Queue', last, sent')
      <3>1. \A x \in sent' : x.no <= Cardinality(Mine(x.src, sent'))
        <4> SUFFICES ASSUME NEW x \in sent' PROVE x.no <= Cardinality(Mine(x.src, sent'))  OBVIOUS
        <4>1. CASE x \in sent
          <5>1. x.src \in Hosts /\ x.no \in Nat  BY <4>1, CommandTyped
          <5>2. x.no <= Cardinality(Mine(x.src, sent))  BY <1>7, <4>1
          <5>3. Cardinality(Mine(x.src, sent')) \in Nat  BY <1>8, <1>12, <2>8, <5>1
          <5> QED  BY <2>8, <2>9, <5>1, <5>2, <5>3
        <4>2. CASE x = c  BY <1>8, <1>10, <1>12, <4>2
        <4> QED  BY <1>6, <4>1, <4>2
      <3>2. ASSUME NEW p \in Places, NEW i \in 1..Len(Queue'[p]), IsCommand(Queue'[p][i])
            PROVE  Queue'[p][i].no <= Cardinality(Mine(Queue'[p][i].src, sent'))
        <4>1. PICK a : a = Queue'[p][i]  OBVIOUS
        <4>2. CASE i \in 1..Len(Queue[p]) /\ a = Queue[p][i]
          <5>1. a.src \in Hosts /\ a.no \in Nat /\ a.no <= Cardinality(Mine(a.src, sent))
                BY <2>2, <3>2, <4>1, <4>2
          <5>2. Cardinality(Mine(a.src, sent')) \in Nat  BY <1>8, <1>12, <2>8, <5>1
          <5> QED  BY <2>8, <2>9, <4>1, <5>1, <5>2
        <4>3. CASE a = c  BY <1>8, <1>10, <1>12, <4>1, <4>3
        <4> QED  BY <2>1, <4>1, <4>2, <4>3
      <3>3. ASSUME NEW b \in Boards, NEW x \in Hosts PROVE last[b][x] <= Cardinality(Mine(x, sent'))
        <4>1. Cardinality(Mine(x, sent')) \in Nat  BY <1>8, <1>12, <2>8
        <4> QED  BY <2>6, <2>8, <2>9, <4>1
      <3> QED  BY <1>13, <3>1, <3>2, <3>3 DEF Counted
    <2> QED  BY <2>3, <2>4, <2>5, <2>7, <2>10 DEF Sound
  <1> QED  BY <1>6, <1>13, <1>18, <1>20 DEF Sane

\* The ring begins empty.
LEMMA InitSane ==
    ASSUME Init
    PROVE  IInv
  <1>1. /\ \A b \in Boards : /\ fp[b] = <<>> /\ rx[b] = <<>> /\ tx[b] = <<>>
                             /\ relay[b] = <<>> /\ local[b] = <<>>
        /\ QueueTypes
    BY EmptySeq DEF Init, QueueTypes
  <1>2. \A p \in Places : Queue[p] = <<>>
    <2> SUFFICES ASSUME NEW p \in Places PROVE Queue[p] = <<>>  OBVIOUS
    <2>1. PICK b \in Boards : \/ p = <<"fp", b>> \/ p = <<"rx", b>> \/ p = <<"tx", b>>
                              \/ p = <<"relay", b>> \/ p = <<"local", b>>
      BY PlaceIs
    <2> QED  BY <1>1, <2>1, QueueIs
  <1>3. \A p \in Places : 1..Len(Queue[p]) = {}
    <2>1. Len(<<>>) = 0  OBVIOUS
    <2> QED  BY <1>2, <2>1
  <1>4. sent = {} /\ IsFiniteSet(sent)  BY FS_EmptySet DEF Init
  <1>5. \A h \in Hosts : Cardinality(Mine(h, sent)) = 0
    <2>1. \A h \in Hosts : Mine(h, sent) = {}  BY <1>4 DEF Mine
    <2> QED  BY <2>1, FS_EmptySet
  <1>6. \A b \in Boards, h \in Hosts : last[b][h] = 0  BY DEF Init
  <1>7. TypeOK
    <2>1. \A h \in Hosts : 0 \in Numbers
      <3> SUFFICES ASSUME NEW h \in Hosts PROVE 0 \in Numbers  OBVIOUS
      <3>1. Budget[h] \in Nat  BY RingAssumption
      <3>2. 0 \in 0..Budget[h]  BY <3>1
      <3> QED  BY <3>2 DEF Numbers
    <2>2. last \in [Boards -> [Hosts -> Numbers]]  BY <2>1 DEF Init
    <2>3. applied \in [Boards -> SUBSET Command]  BY DEF Init
    <2>4. holding \in [Boards -> BOOLEAN] /\ unpaced \in BOOLEAN  BY DEF Init
    <2> QED  BY <1>1, <1>4, <2>2, <2>3, <2>4 DEF TypeOK, QueueTypes, Entries
  <1>8. OnTheWay(Queue)  BY <1>3 DEF OnTheWay
  <1>9. Ordered(Queue)  BY <1>3 DEF Ordered
  <1>10. Alone(Queue)  BY <1>3 DEF Alone
  <1>11. Later(Queue, last)  BY <1>3 DEF Later
  <1>12. Counted(Queue, last, sent)  BY <1>3, <1>4, <1>5, <1>6 DEF Counted
  <1> QED  BY <1>4, <1>7, <1>8, <1>9, <1>10, <1>11, <1>12 DEF IInv, Sound

\* Every step keeps the invariant, and none takes a board back to an earlier command.
LEMMA NextSane ==
    ASSUME IInv, [Next]_vars
    PROVE  /\ IInv'
           /\ last' # last /\ ~unpaced =>
                \A b \in Boards, h \in Hosts : last'[b][h] >= last[b][h]
  <1>1. /\ Sane /\ sent \subseteq Command /\ applied \in [Boards -> SUBSET Command]
        /\ last \in [Boards -> [Hosts -> Numbers]] /\ IsFiniteSet(sent)
        /\ holding \in [Boards -> BOOLEAN] /\ unpaced \in BOOLEAN
    BY DEF IInv, TypeOK, Sane, QueueTypes, Entries
  <1>2. ASSUME Sane', sent' \subseteq Command, applied' \in [Boards -> SUBSET Command],
               last' \in [Boards -> [Hosts -> Numbers]], IsFiniteSet(sent'),
               holding' \in [Boards -> BOOLEAN], unpaced' \in BOOLEAN
        PROVE  IInv'
    BY <1>2 DEF IInv, TypeOK, Sane, QueueTypes, Entries
  <1>3. CASE \E h \in Hosts : Send(h)
    <2>1. PICK h \in Hosts : Send(h)  BY <1>3
    <2>2. /\ applied' = applied /\ last' = last /\ holding' = holding
          /\ unpaced' = (unpaced \/ Held)
      BY <2>1 DEF Send, Written, carried
    <2>3. Sane' /\ sent' \subseteq Command /\ IsFiniteSet(sent')  BY <1>1, <2>1, SendSane
    <2>4. (unpaced \/ Held) \in BOOLEAN  BY <1>1 DEF Held
    <2> QED  BY <1>1, <1>2, <2>2, <2>3, <2>4
  <1>4. CASE \E b \in Boards : Dispatch(b)
    <2>1. PICK b \in Boards : Dispatch(b)  BY <1>4
    <2>2. UNCHANGED <<holding, sent, applied, last, unpaced>>
      BY <2>1 DEF Dispatch, DispatchRx, DispatchFp, carried
    <2>3. Sane'  BY <1>1, <2>1, DispatchSane
    <2> QED  BY <1>1, <1>2, <2>2, <2>3
  <1>5. CASE \E b \in Boards : Apply(b)
    <2>1. PICK b \in Boards : Apply(b)  BY <1>5
    <2>2. UNCHANGED <<holding, sent, unpaced>>  BY <2>1 DEF Apply
    <2>3. /\ Sane' /\ last' \in [Boards -> [Hosts -> Numbers]]
          /\ applied' \in [Boards -> SUBSET Command]
          /\ ~unpaced => \A c \in Boards, h \in Hosts : last'[c][h] >= last[c][h]
      BY <1>1, <2>1, ApplySane
    <2> QED  BY <1>1, <1>2, <2>2, <2>3
  <1>6. CASE \E b \in Boards : TransmitRelay(b) \/ TransmitLocal(b)
    <2>1. PICK b \in Boards : TransmitRelay(b) \/ TransmitLocal(b)  BY <1>6
    <2>2. UNCHANGED <<sent, applied, last, unpaced>>
      BY <2>1 DEF TransmitRelay, TransmitLocal, carried
    <2>3. Sane'  BY <1>1, <2>1, TransmitSane
    <2>4. holding' \in [Boards -> BOOLEAN]
      BY <1>1, <2>1 DEF TransmitRelay, TransmitLocal, IsCommand
    <2> QED  BY <1>1, <1>2, <2>2, <2>3, <2>4
  <1>7. CASE UNCHANGED vars
    <2>1. UNCHANGED <<fp, rx, tx, relay, local, holding, sent, applied, last, unpaced>>
      BY <1>7 DEF vars, queues, carried
    <2>2. Queue' = Queue /\ QueueTypes' = QueueTypes  BY <2>1 DEF Queue, QueueTypes
    <2>3. Sane'  BY <1>1, <2>1, <2>2 DEF Sane
    <2> QED  BY <1>1, <1>2, <2>1, <2>3
  <1> QED  BY <1>3, <1>4, <1>5, <1>6, <1>7 DEF Next

\* The invariant holds in every reachable state.
LEMMA Invariance == Spec => []IInv
  <1>1. Init => IInv  BY InitSane
  <1>2. IInv /\ [Next]_vars => IInv'  BY NextSane
  <1> QED  BY <1>1, <1>2, PTL DEF Spec

\* Queues and histories keep their types: no dispatcher or register bank is handed a frame
\* that is not a command of some host, with the destination that host gave it; what the
\* second beat of a refused command is taken for stays in the relay FIFOs.
THEOREM CommandTypes == Spec => []TypeOK
  <1>1. IInv => TypeOK  BY DEF IInv
  <1> QED  BY <1>1, Invariance, PTL

\* No board carries out a command of a host after a later one of the same host (a repeat of
\* the same command it may), for as long as nothing has been sent while a transmitter was
\* holding: for any number of boards and of hosts, any destinations (absent boards included,
\* whatever the second beats of refused commands are taken for) and any interleaving of
\* dispatchers, transmitters and hosts.  So no late copy of an earlier setting overwrites
\* the one the host gave last.
THEOREM CommandsInOrder == Spec => InOrder
  <1>1. IInv /\ [Next]_vars =>
          [~unpaced => \A b \in Boards, h \in Hosts : last'[b][h] >= last[b][h]]_last
    BY NextSane
  <1> QED  BY <1>1, Invariance, PTL DEF Spec, InOrder
===============================================================================
