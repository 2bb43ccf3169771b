-------------------------- MODULE SchedulerProofs --------------------------
(***************************************************************************)
(* The scheduler keeps time and calls the timers it has accepted, for any  *)
(* period, width of the tick counter, and number of timers, blocks, cells. *)
(***************************************************************************)
EXTENDS Scheduler, WellFoundedInduction, TLAPS

USE SMTT(30)

Types ==
  /\ tick \in 0 .. Ticks - 1 /\ goal \in 0 .. Ticks - 1
  /\ ahead \in Int /\ stall \in 0 .. MaxStall
  /\ thr \in [pc : {"sleep", "walk", "call"}, left : Nat, idx : Nat, data : Blocks \cup {NULL}]
  /\ thr.pc = "call" => thr.data \in Blocks
  /\ list \in [0 .. Cells - 1 -> Blocks \cup {NULL}]
  /\ blk \in [Blocks -> [used : BOOLEAN, flag : {0, 1}, fn : Timers \cup {NULL}]]
  /\ app \in [pc : {"idle"}] \cup [pc : {"add"}, b : Blocks, t : Timers]
  /\ st \in [Timers -> {"new", "ok", "err", "popped"}]
  /\ must \subseteq Timers

\* The goal is ahead of the clock, up to one turn of the counter.
OnTheDial == goal - tick \in {ahead - Ticks, ahead, ahead + Ticks}

\* A sleep ends before the thread owes more than it has been held up for.
SleepsShort == thr.pc = "sleep" => thr.left <= ahead + stall

TimeInv == Types /\ OnTheDial /\ SleepsShort /\ NeverEarly

\* the block is the timer's
Own(b, t) == blk[b].used /\ blk[b].fn = t

\* the timer's block waits to be visited, in a cell from i on
Waits(b, t, i) == Own(b, t) /\ blk[b].flag = 1 /\ \E c \in i .. Cells - 1 : list[c] = b

\* A timer has one block, and it has none before putTimer.
OneBlock ==
  /\ \A t \in Timers, b1, b2 \in Blocks : Own(b1, t) /\ Own(b2, t) => b1 = b2
  /\ \A t \in Timers, b \in Blocks : Own(b, t) /\ st[t] = "new" => app.pc = "add" /\ app.t = t

\* What putTimer is about to list is the block it has filled.
Filled ==
  app.pc = "add" => Own(app.b, app.t) /\ blk[app.b].flag = 1 /\ st[app.t] = "new"

\* An accepted timer is in the list.
Listed == \A t \in Timers : st[t] = "ok" => \E b \in Blocks : Waits(b, t, 0)

\* A timer that this round has to call was called, is being called, or is ahead.
Owed ==
  \A t \in must :
    /\ st[t] = "ok"
    /\ \/ t \in ran
       \/ thr.pc = "call" /\ Own(thr.data, t)
       \/ \E b \in Blocks : Waits(b, t, thr.idx)

\* Between two rounds nothing is owed.
Rested == thr.pc = "sleep" => must = {} /\ thr.idx = 0

WalkInv == OneBlock /\ Filled /\ Listed /\ Owed /\ Rested

-----------------------------------------------------------------------------
\* Lemmas about the operators

\* A step forward on the dial goes round at most once.
LEMMA TurnForward ==
  ASSUME NEW a \in 0 .. Ticks - 1, NEW w \in 0 .. Ticks - 1, NEW g, g = (a + w) % Ticks
  PROVE  g \in 0 .. Ticks - 1 /\ g \in {a + w, a + w - Ticks}
BY WaitAssumption

\* The signed difference of two places on the dial is their distance, when that
\* is less than half a turn.
LEMMA DiffIsDistance ==
  ASSUME NEW a \in 0 .. Ticks - 1, NEW b \in 0 .. Ticks - 1, NEW d \in Int,
         a - b \in {d - Ticks, d, d + Ticks}, 0 - (Ticks \div 2) <= d, d < Ticks \div 2
  PROVE  Diff(a, b) = d
<1>1. (a - b) % Ticks = IF b <= a THEN a - b ELSE a - b + Ticks
  BY WaitAssumption
<1> QED
  BY <1>1, WaitAssumption DEF Diff

\* Two places less than a turn apart, at a distance that is less than a turn, are
\* at that distance up to one turn.
LEMMA WithinOneTurn ==
  ASSUME NEW g \in 0 .. Ticks - 1, NEW t \in 0 .. Ticks - 1, NEW d \in Int, NEW k \in -2 .. 2,
         g - t = d + k * Ticks, d < Ticks, 0 - Ticks < d
  PROVE  g - t \in {d - Ticks, d, d + Ticks}
<1>1. Ticks \in Nat
  BY WaitAssumption
<1>2. CASE k = -2
  BY <1>1, <1>2
<1>3. CASE k = 2
  BY <1>1, <1>3
<1>4. CASE k \in {-1, 0, 1}
  BY <1>1, <1>4
<1> QED
  BY <1>2, <1>3, <1>4

\* The difference is an integer in any case.
LEMMA DiffType ==
  ASSUME NEW a \in 0 .. Ticks - 1, NEW b \in 0 .. Ticks - 1
  PROVE  Diff(a, b) \in Int
<1>1. (a - b) % Ticks \in Int
  BY WaitAssumption
<1> QED
  BY <1>1, WaitAssumption DEF Diff

\* The int of schedulerLoop is the true distance.
LEMMA DiffIsAhead == TimeInv => DistanceIsTrue
<1> SUFFICES ASSUME TimeInv PROVE Diff(goal, tick) = ahead
  BY DEF DistanceIsTrue
<1>1. 0 - (Ticks \div 2) <= ahead /\ ahead < Ticks \div 2
  <2>1. ahead \in Int /\ ahead <= Wait + 1 /\ 0 - MaxStall <= ahead
    BY WaitAssumption DEF TimeInv, Types, NeverEarly
  <2> QED
    BY <2>1, WaitAssumption
<1> QED
  BY <1>1, DiffIsDistance, Zenon DEF TimeInv, Types, OnTheDial

\* A set of cells that is not empty has a first one.
LEMMA FirstOf ==
  ASSUME NEW S, S \subseteq Nat, S # {}
  PROVE  \E c \in S : \A d \in S : c <= d
<1> DEFINE less == {ss \in Nat \X Nat : ss[1] < ss[2]}
<1>1. IsWellFoundedOn(less, Nat)
  BY NatLessThanWellFounded, Zenon DEF OpToRel
<1>2. PICK c \in S : \A d \in S : ~ (<<d, c>> \in less)
  <2> HIDE DEF less
  <2> QED
    BY <1>1, WFMin, Zenon
<1>3. ASSUME NEW d \in S, d < c PROVE FALSE
  <2>1. <<d, c>> \in Nat \X Nat /\ <<d, c>>[1] = d /\ <<d, c>>[2] = c
    OBVIOUS
  <2> QED
    BY <1>2, <1>3, <2>1
<1> QED
  BY <1>3

\* getNext answers the first filled cell from i on, or Cells.
LEMMA NextCell ==
  ASSUME NEW i \in Nat
  PROVE  /\ GetNext(i) \in 0 .. Cells
         /\ GetNext(i) < Cells => GetNext(i) \in i .. Cells - 1 /\ list[GetNext(i)] # NULL
         /\ \A c \in i .. Cells - 1 : list[c] # NULL => GetNext(i) <= c
<1> DEFINE filled == {c \in i .. Cells - 1 : list[c] # NULL}
<1> USE PoolAssumption
<1>1. filled \in SUBSET Nat
  OBVIOUS
<1>2. CASE filled = {}
  BY <1>2 DEF GetNext
<1>3. CASE filled # {}
  <2>1. \E c \in filled : \A d \in filled : c <= d
    <3> HIDE DEF filled
    <3> QED
      BY <1>1, <1>3, FirstOf, Zenon
  <2>2. GetNext(i) \in filled /\ \A d \in filled : GetNext(i) <= d
    BY <1>3, <2>1 DEF GetNext
  <2> QED
    BY <2>2
<1> QED
  BY <1>2, <1>3

\* deleteTime takes the block out of a cell that holds it.
DeletedCell(b) == CHOOSE x \in 0 .. Cells - 1 : list[x] = b /\ \A y \in 0 .. x - 1 : list[y] # b

LEMMA DeleteCell ==
  ASSUME NEW c \in 0 .. Cells - 1
  PROVE  DeletedCell(list[c]) \in 0 .. Cells - 1 /\ list[DeletedCell(list[c])] = list[c]
<1> DEFINE cells == {x \in 0 .. Cells - 1 : list[x] = list[c]}
<1>1. PICK x \in cells : \A y \in cells : x <= y
  <2>1. cells \subseteq Nat /\ c \in cells
    BY PoolAssumption
  <2> HIDE DEF cells
  <2> QED
    BY <2>1, FirstOf, Zenon
<1>2. x \in 0 .. Cells - 1 /\ list[x] = list[c] /\ \A y \in 0 .. x - 1 : list[y] # list[c]
  BY <1>1, PoolAssumption
<1> QED
  BY <1>2 DEF DeletedCell

-----------------------------------------------------------------------------
\* Types

\* The walk visits a filled cell, and stays inside the list.
LEMMA VisitFacts ==
  ASSUME Types, Visit
  PROVE  LET c == GetNext(thr.idx) IN
         /\ thr.pc = "walk" /\ c \in thr.idx .. Cells - 1 /\ c \in 0 .. Cells - 1
         /\ list[c] \in Blocks
         /\ thr'.idx = c + 1 /\ thr'.left = thr.left
         /\ \/ /\ blk[list[c]].flag = 0 /\ thr'.pc = "walk" /\ thr'.data = thr.data
               /\ list' = [list EXCEPT ![DeletedCell(list[c])] = NULL]
            \/ /\ blk[list[c]].flag = 1 /\ thr'.pc = "call" /\ thr'.data = list[c]
               /\ list' = list
         /\ thr' \in [pc : {"sleep", "walk", "call"}, left : Nat, idx : Nat, data : Blocks \cup {NULL}]
         /\ UNCHANGED <<tick, goal, ahead, blk, app, st, must, ran, stall>>
<1> DEFINE c == GetNext(thr.idx)
<1>1. thr.idx \in Nat
  BY DEF Types
<1>2. thr.pc = "walk" /\ c < Cells
  BY DEF Visit
<1>3. c \in thr.idx .. Cells - 1 /\ c \in 0 .. Cells - 1 /\ list[c] # NULL
  BY <1>1, <1>2, NextCell
<1>4. list[c] \in Blocks /\ blk[list[c]].flag \in {0, 1}
  BY <1>3 DEF Types
<1>5. \/ /\ blk[list[c]].flag = 0 /\ thr' = [thr EXCEPT !.idx = c + 1]
         /\ list' = [list EXCEPT ![DeletedCell(list[c])] = NULL]
      \/ /\ blk[list[c]].flag # 0 /\ list' = list
         /\ thr' = [thr EXCEPT !.idx = c + 1, !.pc = "call", !.data = list[c]]
  BY DEF Visit, DeletedCell
<1> HIDE DEF c
<1>6. c + 1 \in Nat
  BY <1>1, <1>3
<1>7. UNCHANGED <<tick, goal, ahead, blk, app, st, must, ran, stall>>
  BY DEF Visit
<1>8. /\ thr'.idx = c + 1 /\ thr'.left = thr.left
      /\ \/ /\ blk[list[c]].flag = 0 /\ thr'.pc = "walk" /\ thr'.data = thr.data
            /\ list' = [list EXCEPT ![DeletedCell(list[c])] = NULL]
         \/ /\ blk[list[c]].flag = 1 /\ thr'.pc = "call" /\ thr'.data = list[c]
            /\ list' = list
      /\ thr' \in [pc : {"sleep", "walk", "call"}, left : Nat, idx : Nat, data : Blocks \cup {NULL}]
  BY <1>2, <1>4, <1>5, <1>6, ZenonT(60) DEF Types
<1> QED
  BY <1>2, <1>3, <1>4, <1>7, <1>8 DEF c

\* Every step keeps the types.
LEMMA TypesStep == Types /\ [Next]_schedVars => Types'
<1> SUFFICES ASSUME Types, [Next]_schedVars PROVE Types'
  OBVIOUS
<1>1. CASE Wake
  <2>1. Diff(goal, tick) \in Int
    BY DiffType, Zenon DEF Types
  <2> QED
    BY <1>1, <2>1 DEF Types, Wake, SleepFor
<1>2. CASE Visit
  <2>1. DeletedCell(list[GetNext(thr.idx)]) \in 0 .. Cells - 1
    BY <1>2, VisitFacts, DeleteCell, Zenon
  <2>2. list' \in [0 .. Cells - 1 -> Blocks \cup {NULL}]
    BY <1>2, <2>1, VisitFacts, Zenon DEF Types
  <2> QED
    BY <1>2, <2>2, VisitFacts, Zenon DEF Types
<1>3. CASE Call
  BY <1>3, Zenon DEF Types, Call
<1>4. CASE EndRound
  <2>1. Wait \in 0 .. Ticks - 1 /\ goal' = (goal + Wait) % Ticks
    BY <1>4, WaitAssumption DEF EndRound
  <2>2. goal' \in 0 .. Ticks - 1
    BY <2>1, TurnForward, Zenon DEF Types
  <2>3. Half \in Nat /\ ahead' \in Int
    BY <1>4, WaitAssumption DEF Half, EndRound, Types
  <2> QED
    BY <1>4, <2>2, <2>3 DEF Types, EndRound, SleepFor
<1>5. CASE Tick
  <2>1. 1 \in 0 .. Ticks - 1 /\ tick' = (tick + 1) % Ticks
    BY <1>5, WaitAssumption DEF Tick
  <2>2. tick' \in 0 .. Ticks - 1
    BY <2>1, TurnForward, Zenon DEF Types
  <2>3. ahead' \in Int /\ stall' \in 0 .. MaxStall
    <3>1. ahead \in Int /\ stall \in 0 .. MaxStall /\ MaxStall \in Nat
      BY WaitAssumption DEF Types
    <3>2. ahead' = ahead - 1 /\ (stall' = stall \/ (stall < MaxStall /\ stall' = stall + 1))
      BY <1>5 DEF Tick
    <3> QED
      BY <3>1, <3>2
  <2>4. /\ thr' \in [pc : {"sleep", "walk", "call"}, left : Nat, idx : Nat, data : Blocks \cup {NULL}]
        /\ thr'.pc = thr.pc /\ thr'.data = thr.data
    BY <1>5 DEF Tick, Types
  <2> QED
    BY <1>5, <2>2, <2>3, <2>4 DEF Tick, Types
<1>6. CASE AddTime
  <2>1. app.b \in Blocks /\ app.t \in Timers
    BY <1>6 DEF AddTime, Types
  <2>2. list' \in [0 .. Cells - 1 -> Blocks \cup {NULL}] /\ st' \in [Timers -> {"new", "ok", "err", "popped"}]
    BY <1>6, <2>1 DEF AddTime, Types
  <2>3. blk' \in [Blocks -> [used : BOOLEAN, flag : {0, 1}, fn : Timers \cup {NULL}]]
    <3>1. \E u \in BOOLEAN : blk' = [blk EXCEPT ![app.b].used = u]
      BY <1>6, Zenon DEF AddTime
    <3>2. PICK u \in BOOLEAN : blk' = [blk EXCEPT ![app.b].used = u]
      BY <3>1, Zenon
    <3> QED
      BY <2>1, <3>2 DEF Types
  <2> QED
    BY <1>6, <2>2, <2>3 DEF AddTime, Types
<1>7. ASSUME NEW t \in Timers, PutTimer(t) PROVE Types'
  <2>1. CASE \E b \in Blocks : ~blk[b].used
    <3>1. PICK b \in Blocks : /\ blk' = [blk EXCEPT ![b] = [used |-> TRUE, flag |-> 1, fn |-> t]]
                              /\ app' = [pc |-> "add", b |-> b, t |-> t]
      BY <1>7, <2>1 DEF PutTimer
    <3>2. blk' \in [Blocks -> [used : BOOLEAN, flag : {0, 1}, fn : Timers \cup {NULL}]]
      BY <3>1 DEF Types
    <3>3. app' \in [pc : {"add"}, b : Blocks, t : Timers]
      BY <3>1
    <3> QED
      BY <1>7, <2>1, <3>2, <3>3 DEF PutTimer, Types
  <2>2. CASE ~ \E b \in Blocks : ~blk[b].used
    BY <1>7, <2>2 DEF PutTimer, Types
  <2> QED
    BY <2>1, <2>2
<1>8. ASSUME NEW t \in Timers, PopTimer(t) PROVE Types'
  BY <1>8 DEF PopTimer, Types
<1>9. CASE UNCHANGED schedVars
  BY <1>9 DEF schedVars, Types
<1> QED
  BY <1>1, <1>2, <1>3, <1>4, <1>5, <1>6, <1>7, <1>8, <1>9 DEF Next, Thread

-----------------------------------------------------------------------------
\* The arithmetic of time

\* The scheduler starts with its goal one period ahead.
LEMMA InitTime == Init => TimeInv
<1> SUFFICES ASSUME Init PROVE TimeInv
  OBVIOUS
<1>1. Half \in Nat /\ Half <= Wait
  BY WaitAssumption DEF Half
<1>2. /\ goal \in 0 .. Ticks - 1
      /\ goal = Boot + Wait \/ goal = Boot + Wait - Ticks
  <2>1. Wait \in 0 .. Ticks - 1 /\ Boot \in 0 .. Ticks - 1 /\ goal = (Boot + Wait) % Ticks
    BY WaitAssumption DEF Init
  <2> QED
    BY <2>1, TurnForward, Zenon
<1>3. Types
  BY <1>1, <1>2, WaitAssumption DEF Types, Init
<1>4. OnTheDial
  BY <1>2, WaitAssumption DEF OnTheDial, Init
<1>5. SleepsShort /\ NeverEarly
  BY <1>1, WaitAssumption DEF SleepsShort, NeverEarly, Init
<1> QED
  BY <1>3, <1>4, <1>5 DEF TimeInv

\* A millisecond that passes brings the goal nearer, and one that the sleep does
\* not count is one the thread was held up for.
LEMMA TickTime == TimeInv /\ Tick => OnTheDial' /\ SleepsShort' /\ NeverEarly'
<1> SUFFICES ASSUME TimeInv, Tick PROVE OnTheDial' /\ SleepsShort' /\ NeverEarly'
  OBVIOUS
<1>1. tick' \in {tick + 1, tick + 1 - Ticks}
  <2>1. 1 \in 0 .. Ticks - 1 /\ tick' = (tick + 1) % Ticks
    BY WaitAssumption DEF Tick
  <2> QED
    BY <2>1, TurnForward, Zenon DEF TimeInv, Types
<1>2. ahead' = ahead - 1 /\ goal' = goal
  BY DEF Tick
<1>3. tick \in 0 .. Ticks - 1 /\ goal \in 0 .. Ticks - 1 /\ ahead \in Int /\ stall \in Nat /\ thr.left \in Nat
  BY WaitAssumption DEF TimeInv, Types
<1>4. OnTheDial'
  <2>1. goal - tick = ahead \/ goal - tick = ahead - Ticks \/ goal - tick = ahead + Ticks
    BY DEF TimeInv, OnTheDial
  <2>2. tick' = tick + 1 \/ tick' = tick + 1 - Ticks
    BY <1>1
  <2>3. ahead <= Wait + 1 /\ 0 - MaxStall <= ahead
    BY <1>3, WaitAssumption DEF TimeInv, Types, NeverEarly
  <2>4. tick' \in 0 .. Ticks - 1
    BY TypesStep, Zenon DEF TimeInv, Types, Next
  <2> QED
    <3>1. PICK k \in -2 .. 2 : goal' - tick' = ahead' + k * Ticks
      <4>1. goal' - tick' \in {ahead' - 2 * Ticks, ahead' - Ticks, ahead', ahead' + Ticks, ahead' + 2 * Ticks}
        BY <1>2, <1>3, <2>1, <2>2, WaitAssumption
      <4> QED
        BY <1>2, <1>3, <4>1, WaitAssumption
    <3>2. ahead' \in Int /\ ahead' < Ticks /\ 0 - Ticks < ahead' /\ goal' \in 0 .. Ticks - 1
      BY <1>2, <1>3, <2>3, WaitAssumption
    <3> QED
      BY <2>4, <3>1, <3>2, WithinOneTurn, Zenon DEF OnTheDial
<1>5. \/ thr.pc = "sleep" /\ thr'.pc = "sleep" /\ 0 < thr.left /\ thr'.left = thr.left - 1 /\ stall' = stall
      \/ ~ (thr.pc = "sleep" /\ 0 < thr.left) /\ thr' = thr /\ stall' = stall + 1
  BY DEF Tick, TimeInv, Types
<1>6. SleepsShort' /\ NeverEarly'
  <2>1. (thr.pc = "sleep" => thr.left <= ahead + stall) /\ (thr.pc # "sleep" => ahead <= 1)
    BY DEF TimeInv, SleepsShort, NeverEarly
  <2>2. ahead <= Wait + 1 /\ 0 - stall <= ahead
    BY <1>3 DEF TimeInv, NeverEarly
  <2> QED
    BY <1>2, <1>3, <1>5, <2>1, <2>2, WaitAssumption DEF SleepsShort, NeverEarly
<1> QED
  BY <1>4, <1>6

\* setGoal advances the goal by a period on the dial.
LEMMA EndRoundTime == TimeInv /\ EndRound => OnTheDial' /\ SleepsShort' /\ NeverEarly'
<1> SUFFICES ASSUME TimeInv, EndRound PROVE OnTheDial' /\ SleepsShort' /\ NeverEarly'
  OBVIOUS
<1>1. goal' = goal + Wait \/ goal' = goal + Wait - Ticks
  <2>1. Wait \in 0 .. Ticks - 1 /\ goal' = (goal + Wait) % Ticks
    BY WaitAssumption DEF EndRound
  <2> QED
    BY <2>1, TurnForward, Zenon DEF TimeInv, Types
<1>2. tick \in 0 .. Ticks - 1 /\ goal \in 0 .. Ticks - 1 /\ ahead \in Int /\ stall \in 0 .. MaxStall
  BY DEF TimeInv, Types
<1>3. ahead' = ahead + Wait /\ tick' = tick /\ stall' = stall /\ thr'.pc = "sleep" /\ thr'.left = Half
  BY DEF EndRound, SleepFor
<1>4. ahead <= 1 /\ 0 - stall <= ahead
  BY <1>2 DEF TimeInv, NeverEarly, EndRound
<1>5. OnTheDial'
  <2>1. goal - tick = ahead \/ goal - tick = ahead - Ticks \/ goal - tick = ahead + Ticks
    BY DEF TimeInv, OnTheDial
  <2>2. goal' \in 0 .. Ticks - 1
    BY TypesStep, Zenon DEF TimeInv, Types, Next, Thread
  <2> QED
    <3>1. PICK k \in -2 .. 2 : goal' - tick' = ahead' + k * Ticks
      <4>1. goal' - tick' \in {ahead' - 2 * Ticks, ahead' - Ticks, ahead', ahead' + Ticks, ahead' + 2 * Ticks}
        BY <1>1, <1>2, <1>3, <2>1, WaitAssumption
      <4> QED
        BY <1>2, <1>3, <4>1, WaitAssumption
    <3>2. ahead' \in Int /\ ahead' < Ticks /\ 0 - Ticks < ahead' /\ tick' \in 0 .. Ticks - 1
      BY <1>2, <1>3, <1>4, WaitAssumption
    <3> QED
      BY <2>2, <3>1, <3>2, WithinOneTurn, Zenon DEF OnTheDial
<1>6. SleepsShort' /\ NeverEarly'
  <2>1. Half \in Nat /\ Half <= Wait
    BY WaitAssumption DEF Half
  <2> QED
    BY <1>2, <1>3, <1>4, <2>1, WaitAssumption DEF SleepsShort, NeverEarly
<1> QED
  BY <1>5, <1>6

\* Every step keeps the time.
LEMMA TimeStep == TimeInv /\ [Next]_schedVars => TimeInv'
<1> SUFFICES ASSUME TimeInv, [Next]_schedVars PROVE OnTheDial' /\ SleepsShort' /\ NeverEarly'
  BY TypesStep, Zenon DEF TimeInv
<1>1. CASE Wake
  <2>1. Diff(goal, tick) = ahead
    BY DiffIsAhead, Zenon DEF DistanceIsTrue
  <2> QED
    <3>1. ahead \in Int /\ stall \in Nat /\ thr.left = 0 /\ thr.pc = "sleep"
      BY <1>1, WaitAssumption DEF TimeInv, Types, Wake
    <3>2. \/ 1 < ahead /\ thr'.pc = "sleep" /\ thr'.left = ahead
          \/ ~(1 < ahead) /\ thr'.pc = "walk"
      BY <1>1, <2>1 DEF Wake, SleepFor, TimeInv, Types
    <3>3. UNCHANGED <<tick, goal, ahead, stall>>
      BY <1>1 DEF Wake
    <3> QED
      BY <3>1, <3>2, <3>3 DEF TimeInv, OnTheDial, SleepsShort, NeverEarly
<1>2. CASE Visit
  BY <1>2, VisitFacts, Zenon DEF TimeInv, OnTheDial, SleepsShort, NeverEarly
<1>3. CASE Call
  BY <1>3 DEF Call, TimeInv, Types, OnTheDial, SleepsShort, NeverEarly
<1>4. CASE EndRound
  BY <1>4, EndRoundTime, Zenon
<1>5. CASE Tick
  BY <1>5, TickTime, Zenon
<1>6. CASE UNCHANGED <<tick, goal, ahead, thr, stall>>
  BY <1>6 DEF TimeInv, OnTheDial, SleepsShort, NeverEarly
<1> QED
  BY <1>1, <1>2, <1>3, <1>4, <1>5, <1>6 DEF Next, Thread, AddTime, PutTimer, PopTimer, schedVars

\* The scheduler keeps time, for any period, any width of the tick counter that
\* holds the period and the delays twice, and any start on the dial: the int of
\* schedulerLoop is the true distance to the goal, and no round is early.
THEOREM TimeKept == Spec => []KeepsTime
<1>1. Init => TimeInv
  BY InitTime, Zenon
<1>2. TimeInv /\ [Next]_schedVars => TimeInv'
  BY TimeStep, Zenon
<1>3. TimeInv => KeepsTime
  BY DiffIsAhead, Zenon DEF KeepsTime, TimeInv
<1> QED
  BY <1>1, <1>2, <1>3, PTL DEF Spec

-----------------------------------------------------------------------------
\* The walk over the list

\* Nothing is listed and nothing is owed at the start.
LEMMA InitWalk == Init => WalkInv
<1> SUFFICES ASSUME Init PROVE WalkInv
  OBVIOUS
<1>1. app.pc = "idle" /\ must = {} /\ thr.idx = 0 /\ \A t \in Timers : st[t] = "new"
  BY DEF Init
<1>2. \A b \in Blocks : \A t : ~Own(b, t)
  BY DEF Init, Own
<1> QED
  BY <1>1, <1>2 DEF WalkInv, OneBlock, Filled, Listed, Owed, Rested

\* A round starts with the accepted timers, which are in the list.
LEMMA WakeWalk == Types /\ WalkInv /\ Wake => WalkInv'
<1> SUFFICES ASSUME Types, WalkInv, Wake PROVE WalkInv'
  OBVIOUS
<1>1. UNCHANGED <<list, blk, app, st, ran>> /\ thr.pc = "sleep" /\ thr.idx = 0
  BY DEF Wake, WalkInv, Rested
<1>2. \A b, t, i : (Own(b, t)' <=> Own(b, t)) /\ (Waits(b, t, i)' <=> Waits(b, t, i))
  BY <1>1 DEF Own, Waits
<1>3. OneBlock' /\ Filled' /\ Listed'
  BY <1>1, <1>2 DEF WalkInv, OneBlock, Filled, Listed, Own
<1>4. \/ thr'.pc = "sleep" /\ thr'.idx = 0 /\ must' = must
      \/ thr'.pc = "walk" /\ thr'.idx = 0 /\ must' = {t \in Timers : st[t] = "ok"}
  BY <1>1 DEF Wake, SleepFor, Types
<1>5. Owed' /\ Rested'
  BY <1>1, <1>2, <1>4 DEF WalkInv, Listed, Owed, Rested
<1> QED
  BY <1>3, <1>5 DEF WalkInv

\* A visit takes out a popped block, or has in hand the block it steps over.
LEMMA VisitWalk == Types /\ WalkInv /\ Visit => WalkInv'
<1> SUFFICES ASSUME Types, WalkInv, Visit PROVE WalkInv'
  OBVIOUS
<1> DEFINE c == GetNext(thr.idx)
           at == DeletedCell(list[c])
<1>1. /\ thr.idx \in Nat /\ c \in thr.idx .. Cells - 1 /\ c \in 0 .. Cells - 1 /\ list[c] \in Blocks
      /\ thr.pc = "walk" /\ thr'.pc # "sleep" /\ thr'.idx = c + 1
      /\ UNCHANGED <<blk, app, st, must, ran>>
  BY VisitFacts, Zenon DEF Types
<1>2. \/ blk[list[c]].flag = 0 /\ list' = [list EXCEPT ![at] = NULL]
      \/ thr'.pc = "call" /\ thr'.data = list[c] /\ list' = list
  BY VisitFacts, Zenon
<1>3. at \in 0 .. Cells - 1 /\ list[at] = list[c]
  BY <1>1, DeleteCell, Zenon
<1>4. \A d \in thr.idx .. Cells - 1 : list[d] # NULL => c <= d
  BY <1>1, NextCell, Zenon
<1> HIDE DEF c, at
<1>5. \A b, t : Own(b, t)' <=> Own(b, t)
  BY <1>1 DEF Own
<1>6. OneBlock' /\ Filled'
  BY <1>1, <1>5 DEF WalkInv, OneBlock, Filled, Own
<1>7. ASSUME NEW b \in Blocks, blk[b].flag = 1, NEW d \in 0 .. Cells - 1, list[d] = b
      PROVE  list'[d] = b
  <2>1. list \in [0 .. Cells - 1 -> Blocks \cup {NULL}]
    BY DEF Types
  <2>2. CASE list' = list
    BY <1>7, <2>2
  <2>3. CASE blk[list[c]].flag = 0 /\ list' = [list EXCEPT ![at] = NULL]
    <3>1. d # at
      BY <1>3, <1>7, <2>3
    <3> QED
      BY <1>7, <2>1, <2>3, <3>1
  <2> QED
    BY <1>2, <2>2, <2>3
<1>8. ASSUME NEW b \in Blocks, NEW t, NEW i \in Nat, Waits(b, t, i)
      PROVE  Waits(b, t, i)'
  BY <1>1, <1>7, <1>8 DEF Waits, Own
<1>9. Listed' /\ Rested'
  BY <1>1, <1>8 DEF WalkInv, Listed, Rested
<1>10. ASSUME NEW b \in Blocks, NEW t, Waits(b, t, thr.idx)
       PROVE  (thr.pc = "call" /\ Own(thr.data, t))' \/ Waits(b, t, thr.idx)'
  <2>1. PICK d \in thr.idx .. Cells - 1 : list[d] = b
    BY <1>10 DEF Waits
  <2>2. c <= d /\ d \in 0 .. Cells - 1 /\ list'[d] = b /\ blk[b].flag = 1 /\ Own(b, t)
    BY <1>1, <1>4, <1>7, <1>10, <2>1, PoolAssumption DEF Waits
  <2>3. CASE d = c
    BY <1>2, <1>5, <2>1, <2>2, <2>3
  <2>4. CASE c < d
    BY <1>1, <1>5, <2>2, <2>4 DEF Waits
  <2> QED
    BY <1>1, <2>2, <2>3, <2>4
<1>11. Owed'
  BY <1>1, <1>10 DEF WalkInv, Owed
<1> QED
  BY <1>6, <1>9, <1>11 DEF WalkInv

\* The timer in hand is called.
LEMMA CallWalk == Types /\ WalkInv /\ Call => WalkInv'
<1> SUFFICES ASSUME Types, WalkInv, Call PROVE WalkInv'
  OBVIOUS
<1>1. /\ UNCHANGED <<list, blk, app, st, must>> /\ ran' = ran \cup {blk[thr.data].fn}
      /\ thr'.pc = "walk" /\ thr'.idx = thr.idx
  BY DEF Call, Types
<1>2. \A b, t, i : (Own(b, t)' <=> Own(b, t)) /\ (Waits(b, t, i)' <=> Waits(b, t, i))
  BY <1>1 DEF Own, Waits
<1>3. OneBlock' /\ Filled' /\ Listed' /\ Rested'
  BY <1>1, <1>2 DEF WalkInv, OneBlock, Filled, Listed, Rested, Own
<1>4. \A t : Own(thr.data, t) => t \in ran'
  BY <1>1 DEF Own
<1>5. Owed'
  BY <1>1, <1>2, <1>4 DEF WalkInv, Owed
<1> QED
  BY <1>3, <1>5 DEF WalkInv

\* A round that ends owes nothing.
LEMMA EndRoundWalk == Types /\ WalkInv /\ EndRound => WalkInv'
<1> SUFFICES ASSUME Types, WalkInv, EndRound PROVE WalkInv'
  OBVIOUS
<1>1. UNCHANGED <<list, blk, app, st>> /\ must' = {} /\ thr'.idx = 0
  BY DEF EndRound, SleepFor
<1>2. \A b, t, i : (Own(b, t)' <=> Own(b, t)) /\ (Waits(b, t, i)' <=> Waits(b, t, i))
  BY <1>1 DEF Own, Waits
<1> QED
  BY <1>1, <1>2 DEF WalkInv, OneBlock, Filled, Listed, Owed, Rested, Own

\* newTime takes a block that no timer owns.
LEMMA PutWalk ==
  ASSUME NEW t \in Timers, Types, WalkInv, PutTimer(t)
  PROVE  WalkInv'
<1>1. UNCHANGED <<thr, list, must, ran>> /\ app.pc = "idle" /\ st[t] = "new" /\ t \notin must
  BY DEF PutTimer, WalkInv, Owed
<1>2. CASE \E b \in Blocks : ~blk[b].used
  <2>1. PICK b \in Blocks :
          /\ ~blk[b].used /\ st' = st
          /\ blk' = [blk EXCEPT ![b] = [used |-> TRUE, flag |-> 1, fn |-> t]]
          /\ app' = [pc |-> "add", b |-> b, t |-> t]
    BY <1>2 DEF PutTimer
  <2>2. app'.pc = "add" /\ app'.b = b /\ app'.t = t
    BY <2>1
  <2>3. \A x \in Blocks \ {b} : blk'[x] = blk[x]
    BY <2>1 DEF Types
  <2>4. blk'[b].used /\ blk'[b].flag = 1 /\ blk'[b].fn = t
    BY <2>1 DEF Types
  <2>5. \A x \in Blocks : \A s : Own(x, s)' <=> (x # b /\ Own(x, s)) \/ (x = b /\ s = t)
    BY <2>1, <2>3, <2>4 DEF Own
  <2>6. \A x \in Blocks : \A s, i : Waits(x, s, i) => Waits(x, s, i)'
    BY <1>1, <2>1, <2>3, <2>5 DEF Waits, Own
  <2>7. \A x \in Blocks : ~Own(x, t)
    BY <1>1 DEF WalkInv, OneBlock
  <2>8. OneBlock'
    BY <1>1, <2>1, <2>2, <2>5, <2>7 DEF WalkInv, OneBlock
  <2>9. Filled'
    BY <1>1, <2>1, <2>2, <2>4, <2>5 DEF Filled, Own
  <2>10. Listed' /\ Rested'
    BY <1>1, <2>1, <2>6 DEF WalkInv, Listed, Rested
  <2>11. \A s : thr.pc = "call" /\ Own(thr.data, s) => Own(thr.data, s)'
    BY <1>1, <2>1, <2>3 DEF Own, Types
  <2>12. Owed'
    BY <1>1, <2>1, <2>6, <2>11 DEF WalkInv, Owed
  <2> QED
    BY <2>8, <2>9, <2>10, <2>12 DEF WalkInv
<1>3. CASE ~ \E b \in Blocks : ~blk[b].used
  <2>1. st' = [st EXCEPT ![t] = "err"] /\ UNCHANGED <<blk, app>>
    BY <1>3 DEF PutTimer
  <2>2. st'[t] = "err" /\ \A s \in Timers \ {t} : st'[s] = st[s]
    BY <2>1 DEF Types
  <2>3. \A b, s, i : (Own(b, s)' <=> Own(b, s)) /\ (Waits(b, s, i)' <=> Waits(b, s, i))
    BY <1>1, <2>1 DEF Own, Waits
  <2>4. OneBlock' /\ Filled'
    BY <1>1, <2>1, <2>2, <2>3 DEF WalkInv, OneBlock, Filled
  <2>5. Listed' /\ Rested' /\ Owed'
    BY <1>1, <2>1, <2>2, <2>3 DEF WalkInv, Listed, Rested, Owed, Types
  <2> QED
    BY <2>4, <2>5 DEF WalkInv
<1> QED
  BY <1>2, <1>3

\* addTime fills an empty cell: it moves no block, and gives up the block only of
\* the timer whose caller it tells that it has failed.
LEMMA AddWalk == Types /\ WalkInv /\ AddTime => WalkInv'
<1> SUFFICES ASSUME Types, WalkInv, AddTime PROVE WalkInv'
  OBVIOUS
<1>1. /\ UNCHANGED <<thr, must, ran>> /\ app.pc = "add" /\ app'.pc = "idle"
  BY DEF AddTime, Types
<1>2. PICK a \in Blocks, t \in Timers : app.b = a /\ app.t = t
  BY <1>1 DEF Types
<1>3. Own(a, t) /\ blk[a].flag = 1 /\ st[t] = "new"
  BY <1>1, <1>2 DEF WalkInv, Filled
<1>4. PICK c \in 0 .. Cells - 1 :
        /\ list[c] = NULL
        /\ list' = [list EXCEPT ![c] = a]
        /\ st' = [st EXCEPT ![t] = IF c = 0 THEN "err" ELSE "ok"]
        /\ blk' = [blk EXCEPT ![a].used = c # 0]
  BY <1>2, Zenon DEF AddTime
<1>5. /\ st'[t] = (IF c = 0 THEN "err" ELSE "ok")
      /\ \A s \in Timers \ {t} : st'[s] = st[s]
  BY <1>1, <1>4 DEF Types
<1>6. list'[c] = a /\ \A d \in 0 .. Cells - 1 : list[d] \in Blocks => list'[d] = list[d]
  BY <1>4, PoolAssumption DEF Types
<1>7. /\ \A x \in Blocks : blk'[x].flag = blk[x].flag /\ blk'[x].fn = blk[x].fn
      /\ \A x \in Blocks \ {a} : blk'[x] = blk[x]
      /\ blk'[a].used <=> c # 0
  <2>1. \E u \in BOOLEAN : (u <=> c # 0) /\ blk' = [blk EXCEPT ![a].used = u]
    BY <1>4, Zenon
  <2>2. PICK u \in BOOLEAN : (u <=> c # 0) /\ blk' = [blk EXCEPT ![a].used = u]
    BY <2>1, Zenon
  <2> QED
    BY <2>2 DEF Types
<1>8. \A x \in Blocks : \A s : Own(x, s)' <=> (Own(x, s) /\ (x = a => c # 0))
  BY <1>3, <1>7 DEF Own
<1>9. \A x \in Blocks, s \in Timers, i \in Nat : Waits(x, s, i) /\ s # t => Waits(x, s, i)'
  BY <1>3, <1>6, <1>7, <1>8 DEF Waits, Own
<1>10. OneBlock' /\ Filled' /\ Rested'
  BY <1>1, <1>2, <1>3, <1>5, <1>8 DEF WalkInv, OneBlock, Filled, Rested
<1>11. Listed'
  <2>1. c # 0 => Waits(a, t, 0)'
    BY <1>1, <1>3, <1>4, <1>6, <1>7, <1>8 DEF Waits
  <2> QED
    <3> SUFFICES ASSUME NEW s \in Timers, st'[s] = "ok" PROVE \E x \in Blocks : Waits(x, s, 0)'
      BY DEF Listed
    <3>1. CASE s = t
      BY <1>5, <2>1, <3>1
    <3>2. CASE s # t
      <4>1. PICK x \in Blocks : Waits(x, s, 0)
        BY <1>5, <3>2 DEF WalkInv, Listed
      <4> QED
        BY <1>9, <3>2, <4>1
    <3> QED
      BY <3>1, <3>2
<1>12. ASSUME NEW s, thr.pc = "call", Own(thr.data, s), s # t PROVE Own(thr.data, s)'
  <2>1. thr.data \in Blocks \ {a}
    BY <1>3, <1>12 DEF Types, Own
  <2> QED
    BY <1>1, <1>7, <1>12, <2>1 DEF Own
<1>13. t \notin must
  BY <1>3 DEF WalkInv, Owed
<1>14. Owed'
  <2> SUFFICES ASSUME NEW s \in must
               PROVE  /\ st'[s] = "ok"
                      /\ \/ s \in ran \/ (thr.pc = "call" /\ Own(thr.data, s))'
                         \/ \E x \in Blocks : Waits(x, s, thr.idx)'
    BY <1>1 DEF Owed
  <2>1. s # t /\ s \in Timers /\ st'[s] = "ok"
    BY <1>5, <1>13 DEF WalkInv, Owed, Types
  <2>2. ASSUME NEW x \in Blocks, Waits(x, s, thr.idx) PROVE Waits(x, s, thr.idx)'
    <3>1. PICK i \in Nat : i = thr.idx /\ i = thr'.idx
      BY <1>1 DEF Types
    <3>2. Waits(x, s, i)'
      BY <1>9, <2>1, <2>2, <3>1
    <3> QED
      BY <3>1, <3>2 DEF Waits
  <2> QED
    BY <1>1, <1>12, <2>1, <2>2 DEF WalkInv, Owed
<1> QED
  BY <1>10, <1>11, <1>14 DEF WalkInv

\* popTimer marks the block of its own timer only.
LEMMA PopWalk ==
  ASSUME NEW t \in Timers, Types, WalkInv, PopTimer(t)
  PROVE  WalkInv'
<1>1. /\ UNCHANGED <<thr, list, app, ran>> /\ app.pc = "idle" /\ must' = must \ {t}
      /\ st' = [st EXCEPT ![t] = "popped"]
  BY DEF PopTimer
<1>2. PICK b \in Blocks : Own(b, t) /\ blk' = [blk EXCEPT ![b].flag = 0]
  BY Zenon DEF PopTimer, Own
<1>3. st'[t] = "popped" /\ \A s \in Timers \ {t} : st'[s] = st[s]
  BY <1>1 DEF Types
<1>4. /\ \A x \in Blocks : blk'[x].used = blk[x].used /\ blk'[x].fn = blk[x].fn
      /\ \A x \in Blocks \ {b} : blk'[x] = blk[x]
  BY <1>2 DEF Types
<1>5. \A x \in Blocks : \A s : Own(x, s)' <=> Own(x, s)
  BY <1>4 DEF Own
<1>6. \A x \in Blocks : \A s, i : Waits(x, s, i) /\ s # t => Waits(x, s, i)'
  BY <1>1, <1>2, <1>4, <1>5 DEF Waits, Own
<1>7. OneBlock' /\ Filled' /\ Rested'
  BY <1>1, <1>3, <1>5 DEF WalkInv, OneBlock, Filled, Rested
<1>8. Listed'
  BY <1>3, <1>6 DEF WalkInv, Listed
<1>9. Owed'
  BY <1>1, <1>3, <1>5, <1>6 DEF WalkInv, Owed, Types
<1> QED
  BY <1>7, <1>8, <1>9 DEF WalkInv

\* Time passes beside the walk.
LEMMA TickWalk ==
  ASSUME Types, WalkInv, Tick \/ UNCHANGED schedVars
  PROVE  WalkInv'
<1>1. UNCHANGED <<list, blk, app, st, must, ran>>
  BY DEF Tick, schedVars
<1>2. thr'.pc = thr.pc /\ thr'.idx = thr.idx /\ thr'.data = thr.data
  BY DEF Tick, schedVars, Types
<1>3. \A b, t, i : (Own(b, t)' <=> Own(b, t)) /\ (Waits(b, t, i)' <=> Waits(b, t, i))
  BY <1>1 DEF Own, Waits
<1> QED
  BY <1>1, <1>2, <1>3 DEF WalkInv, OneBlock, Filled, Listed, Owed, Rested, Own

\* Every step keeps the walk's invariant.
LEMMA WalkStep == Types /\ WalkInv /\ [Next]_schedVars => WalkInv'
BY WakeWalk, VisitWalk, CallWalk, EndRoundWalk, PutWalk, AddWalk, PopWalk, TickWalk, Zenon DEF Next, Thread

\* A round that ends has called every timer that it had to call: the walk leaves
\* out no accepted timer, whatever putTimer and popTimer do to the list, and
\* for any numbers of timers, blocks and cells.
THEOREM RoundsAreComplete == Spec => []AcceptedTimersRun
<1>1. Init => Types /\ WalkInv
  BY InitTime, InitWalk, Zenon DEF TimeInv
<1>2. Types /\ WalkInv /\ [Next]_schedVars => (Types /\ WalkInv)'
  BY TypesStep, WalkStep, Zenon
<1>3. Types /\ WalkInv => AcceptedTimersRun
  <2> SUFFICES ASSUME Types, WalkInv, thr.pc = "walk", GetNext(thr.idx) = Cells, NEW t \in must
               PROVE  t \in ran
    BY DEF AcceptedTimersRun
  <2>1. ASSUME NEW b \in Blocks, Waits(b, t, thr.idx) PROVE FALSE
    <3>1. PICK c \in thr.idx .. Cells - 1 : list[c] = b
      BY <2>1 DEF Waits
    <3>2. thr.idx \in Nat /\ list[c] # NULL
      BY <3>1, PoolAssumption DEF Types
    <3>3. Cells <= c
      BY <3>2, NextCell, Zenon
    <3> QED
      BY <3>2, <3>3, PoolAssumption
  <2> QED
    BY <2>1 DEF WalkInv, Owed
<1> QED
  BY <1>1, <1>2, <1>3, PTL DEF Spec
=============================================================================
