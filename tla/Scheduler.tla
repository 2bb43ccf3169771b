----------------------------- MODULE Scheduler ------------------------------
(***************************************************************************)
(* CScheduler of common/src/comCore.cpp: a thread that sleeps until the    *)
(* goal on an unsigned tick counter that wraps around, calls the function  *)
(* of every listed STIntervalInfo, and moves the goal on by m_nMilliSecWait*)
(* The application puts and pops timers while the thread walks the list.   *)
(* Time is kept relative to the goal, so that the thread runs for ever in  *)
(* finitely many states.  MemList models the list's own races: here an add *)
(* or a del is one step, and add takes any empty cell (the hint it starts  *)
(* from is not initialised).                                               *)
(***************************************************************************)
EXTENDS Integers, FiniteSets

CONSTANTS
    Wait,       \* m_nMilliSecWait
    Ticks,      \* 2^32, the number of values of TICKTIME_MILLISEC
    Boot,       \* the value of the tick counter when the scheduler starts
    Timers,     \* the functions the application puts
    Blocks,     \* the STIntervalInfo of m_pIntervalPool
    Cells,      \* the number of cells of m_pTimeList
    NULL,       \* no block, no function (a model value)
    MaxStall    \* bound: ticks lost to late wake-ups and slow functions

ASSUME WaitAssumption ==
    /\ Wait \in Nat \ {0, 1} /\ MaxStall \in Nat /\ Ticks \in Nat
    /\ 2 * (Wait + MaxStall + 2) <= Ticks
    /\ Boot \in 0 .. Ticks - 1
ASSUME PoolAssumption == Cells \in Nat /\ NULL \notin Blocks \cup Timers

VARIABLES
    tick,       \* CURRENT_TIME
    goal,       \* m_nMillSecGoal
    ahead,      \* ghost: how far the goal really is in the future
    thr,        \* the thread: pc, time left to sleep, idx, the block in hand
    list,       \* m_pTimeList: the block of each cell
    blk,        \* each block: in use, nFlag, pFunction
    app,        \* the application thread in putTimer
    st,         \* ghost: what each timer's caller knows: new, ok, err, popped
    must, ran,  \* ghost: timers this round has to call, and has called
    stall       \* ghost: ticks lost so far

schedVars == <<tick, goal, ahead, thr, list, blk, app, st, must, ran, stall>>

Half == Wait \div 2

\* The difference left unsigned.
DiffUnsigned(a, b) == (a - b) % Ticks

\* the unsigned difference a - b, converted to int
Diff(a, b) == LET d == (a - b) % Ticks IN IF d < Ticks \div 2 THEN d ELSE d - Ticks

\* the first filled cell from i on (getNext); Cells when there is none
GetNext(i) ==
    LET filled == {c \in i .. Cells - 1 : list[c] # NULL}
    IN  IF filled = {} THEN Cells ELSE CHOOSE c \in filled : \A d \in filled : c <= d

\* CScheduler::init and start
Init ==
    /\ tick = Boot
    /\ goal = (tick + Wait) % Ticks /\ ahead = Wait
    /\ thr = [pc |-> "sleep", left |-> Half, idx |-> 0, data |-> NULL]
    /\ list = [c \in 0 .. Cells - 1 |-> NULL]
    /\ blk = [b \in Blocks |-> [used |-> FALSE, flag |-> 0, fn |-> NULL]]
    /\ app = [pc |-> "idle"]
    /\ st = [t \in Timers |-> "new"]
    /\ must = {} /\ ran = {} /\ stall = 0

-----------------------------------------------------------------------------
\* The thread

SleepFor(ms) == [pc |-> "sleep", left |-> ms, idx |-> 0, data |-> NULL]

\* A loop that starts its round after any time-out.
WakeEarly ==
    /\ thr.pc = "sleep" /\ thr.left = 0
    /\ thr' = [thr EXCEPT !.pc = "walk"]
    /\ must' = {t \in Timers : st[t] = "ok"}
    /\ UNCHANGED <<tick, goal, ahead, list, blk, app, st, ran, stall>>

\* the wait times out; schedulerLoop compares the goal with the clock
Wake ==
    /\ thr.pc = "sleep" /\ thr.left = 0
    /\ IF 1 < Diff(goal, tick)
       THEN thr' = SleepFor(Diff(goal, tick)) /\ UNCHANGED must
       ELSE /\ thr' = [thr EXCEPT !.pc = "walk"]
            /\ must' = {t \in Timers : st[t] = "ok"}
    /\ UNCHANGED <<tick, goal, ahead, list, blk, app, st, ran, stall>>

\* A walk that steps over the cell behind each block it has found.
VisitSkips ==
    LET c == GetNext(thr.idx)
        b == list[c]
    IN  /\ thr.pc = "walk" /\ c < Cells
        /\ IF blk[b].flag = 0
           THEN list' = [list EXCEPT ![c] = NULL] /\ thr' = [thr EXCEPT !.idx = c + 2]
           ELSE UNCHANGED list /\ thr' = [thr EXCEPT !.idx = c + 2, !.pc = "call", !.data = b]
        /\ UNCHANGED <<tick, goal, ahead, blk, app, st, must, ran, stall>>

\* timeNext and the test of nFlag; deleteTime takes the block out of the first cell that holds it
Visit ==
    LET c == GetNext(thr.idx)
        b == list[c]
        d == CHOOSE x \in 0 .. Cells - 1 : list[x] = b /\ \A y \in 0 .. x - 1 : list[y] # b
    IN  /\ thr.pc = "walk" /\ c < Cells
        /\ IF blk[b].flag = 0
           THEN list' = [list EXCEPT ![d] = NULL] /\ thr' = [thr EXCEPT !.idx = c + 1]
           ELSE UNCHANGED list /\ thr' = [thr EXCEPT !.idx = c + 1, !.pc = "call", !.data = b]
        /\ UNCHANGED <<tick, goal, ahead, blk, app, st, must, ran, stall>>

\* pData->pFunction(pData); the function runs for as long as it likes
Call ==
    /\ thr.pc = "call"
    /\ ran' = ran \cup {blk[thr.data].fn}
    /\ thr' = [thr EXCEPT !.pc = "walk", !.data = NULL]
    /\ UNCHANGED <<tick, goal, ahead, list, blk, app, st, must, stall>>

\* A round that is followed by a whole period of sleep.
EndRoundFull ==
    /\ thr.pc = "walk" /\ GetNext(thr.idx) = Cells
    /\ goal' = (goal + Wait) % Ticks /\ ahead' = ahead + Wait
    /\ thr' = SleepFor(Wait) /\ must' = {} /\ ran' = {}
    /\ UNCHANGED <<tick, list, blk, app, st, stall>>

\* setGoal, and half a period of sleep
EndRound ==
    /\ thr.pc = "walk" /\ GetNext(thr.idx) = Cells
    /\ goal' = (goal + Wait) % Ticks /\ ahead' = ahead + Wait
    /\ thr' = SleepFor(Half) /\ must' = {} /\ ran' = {}
    /\ UNCHANGED <<tick, list, blk, app, st, stall>>

-----------------------------------------------------------------------------
\* The application and the clock

\* newTime, and the fields of the block
PutTimer(t) ==
    /\ app.pc = "idle" /\ st[t] = "new"
    /\ IF \E b \in Blocks : ~blk[b].used
       THEN \E b \in Blocks :
            /\ ~blk[b].used
            /\ blk' = [blk EXCEPT ![b] = [used |-> TRUE, flag |-> 1, fn |-> t]]
            /\ app' = [pc |-> "add", b |-> b, t |-> t]
            /\ UNCHANGED st
       ELSE st' = [st EXCEPT ![t] = "err"] /\ UNCHANGED <<blk, app>>
    /\ UNCHANGED <<tick, goal, ahead, thr, list, must, ran, stall>>

\* addTime; its result is a cell, and putTimer takes cell 0 for a failure
AddTime ==
    /\ app.pc = "add"
    /\ \E c \in 0 .. Cells - 1 :
        /\ list[c] = NULL
        /\ list' = [list EXCEPT ![c] = app.b]
        /\ st' = [st EXCEPT ![app.t] = IF c = 0 THEN "err" ELSE "ok"]
        /\ blk' = [blk EXCEPT ![app.b].used = c # 0]
    /\ app' = [pc |-> "idle"]
    /\ UNCHANGED <<tick, goal, ahead, thr, must, ran, stall>>

PopTimer(t) ==
    /\ app.pc = "idle" /\ st[t] = "ok"
    /\ \E b \in Blocks : blk[b].used /\ blk[b].fn = t /\ blk' = [blk EXCEPT ![b].flag = 0]
    /\ st' = [st EXCEPT ![t] = "popped"] /\ must' = must \ {t}
    /\ UNCHANGED <<tick, goal, ahead, thr, list, app, ran, stall>>

\* a millisecond passes: in the thread's sleep, or lost to it
Tick ==
    /\ tick' = (tick + 1) % Ticks /\ ahead' = ahead - 1
    /\ IF thr.pc = "sleep" /\ 0 < thr.left
       THEN thr' = [thr EXCEPT !.left = @ - 1] /\ UNCHANGED stall
       ELSE stall < MaxStall /\ stall' = stall + 1 /\ UNCHANGED thr
    /\ UNCHANGED <<goal, list, blk, app, st, must, ran>>

Thread == Wake \/ Visit \/ Call \/ EndRound

Next == Thread \/ AddTime \/ Tick \/ \E t \in Timers : PutTimer(t) \/ PopTimer(t)

Spec == Init /\ [][Next]_schedVars /\ WF_schedVars(Thread) /\ WF_schedVars(Tick)

-----------------------------------------------------------------------------
\* Properties

\* The int that schedulerLoop computes from the unsigned goal and the unsigned
\* clock is the true distance to the goal, also while one of them has wrapped
\* around and the other has not, and also when the thread is late.
DistanceIsTrue == Diff(goal, tick) = ahead

\* No round starts more than a millisecond before its goal, and after a late
\* one the next goal stays on the grid start + n * TIME_WAIT: the thread never
\* owes more than it has been held up for.
NeverEarly == (thr.pc # "sleep" => ahead <= 1) /\ ahead <= Wait + 1 /\ -stall <= ahead

\* When a round ends it has called every timer that putTimer had accepted
\* before the round and that has not been popped, although the application
\* adds, pops and reuses blocks while the thread walks the list.
AcceptedTimersRun == thr.pc = "walk" /\ GetNext(thr.idx) = Cells => must \subseteq ran

\* A scheduler that was held up catches up: since it sleeps only half a period
\* after a round, it is in the end on its grid again and stays on it.
CatchesUp == <>[](ahead >= 0)

\* The scheduler keeps time: its unsigned arithmetic gives the true distance to
\* the goal, and no round is early or owes more than the thread was held up for.
KeepsTime == DistanceIsTrue /\ NeverEarly
=============================================================================
