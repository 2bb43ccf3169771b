----------------------------- MODULE LogWriter ------------------------------
(***************************************************************************)
(* The asynchronous log: application threads queue lines on a CLogger      *)
(* (common/src/comLogger.cpp), and the CSTLogger thread that owns the      *)
(* logger (common/src/comCore.cpp) takes them, writes them and rolls the   *)
(* logger's file over.  m_nLogFlag is read and written back without        *)
(* synchronisation by both sides, so a change of it is a load and a store. *)
(***************************************************************************)
EXTENDS Naturals, Sequences, SequencesExt

CONSTANTS
    Apps,       \* application threads
    Writers,    \* CSTLogger threads
    Loggers,    \* CLogger objects
    Stl,        \* the writer of each logger (m_nStlNo)
    SizeLimit,  \* m_nSizeLimit; 0 is no limit
    LineSizes,  \* the lengths a line may have
    NoFile,     \* no file, no handle (a model value)
    Overwrites, \* FILEMOVE replaces an existing file (rename, not MoveFile)
    MaxLines, MaxMinutes, MaxToggles, MaxCrashes, MaxFails  \* bounds

Flag == {"COMPLETE", "OPEN", "ENABLE"}
Name == (0 .. MaxMinutes) \X (0 .. MaxLines)    \* the day and the number in a file's name

VARIABLES
    daily,      \* LOG_FLAG_DAILY is set, otherwise LOG_FLAG_FILE
    log,        \* each CLogger: m_nLogFlag, m_hFile, m_szFName, m_nLogSize, m_nSeq, m_sLogQueue
    disk,       \* of each logger, the lines in each file by name; NoFile where there is none
    wr,         \* each CSTLogger: m_pLoggerList, m_pComandList, cThreadCond and where the thread is
    app,        \* where each application thread is
    clock,      \* the time of day, [day, minute]
    today,      \* gs_today_time, one for the process
    count,      \* ghost: lines, toggles, crashes and failed opens so far
    dropped     \* ghost: lines LogPrint has taken and not written

logVars == <<daily, log, disk, wr, app, clock, today, count, dropped>>

\* the file of a day, and the n-th file rotated out of it
FileName(day, n) == <<IF daily THEN day ELSE 0, n>>

FreshLogger(f) == [flags |-> Flag, handle |-> f, fname |-> f, size |-> 0, seq |-> 0, queue |-> <<>>]

FreshWriter(w) == [listed |-> SetToSeq({l \in Loggers : Stl[l] = w}), cmds |-> <<>>, signal |-> FALSE,
                   pc |-> "wait", visit |-> <<>>, todo |-> <<>>, word |-> NoFile, change |-> {}]

\* An open that truncates the file.
TouchTruncates(files, f) == [files EXCEPT ![f] = <<>>]

Touch(files, f) == [files EXCEPT ![f] = IF @ = NoFile THEN <<>> ELSE @]

\* initSystemFile, start and initLogger: every logger is open, enabled and listed
Init ==
    /\ daily \in BOOLEAN
    /\ log = [l \in Loggers |-> FreshLogger(<<0, 0>>)]
    /\ disk = [l \in Loggers |-> Touch([f \in Name |-> NoFile], <<0, 0>>)]
    /\ wr = [w \in Writers |-> FreshWriter(w)]
    /\ app = [a \in Apps |-> [pc |-> "idle"]]
    /\ clock = [day |-> 0, minute |-> 0] /\ today = clock
    /\ count = [line |-> 0, toggle |-> 0, crash |-> 0, fail |-> 0]
    /\ dropped = {}

-----------------------------------------------------------------------------
\* Application threads

\* PutLogQueue tests IS_LOG_ENABLE, formats the line, and only then queues it
PutLogQueue(a, l) ==
    /\ app[a].pc = "idle" /\ "ENABLE" \in log[l].flags /\ count.line < MaxLines
    /\ app' = [app EXCEPT ![a] = [pc |-> "push", l |-> l]]
    /\ UNCHANGED <<daily, log, disk, wr, clock, today, count, dropped>>

\* A push without a signal.
PutQueueSilent(a) ==
    /\ app[a].pc = "push" /\ count.line < MaxLines
    /\ count' = [count EXCEPT !.line = @ + 1]
    /\ log' = [log EXCEPT ![app[a].l].queue = Append(@, count'.line)]
    /\ app' = [app EXCEPT ![a] = [pc |-> "idle"]]
    /\ UNCHANGED <<daily, disk, wr, clock, today, dropped>>

\* putQueue: push, then signal the writer
PutQueue(a) ==
    /\ app[a].pc = "push" /\ count.line < MaxLines
    /\ count' = [count EXCEPT !.line = @ + 1]
    /\ log' = [log EXCEPT ![app[a].l].queue = Append(@, count'.line)]
    /\ wr' = [wr EXCEPT ![Stl[app[a].l]].signal = TRUE]
    /\ app' = [app EXCEPT ![a] = [pc |-> "idle"]]
    /\ UNCHANGED <<daily, disk, clock, today, dropped>>

\* setLoggerEnable and setLoggerDisable load m_nLogFlag ...
SetLogger(a, l, code) ==
    /\ app[a].pc = "idle" /\ count.toggle < MaxToggles
    /\ count' = [count EXCEPT !.toggle = @ + 1]
    /\ app' = [app EXCEPT ![a] = [pc |-> "store", l |-> l, code |-> code,
            word |-> IF code = "ENABLE" THEN log[l].flags \cup {"ENABLE"} ELSE log[l].flags \ {"ENABLE"}]]
    /\ UNCHANGED <<daily, log, disk, wr, clock, today, dropped>>

\* ... store it ...
StoreFlag(a) ==
    /\ app[a].pc = "store"
    /\ log' = [log EXCEPT ![app[a].l].flags = app[a].word]
    /\ app' = [app EXCEPT ![a] = [pc |-> "command", l |-> app[a].l, code |-> app[a].code]]
    /\ UNCHANGED <<daily, disk, wr, clock, today, count, dropped>>

\* ... and push the command and signal the writer
PushCommand(a) ==
    /\ app[a].pc = "command"
    /\ wr' = [wr EXCEPT ![Stl[app[a].l]].cmds = Append(@, [l |-> app[a].l, code |-> app[a].code]),
                        ![Stl[app[a].l]].signal = TRUE]
    /\ app' = [app EXCEPT ![a] = [pc |-> "idle"]]
    /\ UNCHANGED <<daily, log, disk, clock, today, count, dropped>>

-----------------------------------------------------------------------------
\* The writer thread.  A handler leaves its changes of m_nLogFlag in todo, each
\* of them a load and a store; everything else it touches is the writer's own.

Ready(w, pc) == wr[w].pc = pc /\ wr[w].todo = <<>>
Set(flag, l) == [set |-> {flag}, clear |-> {}, l |-> l]
Clear(flag, l) == [set |-> {}, clear |-> {flag}, l |-> l]

LoadFlag(w) ==
    /\ wr[w].todo # <<>> /\ wr[w].word = NoFile
    /\ LET d == Head(wr[w].todo)
       IN  wr' = [wr EXCEPT ![w].word = (log[d.l].flags \cup d.set) \ d.clear]
    /\ UNCHANGED <<daily, log, disk, app, clock, today, count, dropped>>

WriteFlag(w) ==
    /\ wr[w].todo # <<>> /\ wr[w].word # NoFile
    /\ log' = [log EXCEPT ![Head(wr[w].todo).l].flags = wr[w].word]
    /\ wr' = [wr EXCEPT ![w].todo = Tail(@), ![w].word = NoFile]
    /\ UNCHANGED <<daily, disk, app, clock, today, count, dropped>>

CloseOps(l) == IF log[l].handle = NoFile THEN <<>> ELSE <<Clear("OPEN", l)>>

\* __openLogger(f, n): close; rename to f and keep the name when n # 0; open for
\* append.  The open may fail: then the logger has no file.  s is the m_nSeq to keep.
OpenLogger(l, f, n, s, ok) ==
    LET old   == log[l].fname
        open  == IF n = 0 THEN f ELSE old
        moves == n # 0 /\ disk[l][old] # NoFile /\ (Overwrites \/ disk[l][f] = NoFile)
        moved == IF moves THEN [disk[l] EXCEPT ![f] = disk[l][old], ![old] = NoFile] ELSE disk[l]
    IN  /\ ok \/ count.fail < MaxFails
        /\ count' = [count EXCEPT !.fail = IF ok THEN @ ELSE @ + 1]
        /\ disk' = [disk EXCEPT ![l] = IF ok THEN Touch(moved, open) ELSE moved]
        /\ log' = [log EXCEPT ![l] = IF ok THEN [@ EXCEPT !.handle = open, !.fname = open, !.size = 0, !.seq = s]
                                     ELSE [@ EXCEPT !.handle = NoFile, !.seq = s]]

\* The flag set before the old file is closed.
OpenOpsReversed(l, ok) == (IF ok THEN <<Set("OPEN", l)>> ELSE <<>>) \o CloseOps(l)

OpenOps(l, ok) == CloseOps(l) \o IF ok THEN <<Set("OPEN", l)>> ELSE <<>>

\* A writer that takes the newest line first.
LogPrintNewest(l) ==
    LET f == log[l].handle  line == Last(log[l].queue)
        written == f # NoFile /\ "OPEN" \in log[l].flags
    IN  /\ \E n \in LineSizes : log' = [log EXCEPT ![l].queue = Front(@), ![l].size = @ + n]
        /\ disk' = IF written THEN [disk EXCEPT ![l][f] = Append(@, line)] ELSE disk
        /\ dropped' = IF written THEN dropped ELSE dropped \cup {line}

\* LogPrint and addLogSize on the head of l's queue
LogPrint(l) ==
    LET f == log[l].handle  line == Head(log[l].queue)
        written == f # NoFile /\ "OPEN" \in log[l].flags
    IN  /\ \E n \in LineSizes : log' = [log EXCEPT ![l].queue = Tail(@), ![l].size = @ + n]
        /\ disk' = IF written THEN [disk EXCEPT ![l][f] = Append(@, line)] ELSE disk
        /\ dropped' = IF written THEN dropped ELSE dropped \cup {line}

\* ProcThread: an infinite wait, then loggerLoop
Wake(w) ==
    /\ Ready(w, "wait") /\ wr[w].signal
    /\ wr' = [wr EXCEPT ![w].signal = FALSE, ![w].pc = "command"]
    /\ UNCHANGED <<daily, log, disk, app, clock, today, count, dropped>>

\* IsCommand takes an enable command: procLoggerEnable opens the logger unless it
\* is open and lists it unless it is listed, but only when IS_LOG_ENABLE is clear
ProcLoggerEnable(w) ==
    LET c     == Head(wr[w].cmds)
        flags == log[c.l].flags
        lists == "ENABLE" \notin flags /\ ~Contains(wr[w].listed, c.l)
        opens == flags \cap {"ENABLE", "OPEN"} = {}
        mark  == IF lists THEN <<Set("ENABLE", c.l)>> ELSE <<>>
    IN  /\ Ready(w, "command") /\ wr[w].cmds # <<>> /\ c.code = "ENABLE"
        /\ \E ok \in BOOLEAN :
            /\ IF opens THEN OpenLogger(c.l, FileName(today.day, 0), 0, log[c.l].seq, ok) ELSE ok /\ UNCHANGED <<log, disk, count>>
            /\ wr' = [wr EXCEPT ![w].cmds = Tail(@),
                                ![w].listed = IF lists THEN Append(@, c.l) ELSE @,
                                ![w].todo = IF opens THEN OpenOps(c.l, ok) \o mark ELSE mark]
        /\ UNCHANGED <<daily, app, clock, today, dropped>>

\* IsCommand takes a disable command: porcLoggerDisable writes what is queued ...
StartPurge(w) ==
    /\ Ready(w, "command") /\ wr[w].cmds # <<>> /\ Head(wr[w].cmds).code = "DISABLE"
    /\ wr' = [wr EXCEPT ![w].cmds = Tail(@), ![w].pc = "purge", ![w].visit = <<Head(wr[w].cmds).l>>]
    /\ UNCHANGED <<daily, log, disk, app, clock, today, count, dropped>>

\* ... then clears the flags, closes the file and unlists the logger
PorcLoggerDisable(w) ==
    LET l == wr[w].visit[1]
    IN  /\ Ready(w, "purge") /\ log[l].queue = <<>>
        /\ wr' = [wr EXCEPT ![w].pc = "command", ![w].visit = <<>>, ![w].listed = Remove(@, l),
                            ![w].todo = <<Clear("ENABLE", l)>> \o CloseOps(l) \o <<Clear("ENABLE", l)>>]
        /\ log' = [log EXCEPT ![l].handle = NoFile]
        /\ UNCHANGED <<daily, disk, app, clock, today, count, dropped>>

\* no command is left: GetQueue goes over the listed loggers
StartDrain(w) ==
    /\ Ready(w, "command") /\ wr[w].cmds = <<>>
    /\ wr' = [wr EXCEPT ![w].pc = "drain", ![w].visit = wr[w].listed]
    /\ UNCHANGED <<daily, log, disk, app, clock, today, count, dropped>>

\* the loops of GetQueue and porcLoggerDisable: pop a line and write it
WriteLine(w) ==
    /\ Ready(w, "drain") \/ Ready(w, "purge")
    /\ wr[w].visit # <<>> /\ log[wr[w].visit[1]].queue # <<>>
    /\ LogPrint(wr[w].visit[1])
    /\ UNCHANGED <<daily, wr, app, clock, today, count>>

NextLogger(w) ==
    /\ Ready(w, "drain") /\ wr[w].visit # <<>> /\ log[wr[w].visit[1]].queue = <<>>
    /\ wr' = [wr EXCEPT ![w].visit = Tail(@)]
    /\ UNCHANGED <<daily, log, disk, app, clock, today, count, dropped>>

\* TimeProc: which parts of the time differ from gs_today_time ...
TimeCompare(w) ==
    /\ Ready(w, "drain") /\ wr[w].visit = <<>>
    /\ wr' = [wr EXCEPT ![w].pc = "time", ![w].change = {u \in {"day", "minute"} : clock[u] # today[u]}]
    /\ UNCHANGED <<daily, log, disk, app, clock, today, count, dropped>>

\* TimeProc that starts after the first logger.
TimeUpdateTail(w) ==
    /\ Ready(w, "time")
    /\ today' = [u \in {"day", "minute"} |-> IF u \in wr[w].change THEN clock[u] ELSE today[u]]
    /\ wr' = [wr EXCEPT ![w].pc = "roll", ![w].visit = IF wr[w].change = {} THEN <<>> ELSE Tail(wr[w].listed)]
    /\ UNCHANGED <<daily, log, disk, app, clock, count, dropped>>

\* ... which it writes back, and if any did every listed logger is looked at
TimeUpdate(w) ==
    /\ Ready(w, "time")
    /\ today' = [u \in {"day", "minute"} |-> IF u \in wr[w].change THEN clock[u] ELSE today[u]]
    /\ wr' = [wr EXCEPT ![w].pc = "roll", ![w].visit = IF wr[w].change = {} THEN <<>> ELSE wr[w].listed]
    /\ UNCHANGED <<daily, log, disk, app, clock, count, dropped>>

\* checkChangeProc on the next logger: the new day's file, or procFileSizeOver
CheckChangeProc(w) ==
    LET l     == wr[w].visit[1]
        dated == daily /\ "day" \in wr[w].change
        over  == ~dated /\ SizeLimit # 0 /\ SizeLimit < log[l].size
        n     == IF dated THEN 0 ELSE log[l].seq + 1
    IN  /\ Ready(w, "roll") /\ wr[w].visit # <<>>
        /\ \E ok \in BOOLEAN :
            /\ IF dated \/ over THEN OpenLogger(l, FileName(today.day, n), n, n, ok)
               ELSE ok /\ UNCHANGED <<log, disk, count>>
            /\ wr' = [wr EXCEPT ![w].visit = Tail(@), ![w].todo = IF dated \/ over THEN OpenOps(l, ok) ELSE <<>>]
        /\ UNCHANGED <<daily, app, clock, today, dropped>>

\* the end of loggerLoop: back to the wait
Sleep(w) ==
    /\ Ready(w, "roll") /\ wr[w].visit = <<>>
    /\ wr' = [wr EXCEPT ![w].pc = "wait", ![w].change = {}]
    /\ UNCHANGED <<daily, log, disk, app, clock, today, count, dropped>>

WriterStep(w) ==
    \/ Wake(w) \/ LoadFlag(w) \/ WriteFlag(w) \/ ProcLoggerEnable(w) \/ StartPurge(w) \/ PorcLoggerDisable(w)
    \/ StartDrain(w) \/ WriteLine(w) \/ NextLogger(w) \/ TimeCompare(w) \/ TimeUpdate(w) \/ CheckChangeProc(w) \/ Sleep(w)

AppStep(a) ==
    \/ \E l \in Loggers : PutLogQueue(a, l) \/ \E code \in {"ENABLE", "DISABLE"} : SetLogger(a, l, code)
    \/ PutQueue(a) \/ StoreFlag(a) \/ PushCommand(a)

\* the clock: another minute, which may be the first of another day
Tick ==
    /\ clock.minute < MaxMinutes
    /\ \E d \in {0, 1} : clock' = [day |-> clock.day + d, minute |-> clock.minute + 1]
    /\ UNCHANGED <<daily, log, disk, wr, app, today, count, dropped>>

\* the process ends without notice and is started again; only the files survive
Restart ==
    LET f == FileName(clock.day, 0)
    IN  /\ count.crash < MaxCrashes
        /\ count' = [count EXCEPT !.crash = @ + 1]
        /\ log' = [l \in Loggers |-> FreshLogger(f)]
        /\ disk' = [l \in Loggers |-> Touch(disk[l], f)]
        /\ wr' = [w \in Writers |-> FreshWriter(w)]
        /\ app' = [a \in Apps |-> [pc |-> "idle"]]
        /\ today' = clock
        /\ UNCHANGED <<daily, clock, dropped>>

Next == (\E w \in Writers : WriterStep(w)) \/ (\E a \in Apps : AppStep(a)) \/ Tick \/ Restart

\* the operating system runs every thread that can run
Spec == Init /\ [][Next]_logVars /\ \A w \in Writers : WF_logVars(WriterStep(w))

-----------------------------------------------------------------------------
\* Properties

LinesOf(l) == UNION {ToSet(disk[l][f]) : f \in {g \in Name : disk[l][g] # NoFile}}

Undisturbed == count.toggle = 0 /\ count.fail = 0

\* Once a line is in a file it stays in a file: no roll-over, no rename that
\* meets a file of an earlier run of the process, and no restart loses it
\* (__openLogger, procFileSizeOver, whose number starts again at zero).
WrittenStaysWritten == [][\A l \in Loggers : LinesOf(l) \subseteq LinesOf(l)']_logVars

\* Every file holds lines in the order they were queued and no line is written
\* twice, over drains, purges and re-opened files (GetQueue, porcLoggerDisable).
FilesInOrder ==
    \A l \in Loggers : \A f, g \in Name : disk[l][f] # NoFile /\ disk[l][g] # NoFile =>
        /\ \A i, j \in DOMAIN disk[l][f] : i < j => disk[l][f][i] < disk[l][f][j]
        /\ f # g => ToSet(disk[l][f]) \cap ToSet(disk[l][g]) = {}

\* While nobody calls setLoggerEnable or setLoggerDisable and every file opens,
\* each line LogPrint takes reaches a file: IS_LOG_OPEN is clear only inside
\* __openLogger (the load and store of a toggle may undo its setLogFlag).
NoneDropped == Undisturbed => dropped = {}

\* At the end of a writer's round each daily logger it lists and has open is in the
\* file of the day gs_today_time gives (TimeProc and checkChangeProc roll them all),
\* unless an open failed or a toggle intervened: the next rotation may then re-open
\* the old day's name.
RolledOver ==
    \A w \in Writers : Ready(w, "roll") /\ wr[w].visit = <<>> /\ Undisturbed =>
        \A l \in ToSet(wr[w].listed) : log[l].handle \in {NoFile, FileName(today.day, 0)}

\* A line queued on a listed logger is taken by its writer, however pushes,
\* signals and the writer's round interleave (putQueue signals after the push).
LinesTaken ==
    \A l \in Loggers : (log[l].queue # <<>> /\ Contains(wr[Stl[l]].listed, l))
                         ~> (log[l].queue = <<>> \/ ~Contains(wr[Stl[l]].listed, l))

\* Lines are in order and none is twice in the files of a logger; while nobody
\* toggles it and its files open, each line taken reaches the file of its day.
LinesReachFiles == FilesInOrder /\ NoneDropped /\ RolledOver
=============================================================================
