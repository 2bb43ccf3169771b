----------------------------- MODULE AppendOnly -----------------------------
(***************************************************************************)
(* The append only file of a Redis server (aof.c): commands are fed to a   *)
(* buffer that is written before the event loop sleeps; a thread (bio.c)   *)
(* syncs the file; a child rewrites it while the parent sends the commands *)
(* that come meanwhile through a pipe; the AOF is turned off and on; the   *)
(* process is killed or the power fails, and the file is loaded again.     *)
(* The data set is the sequence of the writes that made it.                *)
(***************************************************************************)
EXTENDS Integers, Sequences, FiniteSetsExt, SequencesExt

CONSTANTS AofDbs, AofWrites,  \* numbers of databases, bound of the data set
          MaxJobs, MaxStarts  \* bounds of the fsync jobs that wait, of starts

VARIABLE aof  \* the server, its child, its threads and the disk

NoChild == [phase |-> "none", base |-> <<>>, pipe |-> <<>>, got |-> <<>>]

AofInit ==
  \E policy \in {"always", "everysec"} :
    aof = [policy |-> policy, up |-> TRUE, starts |-> 1, data |-> <<>>,
           owed |-> FALSE, acked |-> <<>>,  \* "always": writes whose clients got a reply
           state |-> "on", fd |-> "open", seldb |-> -1, buf |-> <<>>,
           status |-> "ok", sched |-> FALSE, saving |-> FALSE,
           later |-> TRUE,                \* unixtime > aof_last_fsync
           postponed |-> "no",            \* since less or more than 2 seconds
           jobs |-> <<>>,                 \* BIO_AOF_FSYNC: files "cur" or "old"
           file |-> <<>>, synced |-> 0,   \* the file with the AOF's name
           diff |-> <<>>,                 \* aof_rewrite_buf_blocks
           child |-> NoChild, switching |-> FALSE, unsafe |-> FALSE]

\* loadAppendOnlyFile: what a file makes of an empty data set.
Run(c, u) ==
  CASE u[1] = "select" -> [c EXCEPT !.db = u[2]]
    [] u[1] = "write" -> [c EXCEPT !.data = Append(@, <<u[2], c.db>>)]
    [] u[1] = "base" -> [data |-> u[2], db |-> Max({w[2] : w \in Range(u[2])})]
Loaded(units) == FoldLeft(Run, [data |-> <<>>, db |-> 0], units).data

\* rewriteAppendOnlyFile: the data set, one database after the other.
Base(data) == IF data = <<>> THEN <<>> ELSE << <<"base", data>> >>

\* A command that the child is not told of.
feedFileOnly(a, db, id) ==
  LET cmd == (IF db = a.seldb THEN <<>> ELSE << <<"select", db>> >>)
               \o << <<"write", id>> >>
  IN  [a EXCEPT !.seldb = db, !.buf = IF a.state = "on" THEN @ \o cmd ELSE @]

feedAppendOnlyFile(a, db, id) ==
  LET cmd == (IF db = a.seldb THEN <<>> ELSE << <<"select", db>> >>)
               \o << <<"write", id>> >>
  IN  [a EXCEPT !.seldb = db,
                !.buf = IF a.state = "on" THEN @ \o cmd ELSE @,
                !.diff = IF a.child.phase # "none" THEN @ \o cmd ELSE @]

\* The first n commands of the buffer are on the file when write returns; a
\* short write that ftruncate undid has n = 0.
Wrote(a, n) == [a EXCEPT !.file = @ \o SubSeq(a.buf, 1, n), !.postponed = "no",
                         !.buf = SubSeq(@, n + 1, Len(@))]

\* A sync that is left to the thread whatever the policy.
SyncedLater(a) ==
  IF a.later THEN [a EXCEPT !.later = FALSE, !.jobs = IF @ = <<>> THEN <<"cur">> ELSE @] ELSE a

Synced(a) ==
  IF a.policy = "always" THEN [a EXCEPT !.synced = Len(a.file)]
  ELSE IF a.later THEN [a EXCEPT !.later = FALSE,
                          !.jobs = IF @ = <<>> THEN <<"cur">> ELSE @]
  ELSE a

\* The process has ended: the disk stays, the rest is as it starts again.
Exited(a) == [a EXCEPT !.up = FALSE, !.data = <<>>, !.owed = FALSE, !.fd = "open",
  !.seldb = -1, !.buf = <<>>, !.status = "ok", !.sched = FALSE, !.saving = FALSE,
  !.later = TRUE, !.postponed = "no", !.jobs = <<>>, !.diff = <<>>,
  !.child = NoChild, !.switching = FALSE]

flushAppendOnlyFile(a, force, n) ==
  CASE a.buf = <<>> -> a
    [] a.buf # <<>> /\ a.policy = "everysec" /\ ~force /\ a.jobs # <<>> /\ a.postponed # "long" ->
         [a EXCEPT !.postponed = "short"]
    [] OTHER -> IF n = Len(a.buf) THEN Synced([Wrote(a, n) EXCEPT !.status = "ok"])
                ELSE IF a.policy = "always" THEN Exited(Wrote(a, n))
                ELSE [Wrote(a, n) EXCEPT !.status = "err"]

\* How much of the buffer a write may put on the file: all, or less by an error.
Writes(a) == IF a.fd = "open" THEN 0 .. Len(a.buf) ELSE {0}

Ready == aof.up /\ ~aof.switching

\* processCommand and call: a write is refused while the AOF cannot be written.
Command(db) ==
  LET id == Len(aof.data) + 1
      done == [aof EXCEPT !.data = Append(@, <<id, db>>), !.owed = TRUE]
  IN  /\ Ready /\ aof.status = "ok" /\ id <= AofWrites
      /\ aof' = IF aof.state = "off" THEN done ELSE feedAppendOnlyFile(done, db, id)

Replied(a) ==
  [a EXCEPT !.owed = FALSE, !.acked = IF a.policy = "always" THEN a.data ELSE @]

\* beforeSleep: the buffer is written, then the clients get their replies.
beforeSleep ==
  /\ Ready /\ (aof.buf # <<>> \/ aof.owed)
  /\ \E n \in Writes(aof) :
       LET a == flushAppendOnlyFile(aof, FALSE, n)
       IN  aof' = IF a.up /\ a.owed THEN Replied(a) ELSE a

\* unixtime goes on.
Second == /\ Ready /\ aof.policy = "everysec"
          /\ (~aof.later \/ aof.postponed = "short")
          /\ aof' = [aof EXCEPT !.later = TRUE,
                                !.postponed = IF @ = "short" THEN "long" ELSE @]

\* bioProcessBackgroundJobs: the thread of BIO_AOF_FSYNC.
bioProcessBackgroundJobs ==
  /\ aof.up /\ aof.jobs # <<>>
  /\ aof' = [aof EXCEPT !.jobs = Tail(@),
                        !.synced = IF Head(aof.jobs) = "cur" THEN Len(aof.file) ELSE @]

rewriteAppendOnlyFileBackground(a) ==
  [a EXCEPT !.sched = FALSE, !.seldb = -1,
            !.child = [NoChild EXCEPT !.phase = "work", !.base = Base(a.data)]]

bgrewriteaofCommand ==
  /\ Ready /\ aof.child.phase = "none"
  /\ aof' = IF aof.saving THEN [aof EXCEPT !.sched = TRUE]
            ELSE rewriteAppendOnlyFileBackground(aof)

\* serverCron: a scheduled rewrite.
CronRewrite ==
  /\ Ready /\ aof.sched /\ ~aof.saving /\ aof.child.phase = "none"
  /\ aof' = rewriteAppendOnlyFileBackground(aof)

\* A BGSAVE starts and ends.
Saving == /\ Ready /\ (aof.saving \/ aof.child.phase = "none")
          /\ aof' = [aof EXCEPT !.saving = ~@]

\* A part of the rewrite buffer fits in the pipe.
aofChildWriteDiffData ==
  /\ Ready /\ aof.child.phase \in {"work", "asked"} /\ aof.diff # <<>>
  /\ \E n \in 1 .. Len(aof.diff) :
       aof' = [aof EXCEPT !.child.pipe = @ \o SubSeq(aof.diff, 1, n),
                          !.diff = SubSeq(@, n + 1, Len(@))]

ReadDiff(c) == [c EXCEPT !.got = @ \o c.pipe, !.pipe = <<>>]

aofReadDiffFromParent ==
  /\ aof.up /\ aof.child.phase = "work" /\ aof.child.pipe # <<>>
  /\ aof' = [aof EXCEPT !.child = ReadDiff(@)]

\* The child has written its data set and asks the parent to stop.
ChildAsks == /\ aof.up /\ aof.child.phase = "work"
             /\ aof' = [aof EXCEPT !.child.phase = "asked"]

\* The parent answers and sends no more: aof_stop_sending_diff.
aofChildPipeReadable ==
  /\ Ready /\ aof.child.phase = "asked"
  /\ aof' = [aof EXCEPT !.child.phase = "told"]

\* The final diff is read; the file is written, synced and renamed.
ChildEnds == /\ aof.up /\ aof.child.phase = "told"
             /\ aof' = [aof EXCEPT !.child = [ReadDiff(@) EXCEPT !.phase = "done"]]

ChildFails == /\ aof.up /\ aof.child.phase \in {"work", "asked", "told"}
              /\ aof' = [aof EXCEPT !.child = [NoChild EXCEPT !.phase = "failed"]]

CleanUp(a) == [a EXCEPT !.diff = <<>>, !.child = NoChild,
                        !.sched = IF a.state = "wait_rewrite" THEN TRUE ELSE @]

\* backgroundRewriteDoneHandler up to the rename: what the parent has left is
\* added to the file of the child, which then gets the AOF's name.
RewriteDone ==
  LET file == aof.child.base \o aof.child.got
  IN  /\ Ready /\ aof.child.phase = "done" /\ Len(aof.jobs) < MaxJobs
      /\ aof' = [aof EXCEPT !.file = file \o aof.diff, !.synced = Len(file),
                            !.jobs = [i \in DOMAIN @ |-> "old"], !.switching = TRUE]

\* The rest of it: the descriptors are switched and the new file is synced.
Switched ==
  LET new == [aof EXCEPT !.seldb = -1, !.buf = <<>>,
                !.synced = IF aof.policy = "always" THEN Len(aof.file) ELSE @,
                !.jobs = IF aof.policy = "always" THEN @ ELSE Append(@, "cur")]
      on == [(IF aof.fd # "none" THEN new ELSE aof) EXCEPT !.switching = FALSE,
                !.state = IF @ = "wait_rewrite" THEN "on" ELSE @]
  IN  aof.up /\ aof.switching /\ aof' = CleanUp(on)

RewriteFailed == Ready /\ aof.child.phase = "failed" /\ aof' = CleanUp(aof)

\* CONFIG SET appendonly no
stopAppendOnly ==
  /\ Ready /\ aof.state # "off"
  /\ \E n \in Writes(aof) :
       LET a == flushAppendOnlyFile(aof, TRUE, n)
           off == [a EXCEPT !.synced = Len(a.file), !.fd = "none", !.seldb = -1,
                            !.state = "off"]
       IN  aof' = IF ~a.up THEN a
                  ELSE IF a.child.phase = "none" THEN off ELSE CleanUp(off)

\* CONFIG SET appendonly yes: refused while a rewrite runs, and then aof_fd
\* is reset only in the Windows build.
startRefused ==
  /\ Ready /\ aof.state = "off" /\ aof.child.phase # "none"
  /\ \E fd \in {"none", "stale"} : aof' = [aof EXCEPT !.fd = fd, !.later = (aof.policy = "always")]

startAppendOnly ==
  LET a == [aof EXCEPT !.fd = "open", !.later = (aof.policy = "always")]
      begun == IF aof.saving THEN [a EXCEPT !.sched = TRUE]
               ELSE rewriteAppendOnlyFileBackground(a)
  IN  /\ Ready /\ aof.state = "off" /\ aof.child.phase = "none"
      /\ aof' = [begun EXCEPT !.state = "wait_rewrite"]

\* The process is killed, or the power fails and what was not synced may go.
Crash(power) ==
  /\ aof.up /\ aof.state = "on" /\ aof.starts < MaxStarts
  /\ \E n \in (IF power THEN aof.synced ELSE Len(aof.file)) .. Len(aof.file) :
       aof' = [Exited(aof) EXCEPT !.file = SubSeq(@, 1, n), !.synced = n,
                                  !.unsafe = @ \/ (aof.policy = "always" /\ power /\ aof.switching)]

Restart ==
  LET data == Loaded(aof.file)
  IN  /\ ~aof.up /\ aof.starts < MaxStarts
      /\ aof' = [aof EXCEPT !.up = TRUE, !.starts = @ + 1, !.data = data]

AofNext ==
  \/ \E db \in AofDbs : Command(db)
  \/ beforeSleep \/ Second \/ bioProcessBackgroundJobs
  \/ bgrewriteaofCommand \/ CronRewrite \/ Saving
  \/ aofChildWriteDiffData \/ aofReadDiffFromParent \/ ChildAsks
  \/ aofChildPipeReadable \/ ChildEnds \/ ChildFails
  \/ RewriteDone \/ Switched \/ RewriteFailed
  \/ stopAppendOnly \/ startAppendOnly \/ startRefused
  \/ \E power \in BOOLEAN : Crash(power)
  \/ Restart

\* While the AOF is on, the file and the buffer that is still to be written
\* make the data set again, every write once and in its own database: over a
\* rewrite, an error of write, and turning the AOF off and on.
FileMakesTheData ==
  (Ready /\ aof.state = "on") => Loaded(aof.file \o aof.buf) = aof.data

\* With appendfsync always a write whose client got its reply is there after
\* a restart, unless the power fails between the rename and the fsync of a
\* rewritten file.
AckedSurvives ==
  (aof.up /\ aof.policy = "always" /\ ~aof.unsafe) => IsPrefix(aof.acked, aof.data)

=============================================================================
