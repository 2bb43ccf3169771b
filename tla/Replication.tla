---------------------------- MODULE Replication ----------------------------
(***************************************************************************)
(* Replication of a Redis master to its slaves (replication.c): the        *)
(* backlog, a ring of the last bytes of the stream; PSYNC, by which a      *)
(* slave goes on from its offset; the full resynchronisation with an RDB   *)
(* file made by a child while commands go on; and links of which either    *)
(* end may be lost before the other.  The master does not restart: its     *)
(* run id is the one a slave asks for, or "?".  A byte of the stream is a  *)
(* whole command: SELECT, PING or a write.                                 *)
(***************************************************************************)
EXTENDS Integers, Sequences, FiniteSetsExt

CONSTANTS Slaves, Links,   \* the slaves, and the connections at one time
          Dbs,             \* numbers of databases, 0 among them
          BacklogSizes,    \* values of repl-backlog-size
          MaxWrites, MaxOffset, \* bounds
          NoLink           \* no connection

VARIABLE repl  \* the master, the links and the slaves: see ReplInit

replVars == <<repl>>

Nobody == [reploff |-> -1, db |-> 0]  \* no master structure
Down == [from |-> NoLink, replstate |-> "freed", reply |-> <<"none">>, initial |-> 0, ack |-> 0, rdb |-> <<>>,
         sent |-> FALSE, out |-> <<>>]
NewSlave == [state |-> "connect", link |-> NoLink, data |-> <<>>,
             master |-> Nobody, cached |-> Nobody, initial |-> -1]

ReplInit ==
  \E size \in BacklogSizes :
    repl = [data |-> <<>>, woff |-> <<>>,
            offset |-> 0, seldb |-> -1,            \* master_repl_offset, slaveseldb
            size |-> size, backlog |-> FALSE, buf |-> <<>>,
            idx |-> 0, histlen |-> 0, off |-> 0,   \* repl_backlog_...
            child |-> "none", snapshot |-> <<>>,
            link |-> [l \in Links |-> Down],
            slave |-> [s \in Slaves |-> NewSlave]]

\* server.slaves
Attached(r) == {l \in Links : r.link[l].replstate \in
                  {"wait_start", "wait_end", "send_bulk", "online"}}
In(r, state) == {l \in Links : r.link[l].replstate = state}

NewBuffer(r) == [r EXCEPT !.buf = [i \in 0 .. r.size - 1 |-> <<"junk", 0>>],
                          !.histlen = 0, !.idx = 0, !.off = r.offset + 1]

createReplicationBacklog(r) ==
  NewBuffer([r EXCEPT !.backlog = TRUE, !.offset = @ + 1])

feedReplicationBacklog(r, u) ==
  LET hist == Min({r.histlen + 1, r.size})
  IN  [r EXCEPT !.offset = @ + 1, !.buf[r.idx] = u,
                !.idx = IF @ + 1 = r.size THEN 0 ELSE @ + 1,
                !.histlen = hist, !.off = (r.offset + 1 - hist) + 1]

\* The slave's end of the link is open.
Used(r, l) == \E s \in Slaves : r.slave[s].link = l

\* What matters of a link with no slave at its end: that the master has it.
Unread(k) == IF k.replstate = "freed" THEN Down
             ELSE [Down EXCEPT !.from = k.from, !.ack = k.ack, !.replstate = k.replstate]

\* A command to the backlog and to every slave but those that wait for a child.
Send(r, u) ==
  LET fed == feedReplicationBacklog(r, u)
      to == {l \in Attached(r) \ In(r, "wait_start") :
               r.link[l].replstate = "online" => Used(r, l)}
  IN  [fed EXCEPT !.link = [l \in Links |-> IF l \in to
         THEN [r.link[l] EXCEPT !.out = Append(@, u)] ELSE r.link[l]]]

replicationFeedSlaves(r, dictid, u) ==
  IF ~r.backlog /\ Attached(r) = {} THEN r
  ELSE LET sel == IF r.seldb = dictid THEN r ELSE Send(r, <<"select", dictid>>)
       IN  Send([sel EXCEPT !.seldb = dictid], u)

addReplyReplicationBacklog(r, offset) ==
  LET skip == offset - r.off
      oldest == (r.idx + (r.size - r.histlen)) % r.size
  IN  IF r.histlen = 0 THEN <<>>
      ELSE [i \in 1 .. r.histlen - skip |-> r.buf[((oldest + skip) + (i - 1)) % r.size]]

\* An offset that counts a new backlog where there is one already.
getPsyncOffsetAhead(r) == r.offset + 1

getPsyncInitialOffset(r) == IF r.backlog THEN r.offset ELSE r.offset + 1

replicationSetupSlaveForFullResync(r, ls, offset) ==
  [r EXCEPT !.seldb = IF ls = {} THEN @ ELSE -1,
            !.link = [l \in Links |-> IF l \in ls
               THEN [r.link[l] EXCEPT !.initial = offset, !.replstate = "wait_end",
                                      !.reply = <<"fullresync", offset>>]
               ELSE r.link[l]]]

\* The child is forked, or it is not and the waiting slaves are refused.
startBgsaveForReplication(r, ok) ==
  IF ok THEN replicationSetupSlaveForFullResync(
               [r EXCEPT !.child = "rdb", !.snapshot = r.data],
               In(r, "wait_start"), getPsyncInitialOffset(r))
  ELSE [r EXCEPT !.link = [l \in Links |-> IF l \in In(r, "wait_start")
         THEN [r.link[l] EXCEPT !.replstate = "freed", !.reply = <<"error">>]
         ELSE r.link[l]]]

\* An offset from before the backlog is taken too.
CanContinueAny(r, offset) ==
  offset # -1 /\ r.backlog /\ offset <= r.off + r.histlen

CanContinue(r, offset) ==
  /\ offset # -1  \* PSYNC ? -1
  /\ r.backlog
  /\ r.off <= offset /\ offset <= r.off + r.histlen

masterTryPartialResynchronization(r, l, offset) ==
  [r EXCEPT !.link[l].replstate = "online", !.link[l].reply = <<"continue">>,
            !.link[l].out = addReplyReplicationBacklog(r, offset)]

\* A slave that comes while a child saves for another takes over its buffer.
Attach(r, l) ==
  LET other == CHOOSE o \in In(r, "wait_end") : TRUE
  IN  replicationSetupSlaveForFullResync([r EXCEPT !.link[l].out = r.link[other].out],
                                         {l}, r.link[other].initial)

FullResync(r, l, ok) ==
  LET waiting == [r EXCEPT !.link[l].replstate = "wait_start"]
      begun == CASE r.child = "rdb" /\ In(r, "wait_end") # {} -> Attach(waiting, l)
                 [] r.child = "none" -> startBgsaveForReplication(waiting, ok)
                 [] OTHER -> waiting
  IN  IF Cardinality(Attached(begun)) = 1 /\ ~begun.backlog
      THEN createReplicationBacklog(begun) ELSE begun

syncCommand(r, l, offset, ok) ==
  IF CanContinue(r, offset) THEN masterTryPartialResynchronization(r, l, offset)
  ELSE FullResync(r, l, ok)

\* A slave connects and sends PSYNC with the offset after the last one it has.
\* Until the master has read the command the connection is nothing to it.
connectWithMaster(s, l, ok) ==
  LET sl == repl.slave[s]
      linked == [repl EXCEPT !.slave[s].state = "receive_psync", !.slave[s].link = l,
                             !.slave[s].initial = -1, !.link[l].from = s]
  IN  /\ sl.state = "connect" /\ repl.link[l] = Down /\ repl.offset < MaxOffset
      /\ repl' = syncCommand(linked, l, IF sl.cached = Nobody THEN -1
                                        ELSE sl.cached.reploff + 1, ok)

\* call: a write of a client to a database; its woff is the offset after it.
Write(db) ==
  LET id == Len(repl.data) + 1
      done == [repl EXCEPT !.data = Append(@, <<id, db>>)]
      fed == replicationFeedSlaves(done, db, <<"write", id>>)
  IN  /\ id <= MaxWrites /\ fed.offset <= MaxOffset
      /\ repl' = [fed EXCEPT !.woff = Append(@, fed.offset)]

\* replicationCron: PING is sent in the database selected last.
Ping == /\ repl.offset < MaxOffset
        /\ repl.backlog \/ Attached(repl) # {}
        /\ repl' = replicationFeedSlaves(repl, repl.seldb, <<"ping", 0>>)

\* replicationCron: no slave for repl-backlog-ttl seconds.
FreeBacklog == /\ repl.backlog /\ Attached(repl) = {}
               /\ repl' = [repl EXCEPT !.backlog = FALSE, !.buf = <<>>,
                                       !.idx = 0, !.histlen = 0, !.off = 0]

\* replicationCron: slaves that waited for another child to end.
CronBgsave(ok) == /\ repl.child = "none" /\ In(repl, "wait_start") # {}
                  /\ repl' = startBgsaveForReplication(repl, ok)

resizeReplicationBacklog(size) ==
  LET sized == [repl EXCEPT !.size = size]
  IN  /\ size # repl.size
      /\ repl' = IF repl.backlog THEN NewBuffer(sized) ELSE sized

\* BGSAVE and BGREWRITEAOF of a user, or of serverCron.
Background(child) ==
  /\ repl.child = "none"
  /\ repl' = [repl EXCEPT !.child = child,
                          !.snapshot = IF child = "rdb" THEN repl.data ELSE @]

AofDone == repl.child = "aof" /\ repl' = [repl EXCEPT !.child = "none"]

\* A link of which the master's end is closed; what is under way still arrives.
Freed(k, n) == [k EXCEPT !.replstate = "freed", !.out = SubSeq(@, 1, n)]
Released(r, l) ==
  IF Used(r, l) THEN r ELSE [r EXCEPT !.link[l] = Down]

updateSlavesWaitingBgsave(r, saved) ==
  [r EXCEPT !.link = [l \in Links |->
     IF l \notin In(r, "wait_end") THEN r.link[l]
     ELSE IF saved THEN [r.link[l] EXCEPT !.replstate = "send_bulk", !.rdb = r.snapshot]
     ELSE IF Used(r, l) THEN Freed(r.link[l], 0)
     ELSE Down]]

\* The child ends; slaves that came too late for it get another one.
BgsaveDone(saved, ok) ==
  LET r == [updateSlavesWaitingBgsave(repl, saved) EXCEPT !.child = "none",
                                                          !.snapshot = <<>>]
  IN  /\ repl.child = "rdb"
      /\ repl' = IF In(r, "wait_start") = {} THEN r ELSE startBgsaveForReplication(r, ok)

\* The last part of the file is written: putSlaveOnline.
sendBulkToSlave(l) ==
  /\ repl.link[l].replstate = "send_bulk"
  /\ LET k == [repl.link[l] EXCEPT !.replstate = "online", !.initial = 0, !.sent = TRUE]
     IN  repl' = [repl EXCEPT !.link[l] = IF Used(repl, l) THEN k ELSE Unread(k)]

\* The master loses a slave, by an error or a timeout: freeClient.
freeClient(l) ==
  /\ repl.link[l].from # NoLink /\ repl.link[l].replstate # "freed"
  /\ \E n \in 0 .. IF repl.link[l].replstate = "online" THEN Len(repl.link[l].out) ELSE 0 :
       repl' = Released([repl EXCEPT !.link[l] = Freed(@, n)], l)

\* The reply to PSYNC is read by slaveTryPartialResynchronization.
ReadReply(s) ==
  LET sl == repl.slave[s]
      reply == repl.link[sl.link].reply
  IN  /\ sl.state = "receive_psync" /\ reply # <<"none">>
      /\ repl' = [repl EXCEPT !.link[sl.link].reply = <<"none">>, !.slave[s] =
           IF reply[1] = "continue"
           THEN [sl EXCEPT !.state = "connected", !.master = sl.cached, !.cached = Nobody]
           ELSE [sl EXCEPT !.state = "transfer", !.cached = Nobody,
                    !.initial = IF reply[1] = "error" THEN @ ELSE reply[2]]]

\* The file is complete: it is loaded and the master structure is made.
readSyncBulkPayload(s) ==
  LET sl == repl.slave[s]
  IN  /\ sl.state = "transfer" /\ repl.link[sl.link].sent
      /\ repl' = [repl EXCEPT !.link[sl.link].rdb = <<>>, !.slave[s] =
           [sl EXCEPT !.state = "connected", !.data = repl.link[sl.link].rdb,
              !.initial = -1,
              !.master = [reploff |-> sl.initial, db |-> 0]]]

\* readQueryFromClient on the link of the master: a command of the stream.
ApplyCommand(s) ==
  LET sl == repl.slave[s]
      u == Head(repl.link[sl.link].out)
  IN  /\ sl.state = "connected" /\ repl.link[sl.link].out # <<>>
      /\ repl' = [repl EXCEPT
           !.link[sl.link].out = Tail(@),
           !.slave[s].master.reploff = @ + 1,
           !.slave[s].master.db = IF u[1] = "select" THEN u[2] ELSE @,
           !.slave[s].data = IF u[1] \in {"select", "ping"} THEN @
                             ELSE Append(@, <<u[2], sl.master.db>>)]

\* A slave that acknowledges what has arrived and not been run.
SendAckOfArrived(s) ==
  LET sl == repl.slave[s]
      off == sl.master.reploff + Len(repl.link[sl.link].out)
  IN  /\ sl.state = "connected" /\ repl.link[sl.link].replstate = "online"
      /\ repl.link[sl.link].ack < off
      /\ repl' = [repl EXCEPT !.link[sl.link].ack = off]

\* replicationCron of the slave, REPLCONF ACK at the master.
replicationSendAck(s) ==
  LET sl == repl.slave[s]
  IN  /\ sl.state = "connected" /\ repl.link[sl.link].replstate = "online"
      /\ repl.link[sl.link].ack < sl.master.reploff
      /\ repl' = [repl EXCEPT !.link[sl.link].ack = sl.master.reploff]

\* The slave loses its master: replicationCacheMaster, cancelReplicationHandshake.
LoseMaster(s) ==
  LET sl == repl.slave[s]
      gone == [sl EXCEPT !.state = "connect", !.link = NoLink, !.master = Nobody, !.initial = -1,
                 !.cached = IF sl.state = "connected" THEN sl.master ELSE @]
  IN  /\ sl.state # "connect"
      /\ repl' = [repl EXCEPT !.slave[s] = gone, !.link[sl.link] =
           IF @.replstate \in {"online", "freed"} THEN Unread(@) ELSE @]

ReplNext ==
  \/ \E db \in Dbs : Write(db)
  \/ Ping \/ FreeBacklog \/ AofDone
  \/ \E ok \in BOOLEAN : CronBgsave(ok)
  \/ \E size \in BacklogSizes : resizeReplicationBacklog(size)
  \/ \E child \in {"rdb", "aof"} : Background(child)
  \/ \E saved, ok \in BOOLEAN : BgsaveDone(saved, ok)
  \/ \E l \in Links : sendBulkToSlave(l) \/ freeClient(l)
  \/ \E s \in Slaves, l \in Links, ok \in BOOLEAN : connectWithMaster(s, l, ok)
  \/ \E s \in Slaves : \/ ReadReply(s) \/ readSyncBulkPayload(s) \/ ApplyCommand(s)
                       \/ replicationSendAck(s) \/ LoseMaster(s)

ReplSpec == ReplInit /\ [][ReplNext]_replVars

-----------------------------------------------------------------------------
\* What a slave that keeps a master structure holds is what the
\* master held at an earlier time, every write in its own database: no
\* continuation with PSYNC leaves a gap, repeats a command or runs one in
\* another database.
SlaveHoldsPrefix ==
  \A s \in Slaves : LET sl == repl.slave[s] IN
    {sl.master, sl.cached} # {Nobody} =>
      /\ Len(sl.data) <= Len(repl.data)
      /\ \A i \in 1 .. Len(sl.data) : sl.data[i] = repl.data[i]

\* A slave at the offset of its master holds all of its data.
CaughtUpIsEqual ==
  \A s \in Slaves : LET sl == repl.slave[s] IN
    (/\ sl.state = "connected" /\ sl.link \in Attached(repl)
     /\ sl.master.reploff >= repl.offset) => sl.data = repl.data

\* A write is held by every slave that has acknowledged the offset WAIT
\* compares it with.
AckedIsHeld ==
  \A l \in In(repl, "online") : \A i \in 1 .. Len(repl.data) :
    LET id == repl.data[i][1]
    IN  (repl.woff[id] > 0 /\ repl.woff[id] <= repl.link[l].ack) =>
           \E j \in 1 .. Len(repl.slave[repl.link[l].from].data) :
             repl.slave[repl.link[l].from].data[j] = repl.data[i]

\* A slave holds a prefix of its master's writes, and all of them when it is at
\* the master's offset, over any full and partial resynchronisations (PSYNC).
SlaveFollowsMaster == SlaveHoldsPrefix /\ CaughtUpIsEqual
=============================================================================
