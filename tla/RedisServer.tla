---------------------------- MODULE RedisServer ----------------------------
(***************************************************************************)
(* Four parts of the vendored Redis server side by side: the hash table,   *)
(* sorted sets, lists with blocking and transactions, and the append only  *)
(* file.  A behaviour drives one of them and leaves the others alone.      *)
(***************************************************************************)
EXTENDS Integers, Sequences

CONSTANTS DictKeys, NoKey, DICT_HT_INITIAL_SIZE, ForceRatio, MinFill, WordBits,
          MaxSlots,                                                     \* Dict
          Elements, LongElements, Scores, ZSKIPLIST_MAXLEVEL, MaxEntries,
          Header, Null,                                                 \* ZSet
          Blockers, Writers, Keys, Values, MaxLen, Transactions, String, \* ListServer
          AofDbs, AofWrites, MaxJobs, MaxStarts                         \* AppendOnly

VARIABLES driven,                                   \* the part of this behaviour
          ht, rehashidx, canResize, held, iter, scan, zobj, zref, srv, aof

Table == INSTANCE Dict

Sorted == INSTANCE ZSet

Lists == INSTANCE ListServer

File == INSTANCE AppendOnly

dictVars == <<ht, rehashidx, canResize, held, iter, scan>>
zsetVars == <<zobj, zref>>
vars == <<driven, dictVars, zsetVars, srv, aof>>

Init ==
    /\ driven \in {"dict", "zset", "lists", "aof"}
    /\ Table!DictInit
    /\ Sorted!ZSetInit
    /\ Lists!ListInit
    /\ IF driven = "aof" THEN File!AofInit ELSE aof = <<>>

\* What the driven part leaves alone.
Frame ==
    /\ UNCHANGED driven
    /\ IF driven = "dict" THEN TRUE ELSE UNCHANGED dictVars
    /\ IF driven = "zset" THEN TRUE ELSE UNCHANGED zsetVars
    /\ IF driven = "lists" THEN TRUE ELSE UNCHANGED srv
    /\ IF driven = "aof" THEN TRUE ELSE UNCHANGED aof

Next ==
    \/ driven = "dict" /\ Table!DictNext /\ Frame
    \/ driven = "zset" /\ Sorted!ZSetNext /\ Frame
    \/ driven = "lists" /\ Lists!ListNext /\ Frame
    \/ driven = "aof" /\ File!AofNext /\ Frame

Spec == Init /\ [][Next]_vars

-----------------------------------------------------------------------------
\* No key is lost, doubled or out of place while dictRehash moves the keys from
\* one table to the other, and a safe iterator returns every key that stays in
\* the dict exactly once, with keys added, found and deleted meanwhile.
DictKeepsKeys == driven = "dict" => Table!RehashKeepsKeys /\ Table!IteratorComplete

\* A full SCAN returns every key that was there all the time, over any growth
\* of the table (dictScan's reversed cursor), unless the table also shrank.
ScanComplete == driven = "dict" => Table!ScanComplete

\* "The function guarantees all elements present in the dictionary get
\* returned between the start and end of the iteration" (dict.c 794), whatever
\* resizing goes on meanwhile.
ScanGuarantee == driven = "dict" => Table!ScanGuarantee

\* Over all conversions of its encoding a sorted set holds what the commands
\* left in it; the spans of the skip list give every element its rank, its
\* backward links undo the forward ones, and the ends of a range are found.
ZSetIsExact == driven = "zset" =>
    /\ Sorted!ZSetIsTheMap /\ Sorted!RanksAreExact
    /\ Sorted!BackwardUndoesForward /\ Sorted!RangeEndsAreExact

\* What call() and the serving of blocked clients propagate makes the data set
\* of the master on a slave.
SlaveFollows == driven = "lists" => Lists!SlaveFollows

\* Every change of a watched key marks the watching client, so that its EXEC
\* aborts.
WatchSeesChanges == driven = "lists" => Lists!WatchSeesChanges

\* No client waits on a list that has elements, unless SORT ... STORE put the
\* list over a string, and the clients blocked on a key are served in the order
\* they came.
BlockedAreServed == [](driven = "lists" => Lists!WaitersHaveNothing) /\ Lists!FirstBlockedFirst

\* While the AOF is on, the file and the unwritten buffer make the data set
\* again, over rewrites, write errors, restarts and CONFIG SET appendonly.
FileMakesTheData == driven = "aof" => File!FileMakesTheData

\* With appendfsync always a restart finds every write that was acknowledged,
\* unless the power failed between the rename and the fsync of a rewritten file.
AckedSurvives == driven = "aof" => File!AckedSurvives
=============================================================================
