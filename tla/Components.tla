----------------------------- MODULE Components -----------------------------
(***************************************************************************)
(* The smaller components side by side.  They do not interact here: a      *)
(* behaviour drives one of them and leaves the others in a first state.    *)
(***************************************************************************)
EXTENDS Integers, Sequences

CONSTANTS Keys, Values, MaxNodes,                                       \* RBTree
          Objs, Empty, FirstMax, AddSize, MaxCap, MaxAdds,              \* TList
          SortValues, MaxSort,                                          \* SortEx
          PerPool, MaxPools,                                            \* SlotPool
          PoolCount, RecvSize, Slack, NoPtr, Calls, MaxHolders, MaxLen, \* BufManager
          Nums, AVG_COUNT, MaxFiles, MaxParsed,                         \* LogAnalyzer
          Header, RecvBuf, Bodies, MaxPackets,                          \* Framing
          Lens, FirstArgs, MaxArgs, Room, Class(_), Hosts, NoHost, MaxSum, Uses, \* RedisClient
          ThreadCount,                                                  \* Handler
          Socks, Servers, NoSock, MaxQueue, MaxDrops,                   \* Connector
          NoItem, ListThreads, ListObjs, MaxCount, ListUses, FirstIdx,        \* MemList
          Pushers, Consumer, Cap, MaxRings, MaxPush                     \* QueueS

VARIABLES driven,                       \* the component of this behaviour
          tree, map, aborted, tl, told, wild, arr, pass, sorting, slots, curSlot, owned,
          used, hold, bad, busy, conf, file, parsed, ana,
          stream, arrived, rbuf, addLen, want, handed,
          argv, use, last, idx, full, pushed, link, reports,
          starter, hCreate, vec, info, work,
          conn, sock, recvs, port, app, wrk, drops,
          larr, flag, cur, emptyFirst, lpc, obj, lidx, li, st, luse,
          rings, pq, qlist, listUse, realloc, cs, lock, qpc, ring, item, tmp, qpushed,
          popped, overlap

Tree == INSTANCE RBTree

List == INSTANCE TList

Sort == INSTANCE SortEx

Slot == INSTANCE SlotPool

Bufs == INSTANCE BufManager

Analyzer == INSTANCE LogAnalyzer

Frames == INSTANCE Framing

Client == INSTANCE RedisClient

Hand == INSTANCE Handler

Conn == INSTANCE Connector

MList == INSTANCE MemList WITH NULL <- NoItem, Threads <- ListThreads, Objs <- ListObjs,
                              Uses <- ListUses, arr <- larr,
                              pc <- lpc, idx <- lidx, i <- li, use <- luse

Queue == INSTANCE QueueS WITH NULL <- NoItem, pc <- qpc, pushed <- qpushed

treeVars == <<tree, map, aborted>>
listVars == <<tl, told, wild>>
sortVars == <<arr, pass, sorting>>
slotVars == <<slots, curSlot, owned>>
bufVars == <<used, hold, bad, busy>>
analyzerVars == <<conf, file, parsed, ana>>
framingVars == <<stream, arrived, rbuf, addLen, want, handed>>
clientVars == <<argv, use, last, idx, full, pushed, link, reports>>
handlerVars == <<starter, hCreate, vec, info, work>>
connVars == <<conn, sock, recvs, port, app, wrk, drops>>
mlistVars == <<larr, flag, cur, emptyFirst, lpc, obj, lidx, li, st, luse>>
queueVars == <<rings, pq, qlist, listUse, realloc, cs, lock, qpc, ring, item, tmp, qpushed,
               popped, overlap>>

vars == <<driven, treeVars, listVars, sortVars, slotVars, bufVars, analyzerVars, framingVars,
          clientVars, handlerVars, connVars, mlistVars,
          queueVars>>

Init ==
    /\ driven \in {"tree", "list", "sort", "slot", "bufs", "analyzer", "frames", "client",
                   "handler", "conn", "mlist",
                  "queue"}
    /\ Tree!Init /\ List!Init /\ Slot!Init /\ Client!Init /\ Hand!Init /\ Conn!Init
    /\ IF driven = "sort" THEN Sort!Init ELSE arr = <<>> /\ pass = 0 /\ sorting = FALSE
    /\ IF driven = "bufs" THEN Bufs!Init
       ELSE used = <<>> /\ hold = <<>> /\ bad = {} /\ busy = {}
    /\ IF driven = "analyzer" THEN Analyzer!Init
       ELSE conf = <<>> /\ file = <<>> /\ parsed = <<>> /\ ana = <<>>
    /\ IF driven = "frames" THEN Frames!Init
       ELSE /\ stream = <<>> /\ arrived = 0 /\ rbuf = <<>> /\ addLen = 0 /\ want = 0
            /\ handed = <<>>
    /\ IF driven = "mlist" THEN MList!Init
       ELSE /\ larr = <<>> /\ flag = <<>> /\ cur = 0 /\ emptyFirst = 0 /\ lpc = <<>> /\ obj = <<>>
            /\ lidx = <<>> /\ li = <<>> /\ st = <<>> /\ luse = <<>>
    /\ IF driven = "queue" THEN Queue!Init
       ELSE /\ rings = <<>> /\ pq = 0 /\ qlist = <<>> /\ listUse = 0 /\ realloc = 0 /\ cs = 0
            /\ lock = 0 /\ qpc = <<>> /\ ring = <<>> /\ item = <<>> /\ tmp = <<>> /\ qpushed = 0
            /\ popped = <<>> /\ overlap = FALSE

\* Everything but the component that is driven stands still.
Frame ==
    /\ UNCHANGED driven
    /\ IF driven = "tree" THEN TRUE ELSE UNCHANGED treeVars
    /\ IF driven = "list" THEN TRUE ELSE UNCHANGED listVars
    /\ IF driven = "sort" THEN TRUE ELSE UNCHANGED sortVars
    /\ IF driven = "slot" THEN TRUE ELSE UNCHANGED slotVars
    /\ IF driven = "bufs" THEN TRUE ELSE UNCHANGED bufVars
    /\ IF driven = "analyzer" THEN TRUE ELSE UNCHANGED analyzerVars
    /\ IF driven = "frames" THEN TRUE ELSE UNCHANGED framingVars
    /\ IF driven = "client" THEN TRUE ELSE UNCHANGED clientVars
    /\ IF driven = "handler" THEN TRUE ELSE UNCHANGED handlerVars
    /\ IF driven = "conn" THEN TRUE ELSE UNCHANGED connVars
    /\ IF driven = "mlist" THEN TRUE ELSE UNCHANGED mlistVars
    /\ IF driven = "queue" THEN TRUE ELSE UNCHANGED queueVars

Starter == driven = "handler" /\ Hand!Starter /\ Frame

Worker(n) == driven = "handler" /\ Hand!Worker(n) /\ Frame

Next ==
    \/ driven = "tree" /\ Tree!Next /\ Frame
    \/ driven = "list" /\ List!Next /\ Frame
    \/ driven = "sort" /\ Sort!Next /\ Frame
    \/ driven = "slot" /\ Slot!Next /\ Frame
    \/ driven = "bufs" /\ Bufs!Next /\ Frame
    \/ driven = "analyzer" /\ Analyzer!Next /\ Frame
    \/ driven = "frames" /\ Frames!Next /\ Frame
    \/ driven = "client" /\ Client!Next /\ Frame
    \/ driven = "conn" /\ Conn!Next /\ Frame
    \/ driven = "mlist" /\ MList!Next /\ Frame
    \/ driven = "queue" /\ Queue!Next /\ Frame
    \/ Starter
    \/ \E n \in 1 .. ThreadCount : Worker(n)

\* The threads of the handler are scheduled by the operating system.
Spec ==
    /\ Init /\ [][Next]_vars
    /\ WF_vars(Starter) /\ \A n \in 1 .. ThreadCount : WF_vars(Worker(n))

-----------------------------------------------------------------------------
\* Properties of the components

\* After every insert and delete rbtree_lookup finds exactly what was stored,
\* no node is lost and none that was freed is linked, no red node has a red child
\* and all paths hold as many black nodes (verify_property_4 and 5).
TreeIsSound == Tree!TreeIsTheMap /\ Tree!TreeKeepsItsNodes /\ Tree!TreeIsBalanced

\* An index that CTList gave finds its object until it is deleted.
ListKeepsIndex == List!ListKeepsIndex

\* SortEx returns a sorted permutation of its array.
SortReturnsSorted == Sort!SortReturnsSorted

\* CBPoolSlot gives no cell out twice, and its counts are the cells in use.
SlotMemoryIsOwnedOnce == Slot!SlotMemoryIsOwnedOnce

\* Text written through CMemManager's buffers fits them, a buffer goes back to
\* the class it came from, and each used cell has exactly one holder.
BuffersAreSound ==
    driven = "bufs" => Bufs!WritesFit /\ Bufs!GoesHome /\ Bufs!CellsHaveHolders

\* Over all files the figures of the analyzers are those of the lines parsed:
\* units and extremes of KeyValue, the gaps Sequence reports, and the numbers
\* of Average, each in an average or waiting for one.
FiguresAreExact ==
    driven = "analyzer" => Analyzer!UnitsAddUp /\ Analyzer!GapsReported /\ Analyzer!AveragesHoldAll

\* recvProc_length gives the application bytes that have arrived, in order and
\* none twice, however the stream is cut.
HandedInOrder == driven = "frames" => Frames!HandedInOrder

\* redisCommandArgv gets the arguments in the order they were pushed; the text
\* of the command fits its buffer, which goes back to the pool it came from; and
\* a lost server is reported once until it is reached again.
CommandsAreWhole ==
    Client!ArgvInOrder /\ Client!ContentsFit /\ Client!ContentsGoHome /\ Client!ReportedOnce

\* CNWHandler::start goes on to a thread when all before it are in their loop,
\* and it returns: the signal of the thread it waits for is never lost.
WorkersStart == driven = "handler" => []Hand!StartedInTurn /\ Hand!StartReturns

\* No order of late completions leaves a connected session without a receive,
\* and no reconnection loses a socket.
ReconnectsCleanly == Conn!NoDeafConnection /\ Conn!NoSocketLost

\* CMemList::add stores only into a cell that it alone has claimed, each object
\* on the list is in one filled cell, and size() is off by unfinished calls only.
ListIsExact == driven = "mlist" => MList!AddOwnsCell /\ MList!ListedOnce /\ MList!SizeExact

\* CQueueS grows one ring at a time, no item comes out twice, and calls made one
\* after the other get the items back in order, from the second ring on.
QueueIsExact ==
    /\ Queue!PoppedOnce
    /\ driven = "queue" => Queue!RingsGrowInOrder /\ Queue!SoloFifo
=============================================================================
