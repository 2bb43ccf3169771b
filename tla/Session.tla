------------------------------ MODULE Session ------------------------------
(***************************************************************************)
(* The life of an accepted client in the IOCP server: the session pool     *)
(* (network/iocp NWSessionManager), the socket (NWSocket), the completion  *)
(* port and its event pool (RTSQueue, NWHandler) and the handlers of the   *)
(* communicator with its connection list (NWCommunicator).                 *)
(*                                                                         *)
(* A worker takes a completion from the port of its communicator and runs  *)
(* the handler; the application and the timeout walk close sessions from   *)
(* threads of their own; the operating system completes accepts and        *)
(* receives.  Shared words are read and written one step at a time; the    *)
(* pool and the list, whose races are the subject of MemPool and MemList,  *)
(* take one step per call.  The application receives and does not send.    *)
(***************************************************************************)
EXTENDS Integers, Sequences, FiniteSets

CONSTANTS N,         \* m_nAcceptedMax: sessions prepared for accept
          Comms,     \* communicators, each on a completion port of its own
          Home,      \* the communicator a session is accepted by
          ErrComm,   \* the communicator on the port g_pErrIocpQueue
          Workers,   \* worker threads
          Serves,    \* the communicator a worker serves
          Closers,   \* threads that call Close or timeoutProcess
          Main,      \* the thread that calls initListenSocket
          Prepared,  \* TRUE: from after prepareAccept, FALSE: from before
          Faults,    \* operating system calls that may fail
          FirstIdx   \* what the memory of m_nEmptyFirstIdx may hold at first

Sessions == 0 .. N - 1
Threads == Workers \cup Closers \cup {Main}
NoSession == -1

\* The connection list has more cells than there are sessions.
Cells == 0 .. N

ASSUME SessionsAssumption == N \in Nat \ {0}
ASSUME CommsAssumption == /\ ErrComm \in Comms
                          /\ Home \in [Sessions -> Comms]
                          /\ Serves \in [Workers -> Comms]
ASSUME ThreadsAssumption == /\ Workers \cap Closers = {}
                            /\ Main \notin Workers \cup Closers
ASSUME FaultsAssumption == Faults \subseteq {"acceptNow", "accept", "recv", "post"}
ASSUME FirstIdxAssumption == FirstIdx \subseteq -1 .. N

VARIABLES
  S,       \* the sessions, CNWSocket with its recv SOCKETDATA
  useCnt,  \* m_nUseCnt of the session pool
  queue,   \* the completion port of each communicator
  list,    \* m_pConnectList of each communicator
  events,  \* blocks of m_pEventMemMgr: out of the pool, and lost by a failed post
  pc,      \* next step of each thread
  ses,     \* the session a thread works on
  tmp,     \* SOCK_STATUS_CONNECTED as a thread read it
  left     \* socketShutdown calls a thread has still to make

vars == <<S, useCnt, queue, list, events, pc, ses, tmp, left>>

\* A session of the pool that nobody took, and one that waits for a client.
Unused ==
  [connected |-> FALSE, accepted |-> FALSE, sock |-> "none", used |-> FALSE,
   buf |-> FALSE, io |-> "none", op |-> "none", known |-> FALSE]
Armed ==
  [Unused EXCEPT !.accepted = TRUE, !.sock = "open", !.used = TRUE,
                 !.io = "accept", !.op = "accept"]

EmptyList(first) ==
  [arr |-> [c \in Cells |-> NoSession], filled |-> {}, cur |-> 0, first |-> first]

Init ==
  /\ S = [s \in Sessions |-> IF Prepared THEN Armed ELSE Unused]
  /\ useCnt = IF Prepared THEN N ELSE 0
  /\ queue = [c \in Comms |-> <<>>]
  /\ list \in [Comms -> {EmptyList(first) : first \in FirstIdx}]
  /\ events = [out |-> 0, lost |-> 0]
  /\ pc = [t \in Threads |-> IF t = Main /\ ~ Prepared THEN "prepare" ELSE "idle"]
  /\ ses = [t \in Threads |-> IF t = Main /\ ~ Prepared THEN 0 ELSE NoSession]
  /\ tmp = [t \in Threads |-> FALSE]
  /\ left = [t \in Threads |-> 0]

Goto(t, label) == pc' = [pc EXCEPT ![t] = label]
Return(t) == Goto(t, "idle") /\ ses' = [ses EXCEPT ![t] = NoSession]
Put(c, m) == queue' = [queue EXCEPT ![c] = Append(@, m)]
Done(s, ok) == [op |-> "io", s |-> s, ok |-> ok]

----------------------------------------------------------------------------
(* CMemList, one step per call.                                            *)

\* The cell add takes: the hint, or the first free one from the count on.
AddCell(l) ==
  IF l.first >= 0 /\ l.first \notin l.filled
  THEN l.first
  ELSE LET free == Cells \ l.filled
           dist(c) == (c - l.cur) % (N + 1)
       IN CHOOSE c \in free : \A d \in free : dist(c) <= dist(d)

Added(l, s) ==
  LET c == AddCell(l)
  IN [arr |-> [l.arr EXCEPT ![c] = s], filled |-> l.filled \cup {c},
      cur |-> l.cur + 1,
      first |-> IF c = l.first THEN -1 ELSE l.first]

\* del looks for the pointer in every cell, emptied ones included.
Deleted(l, s) ==
  LET at == {c \in Cells : l.arr[c] = s}
      c == CHOOSE x \in at : \A y \in at : x <= y
  IN IF at = {} THEN l
     ELSE [l EXCEPT !.filled = @ \ {c}, !.cur = @ - 1,
                    !.first = IF @ < 0 \/ c < @ THEN c ELSE @]

Listed(c) == {list[c].arr[k] : k \in list[c].filled}

----------------------------------------------------------------------------
(* prepareAccept.  SETSOCKETSTATUS(SOCK_STATUS_ACCEPTED) reads and writes  *)
(* the whole status word.                                                  *)

\* newSocket, createSocket and bindAccept.
PrepareArm ==
  /\ pc[Main] = "prepare"
  /\ S' = [S EXCEPT ![ses[Main]] = [Armed EXCEPT !.accepted = FALSE]]
  /\ useCnt' = useCnt + 1
  /\ Goto(Main, "read")
  /\ UNCHANGED <<queue, list, events, ses, tmp, left>>

PrepareNext ==
  IF ses[Main] < N - 1
  THEN Goto(Main, "prepare") /\ ses' = [ses EXCEPT ![Main] = @ + 1]
  ELSE Return(Main)

\* An AcceptEx that succeeds at once is taken for an error.
PrepareRefused ==
  /\ pc[Main] = "prepare"
  /\ "acceptNow" \in Faults
  /\ S' = [S EXCEPT ![ses[Main]] = [Unused EXCEPT !.op = "accept", !.sock = "closed"]]
  /\ Put(Home[ses[Main]], Done(ses[Main], TRUE))
  /\ PrepareNext
  /\ UNCHANGED <<useCnt, list, events, tmp, left>>

PrepareRead ==
  /\ pc[Main] = "read"
  /\ tmp' = [tmp EXCEPT ![Main] = S[ses[Main]].connected]
  /\ Goto(Main, "write")
  /\ UNCHANGED <<S, useCnt, queue, list, events, ses, left>>

PrepareWrite ==
  /\ pc[Main] = "write"
  /\ S' = [S EXCEPT ![ses[Main]].accepted = TRUE,
                    ![ses[Main]].connected = tmp[Main]]
  /\ PrepareNext
  /\ UNCHANGED <<useCnt, queue, list, events, tmp, left>>

----------------------------------------------------------------------------
(* The operating system.                                                   *)

\* A client connects.
Connect(s) ==
  /\ S[s].io = "accept"
  /\ S' = [S EXCEPT ![s].io = "none"]
  /\ Put(Home[s], Done(s, TRUE))
  /\ UNCHANGED <<useCnt, list, events, pc, ses, tmp, left>>

\* Data arrives.
Arrive(s) ==
  /\ S[s].io = "recv"
  /\ S[s].sock = "open"
  /\ S' = [S EXCEPT ![s].io = "none"]
  /\ Put(Home[s], Done(s, TRUE))
  /\ UNCHANGED <<useCnt, list, events, pc, ses, tmp, left>>

\* The client is gone, or the socket was shut down or closed here.
Broken(s) ==
  /\ S[s].io = "recv"
  /\ S' = [S EXCEPT ![s].io = "none"]
  /\ Put(Home[s], Done(s, FALSE))
  /\ UNCHANGED <<useCnt, list, events, pc, ses, tmp, left>>

----------------------------------------------------------------------------
(* A worker: GetQueuedCompletionStatus and processLoopLapper, which goes   *)
(* by the opCode the overlapped structure holds when it is dequeued.       *)

\* The worker dequeues a completion of an accept or a receive.
Takes(w, opCode, s, ok) ==
  LET q == queue[Serves[w]]
  IN /\ pc[w] = "idle"
     /\ q # <<>>
     /\ Head(q) = Done(s, ok)
     /\ S[s].op = opCode
     /\ queue' = [queue EXCEPT ![Serves[w]] = Tail(q)]

\* doAccept: no remote address, or a socket that cannot be registered.
AcceptFailed(w, s) ==
  /\ \E ok \in BOOLEAN : Takes(w, "accept", s, ok)
  /\ "accept" \in Faults \/ S[s].sock # "open"
  /\ S' = [S EXCEPT ![s].connected = TRUE, ![s].op = "none"]
  /\ UNCHANGED <<useCnt, list, events, pc, ses, tmp, left>>

doAccept(w, s) ==
  /\ \E ok \in BOOLEAN : Takes(w, "accept", s, ok)
  /\ S[s].sock = "open"
  /\ S' = [S EXCEPT ![s].connected = TRUE, ![s].op = "none"]
  /\ ses' = [ses EXCEPT ![w] = s]
  /\ Goto(w, "bind")
  /\ UNCHANGED <<useCnt, list, events, tmp, left>>

\* bindRecv, from comproc_accept ("bind") and from the application's receive
\* function ("app").
bindRecv(w) ==
  /\ pc[w] \in {"bind", "app"}
  /\ S[ses[w]].sock = "open"
  /\ S' = [S EXCEPT ![ses[w]].buf = TRUE, ![ses[w]].op = "recv", ![ses[w]].io = "recv"]
  /\ \/ pc[w] = "bind" /\ Goto(w, "add") /\ UNCHANGED ses
     \/ pc[w] = "app" /\ Return(w)
  /\ UNCHANGED <<useCnt, queue, list, events, tmp, left>>

\* WSARecv fails: RecvPacket shuts the socket down, and comproc_accept does so
\* once more.
RecvRefused(w) ==
  /\ pc[w] \in {"bind", "app"}
  /\ "recv" \in Faults \/ S[ses[w]].sock # "open"
  /\ S' = [S EXCEPT ![ses[w]].buf = TRUE, ![ses[w]].op = "recv"]
  /\ left' = [left EXCEPT ![w] = IF pc[w] = "bind" THEN 2 ELSE 1]
  /\ Goto(w, "test")
  /\ UNCHANGED <<useCnt, queue, list, events, ses, tmp>>

\* The index add returns is taken for a truth value.
AddSession(w) ==
  LET l == list[Serves[w]]
  IN /\ pc[w] = "add"
     /\ list' = [list EXCEPT ![Serves[w]] = Added(l, ses[w])]
     /\ \/ /\ AddCell(l) # 0
           /\ Return(w)
           /\ UNCHANGED left
        \/ /\ AddCell(l) = 0
           /\ left' = [left EXCEPT ![w] = 1]
           /\ Goto(w, "test")
           /\ UNCHANGED ses
     /\ UNCHANGED <<S, useCnt, queue, events, tmp>>

\* comproc_recvComplete that only marks the error.
recvCompleteIgnored(w, s) ==
  /\ \/ /\ Takes(w, "recv", s, TRUE)
        /\ S' = [S EXCEPT ![s].known = TRUE]
        /\ Goto(w, "app")
        /\ ses' = [ses EXCEPT ![w] = s]
        /\ UNCHANGED left
     \/ /\ Takes(w, "recv", s, FALSE)
        /\ S' = [S EXCEPT ![s].op = "error"]
        /\ UNCHANGED <<pc, ses, left>>
  /\ UNCHANGED <<useCnt, list, events, tmp>>

comproc_recvComplete(w, s) ==
  /\ ses' = [ses EXCEPT ![w] = s]
  /\ \/ /\ Takes(w, "recv", s, TRUE)
        /\ S' = [S EXCEPT ![s].known = TRUE]
        /\ Goto(w, "app")
        /\ UNCHANGED left
     \/ /\ Takes(w, "recv", s, FALSE)
        /\ S' = [S EXCEPT ![s].op = "error"]
        /\ left' = [left EXCEPT ![w] = 1]
        /\ Goto(w, "test")
  /\ UNCHANGED <<useCnt, list, events, tmp>>

----------------------------------------------------------------------------
(* socketShutdown, run by workers and closers.                             *)

AfterShutdown(t) ==
  /\ left' = [left EXCEPT ![t] = @ - 1]
  /\ IF left[t] > 1 THEN Goto(t, "test") /\ UNCHANGED ses ELSE Return(t)

ShutdownTest(t) ==
  /\ pc[t] = "test"
  /\ IF S[ses[t]].connected
     THEN Goto(t, "shut") /\ UNCHANGED <<ses, left>>
     ELSE AfterShutdown(t)
  /\ UNCHANGED <<S, useCnt, queue, list, events, tmp>>

\* socketShutdown that closes the socket and frees its buffer.
ShutdownCloses(t) ==
  /\ pc[t] = "shut"
  /\ S' = [S EXCEPT ![ses[t]].sock = "closed", ![ses[t]].buf = FALSE,
                    ![ses[t]].connected = FALSE]
  /\ Goto(t, "post")
  /\ UNCHANGED <<useCnt, queue, list, events, ses, tmp, left>>

\* shutdown() and the flag that stops further sends.
Shutdown(t) ==
  /\ pc[t] = "shut"
  /\ S' = [S EXCEPT ![ses[t]].sock = IF @ = "open" THEN "shut" ELSE @,
                    ![ses[t]].connected = FALSE]
  /\ Goto(t, "post")
  /\ UNCHANGED <<useCnt, queue, list, events, ses, tmp, left>>

\* putRTSQueue that posts nothing.
putRTSQueueLost(t) ==
  /\ pc[t] = "post"
  /\ events' = [events EXCEPT !.out = @ + 1]
  /\ UNCHANGED queue
  /\ AfterShutdown(t)
  /\ UNCHANGED <<S, useCnt, list, tmp>>

putRTSQueue(t) ==
  /\ pc[t] = "post"
  /\ events' = [events EXCEPT !.out = @ + 1]
  /\ Put(ErrComm, [op |-> "close", s |-> ses[t], ok |-> TRUE])
  /\ AfterShutdown(t)
  /\ UNCHANGED <<S, useCnt, list, tmp>>

\* closeSocket, with the clear() that returns the receive buffer.
closeSocket(s) ==
  S' = [S EXCEPT ![s] = IF @.sock \in {"open", "shut"}
                        THEN [@ EXCEPT !.sock = "closed", !.connected = FALSE,
                                       !.buf = FALSE]
                        ELSE @]

\* No event block, or a post that fails and keeps its block.
PostFailed(t) ==
  /\ pc[t] = "post"
  /\ "post" \in Faults
  /\ events' \in {events, [out |-> events.out + 1, lost |-> events.lost + 1]}
  /\ closeSocket(ses[t])
  /\ AfterShutdown(t)
  /\ UNCHANGED <<useCnt, queue, list, tmp>>

----------------------------------------------------------------------------
(* Close and timeoutProcess, which set a bit of the status word first.     *)

Close(c, s) ==
  /\ pc[c] = "idle"
  /\ \/ S[s].used /\ S[s].known
     \/ \E m \in Comms : s \in Listed(m)
  /\ tmp' = [tmp EXCEPT ![c] = S[s].connected]
  /\ ses' = [ses EXCEPT ![c] = s]
  /\ Goto(c, "write")
  /\ UNCHANGED <<S, useCnt, queue, list, events, left>>

CloseWrite(c) ==
  /\ pc[c] = "write"
  /\ S' = [S EXCEPT ![ses[c]].connected = tmp[c]]
  /\ left' = [left EXCEPT ![c] = 1]
  /\ tmp' = [tmp EXCEPT ![c] = FALSE]
  /\ Goto(c, "test")
  /\ UNCHANGED <<useCnt, queue, list, events, ses>>

----------------------------------------------------------------------------
(* comproc_close.                                                          *)

comproc_close(w, s) ==
  LET q == queue[Serves[w]]
  IN /\ pc[w] = "idle"
     /\ q # <<>>
     /\ Head(q).op = "close" /\ Head(q).s = s
     /\ queue' = [queue EXCEPT ![Serves[w]] = Tail(q)]
     /\ ses' = [ses EXCEPT ![w] = s]
     /\ Goto(w, "del")
     /\ UNCHANGED <<S, useCnt, list, events, tmp, left>>

\* procAtonceClose without the list.
CloseDelDropped(w) ==
  /\ pc[w] = "del"
  /\ list' = list
  /\ Goto(w, "close")
  /\ UNCHANGED <<S, useCnt, queue, events, ses, tmp, left>>

\* procAtonceClose: off the list, closed, back to the pool.
CloseDel(w) ==
  /\ pc[w] = "del"
  /\ list' = IF S[ses[w]].accepted
             THEN [list EXCEPT ![Serves[w]] = Deleted(@, ses[w])]
             ELSE list
  /\ Goto(w, "close")
  /\ UNCHANGED <<S, useCnt, queue, events, ses, tmp, left>>

CloseSock(w) ==
  /\ pc[w] = "close"
  /\ closeSocket(ses[w])
  /\ Goto(w, "return")
  /\ UNCHANGED <<useCnt, queue, list, events, ses, tmp, left>>

delSocket(w) ==
  /\ pc[w] = "return"
  /\ \/ /\ S[ses[w]].accepted
        /\ S' = [S EXCEPT ![ses[w]].buf = FALSE, ![ses[w]].used = FALSE]
        /\ useCnt' = useCnt - 1
     \/ ~ S[ses[w]].accepted /\ UNCHANGED <<S, useCnt>>
  /\ Goto(w, "rearm")
  /\ UNCHANGED <<queue, list, events, ses, tmp, left>>

\* comproc_close that deletes its event twice.
bindAcceptTwice(w) ==
  LET s == ses[w]
  IN /\ pc[w] = "rearm"
     /\ events' = [events EXCEPT !.out = @ - 2]
     /\ S' = IF S[s].accepted
             THEN [S EXCEPT ![s].op = "accept",
                            ![s].io = IF S[s].sock = "open" THEN "accept" ELSE @]
             ELSE S
     /\ Return(w)
     /\ UNCHANGED <<useCnt, queue, list, tmp, left>>

\* comproc_close without deleteEvent.
bindAcceptKept(w) ==
  LET s == ses[w]
  IN /\ pc[w] = "rearm"
     /\ events' = events
     /\ S' = IF S[s].accepted
             THEN [S EXCEPT ![s].op = "accept",
                            ![s].io = IF S[s].sock = "open" THEN "accept" ELSE @]
             ELSE S
     /\ Return(w)
     /\ UNCHANGED <<useCnt, queue, list, tmp, left>>

\* comproc_close that arms the session on a fresh socket at once.
bindAcceptFresh(w) ==
  LET s == ses[w]
  IN /\ pc[w] = "rearm"
     /\ events' = [events EXCEPT !.out = @ - 1]
     /\ S' = IF S[s].accepted
             THEN [S EXCEPT ![s].op = "accept",
                            ![s].io = "accept"]
             ELSE S
     /\ Return(w)
     /\ UNCHANGED <<useCnt, queue, list, tmp, left>>

\* deleteEvent, then bindAccept: AcceptEx on a closed socket starts nothing.
bindAccept(w) ==
  LET s == ses[w]
  IN /\ pc[w] = "rearm"
     /\ events' = [events EXCEPT !.out = @ - 1]
     /\ S' = IF S[s].accepted
             THEN [S EXCEPT ![s].op = "accept",
                            ![s].io = IF S[s].sock = "open" THEN "accept" ELSE @]
             ELSE S
     /\ Return(w)
     /\ UNCHANGED <<useCnt, queue, list, tmp, left>>

----------------------------------------------------------------------------
Prepare == PrepareArm \/ PrepareRefused \/ PrepareRead \/ PrepareWrite

Stop(t) == ShutdownTest(t) \/ Shutdown(t) \/ putRTSQueue(t) \/ PostFailed(t)

Work(w) ==
  \/ \E s \in Sessions : \/ AcceptFailed(w, s) \/ doAccept(w, s)
                         \/ comproc_recvComplete(w, s) \/ comproc_close(w, s)
  \/ bindRecv(w) \/ RecvRefused(w) \/ AddSession(w)
  \/ CloseDel(w) \/ CloseSock(w) \/ delSocket(w) \/ bindAccept(w)
  \/ Stop(w)

System(s) == Connect(s) \/ Arrive(s) \/ Broken(s)

Next ==
  \/ Prepare
  \/ \E s \in Sessions : System(s)
  \/ \E w \in Workers : Work(w)
  \/ \E c \in Closers : CloseWrite(c) \/ Stop(c) \/ \E s \in Sessions : Close(c, s)

Spec == Init /\ [][Next]_vars

\* The operating system runs every thread and completes a receive on a socket
\* that was shut down; peers and closers need not do anything.
Fairness ==
  /\ \A w \in Workers : WF_vars(Work(w))
  /\ \A c \in Closers : WF_vars(CloseWrite(c) \/ Stop(c))
  /\ \A s \in Sessions : WF_vars(S[s].sock # "open" /\ Broken(s))
  /\ WF_vars(Prepare)

FairSpec == Spec /\ Fairness

----------------------------------------------------------------------------
At(labels) == {t \in Threads : pc[t] \in labels}
Queued(op, s) ==
  UNION {{<<c, k>> : k \in {j \in DOMAIN queue[c] : queue[c][j].op = op /\ queue[c][j].s = s}}
         : c \in Comms}
Handling(s) == {t \in At({"bind", "app"}) : ses[t] = s}
CloseEvents == UNION {Queued("close", s) : s \in Sessions}

\* The variables have their types.
TypeOK ==
  /\ S \in [Sessions -> [connected : BOOLEAN, accepted : BOOLEAN, used : BOOLEAN,
                         buf : BOOLEAN, known : BOOLEAN,
                         sock : {"none", "open", "shut", "closed"},
                         io : {"none", "accept", "recv"},
                         op : {"none", "accept", "recv", "error"}]]
  /\ useCnt \in Int
  /\ queue \in [Comms -> Seq([op : {"io", "close"}, s : Sessions, ok : BOOLEAN])]
  /\ list \in [Comms -> [arr : [Cells -> Sessions \cup {NoSession}],
                         filled : SUBSET Cells, cur : Int, first : -1 .. N]]
  /\ events \in [out : Nat, lost : Nat]
  /\ pc \in [Threads -> {"idle", "prepare", "read", "write", "bind", "app", "add",
                         "test", "shut", "post", "del", "close", "return", "rearm"}]
  /\ ses \in [Threads -> Sessions \cup {NoSession}]
  /\ tmp \in [Threads -> BOOLEAN]
  /\ left \in [Threads -> 0 .. 2]

\* The receive structure of a session is in one place: with the operating
\* system, in a completion port, or with one worker, so that no two workers
\* handle data of one socket, whoever closes it meanwhile.
OneReceive ==
  \A s \in Sessions :
    (IF S[s].io = "none" THEN 0 ELSE 1) + Cardinality(Queued("io", s))
      + Cardinality(Handling(s)) <= 1

\* Every event block out of the pool is in the port, with the worker that
\* handles it, or was lost by a failed post: racing closes of one session lose
\* no block and return none twice.
EventBlocksKept ==
  events.out - events.lost =
    Cardinality(CloseEvents) + Cardinality(At({"del", "close", "return", "rearm"}))

\* A session on a connection list is one the pool has given out: broadcast and
\* the timeout walk meet no session that was returned.
ListedInUse ==
  \A c \in Comms : \A s \in Listed(c) : S[s].used

\* The receive buffer stays with the session while a worker parses it.
BufferKept == \A w \in At({"app"}) : S[ses[w]].buf

\* A session is returned to the pool once: the counter of used sessions, from
\* which the free ones are computed, agrees with the flags.
ReturnedOnce == useCnt = Cardinality({s \in Sessions : S[s].used})

\* A session whose socket was shut down goes back to the pool.
ShutReturns ==
  \A s \in Sessions : S[s].sock = "shut" ~> ~ S[s].used

\* A receive that failed ends the session.
FailureReturns ==
  \A s \in Sessions : S[s].op = "error" ~> ~ S[s].used

\* Types, and who has what: the receive structure of a session is in one place
\* and every event block is accounted for, whoever closes the session meanwhile.
CompletionsOwned == TypeOK /\ OneReceive /\ EventBlocksKept

\* A session that was shut down, or whose receive failed, goes back to the pool
\* by way of the close event that socketShutdown posts.
SessionsReturn == ShutReturns /\ FailureReturns
============================================================================
