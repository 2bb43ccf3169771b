------------------------- MODULE SessionWorkerSteps -------------------------
(***************************************************************************)
(* The steps of the IOCP server with one worker on one completion port,    *)
(* whose sessions were armed before it ran, against the invariants that    *)
(* say when a session is on the connection list and who has its buffer.    *)
(***************************************************************************)
EXTENDS SessionSteps

USE SMTT(30)

\* One worker, one port, and prepareAccept over before the worker starts.
OneWorker ==
  /\ Prepared
  /\ \E w : Workers = {w}
  /\ \E c : Comms = {c}

CloseFor(s) ==
  \E c \in Comms : \E k \in DOMAIN queue[c] : queue[c][k].op = "close" /\ queue[c][k].s = s
Arrived(s) == \E c \in Comms : \E k \in DOMAIN queue[c] : queue[c][k] = Done(s, TRUE)
Ending(s) == \E t \in Threads : ses[t] = s /\ pc[t] \in Closing

\* Nobody knows a session before a client connects to it; a session that is
\* accepted, or on the list, is in use, and comproc_close takes it off the list
\* before it returns it.
First ==
  /\ pc[Main] = "idle"
  /\ \A s \in Sessions :
       /\ S[s].accepted
       /\ S[s].io = "accept" => S[s].op = "accept"
       /\ Waiting(s) => /\ S[s].used /\ ~ S[s].known /\ ~ CloseFor(s)
                        /\ \A t \in Threads : ses[t] # s
       /\ \A t \in Threads : Begins(t, s) => S[s].used
       /\ \A c \in Comms : s \in Listed(c) =>
            /\ S[s].used
            /\ \A t \in Threads : ses[t] = s => pc[t] \notin {"close", "return"}

\* Data that arrived is in the port before the close event of its session.
Ordered(s) ==
  \A c \in Comms : \A k, j \in DOMAIN queue[c] :
    queue[c][k].op = "close" /\ queue[c][k].s = s /\ queue[c][j] = Done(s, TRUE) => j < k

\* A session is shut down before it is closed, and the data that arrived before
\* is parsed by then.
Before ==
  \A s \in Sessions :
    /\ S[s].sock = "open" => /\ ~ CloseFor(s) /\ ~ Ending(s)
                             /\ \A t \in Threads : ses[t] = s => pc[t] # "post"
                             /\ S[s].io = "recv" => S[s].buf
    /\ Ordered(s)
    /\ Ending(s) => ~ Arrived(s)
    /\ Arrived(s) /\ S[s].op = "recv" => S[s].buf

Later == Before /\ BufferKept

----------------------------------------------------------------------------
(* What a step does to the ports, as one session sees it.                  *)

\* A message is queued.
LEMMA PutSeen ==
  ASSUME TypeOK, NEW c \in Comms, NEW m \in Message, Put(c, m)
  PROVE  /\ \A r \in Sessions : CloseFor(r)' => CloseFor(r) \/ (m.op = "close" /\ m.s = r)
         /\ \A r \in Sessions : Arrived(r)' => Arrived(r) \/ m = Done(r, TRUE)
         /\ \A r \in Sessions : Ordered(r) /\ (m = Done(r, TRUE) => ~ CloseFor(r)) => Ordered(r)'
<1> DEFINE n == Len(queue[c]) + 1
<1>1. /\ queue' \in [Comms -> Seq(Message)]
      /\ \A d \in Comms \ {c} : queue'[d] = queue[d]
      /\ n \notin DOMAIN queue[c]
      /\ DOMAIN queue'[c] = DOMAIN queue[c] \cup {n}
      /\ queue'[c][n] = m
      /\ \A k \in DOMAIN queue[c] : queue'[c][k] = queue[c][k] /\ k < n
  BY PutCells, Zenon
<1> HIDE DEF n
<1>2. \A r \in Sessions : CloseFor(r)' => CloseFor(r) \/ (m.op = "close" /\ m.s = r)
  BY <1>1 DEF CloseFor
<1>3. \A r \in Sessions : Arrived(r)' => Arrived(r) \/ m = Done(r, TRUE)
  BY <1>1, Zenon DEF Arrived
<1>4. ASSUME NEW r \in Sessions, Ordered(r), m = Done(r, TRUE) => ~ CloseFor(r),
             NEW d \in Comms, NEW k \in DOMAIN queue'[d], NEW j \in DOMAIN queue'[d],
             queue'[d][k].op = "close", queue'[d][k].s = r, queue'[d][j] = Done(r, TRUE)
      PROVE  j < k
  <2>1. Done(r, TRUE).op = "io"
    BY DEF Done
  <2>2. CASE d # c
    BY <1>1, <1>4, <2>2, Zenon DEF Ordered
  <2>3. CASE d = c /\ j \in DOMAIN queue[c] /\ k \in DOMAIN queue[c]
    BY <1>1, <1>4, <2>3, Zenon DEF Ordered
  <2>4. CASE d = c /\ j \in DOMAIN queue[c] /\ k = n
    BY <1>1, <1>4, <2>4
  <2>5. CASE d = c /\ j = n
    <3>1. k \in DOMAIN queue[c] /\ queue[c][k].op = "close" /\ queue[c][k].s = r
      BY <1>1, <1>4, <2>1, <2>5, Zenon
    <3> QED
      BY <1>1, <1>4, <2>5, <3>1 DEF CloseFor
  <2> QED
    BY <1>1, <2>2, <2>3, <2>4, <2>5
<1>5. \A r \in Sessions : Ordered(r) /\ (m = Done(r, TRUE) => ~ CloseFor(r)) => Ordered(r)'
  BY <1>4 DEF Ordered, Done
<1> QED
  BY <1>2, <1>3, <1>5, Zenon

\* A message is taken.
LEMMA TakeSeen ==
  ASSUME TypeOK, NEW c \in Comms, queue[c] # <<>>,
         queue' = [queue EXCEPT ![c] = Tail(queue[c])]
  PROVE  /\ \A r \in Sessions : CloseFor(r)' => CloseFor(r)
         /\ \A r \in Sessions : Arrived(r)' => Arrived(r)
         /\ \A r \in Sessions : Ordered(r) => Ordered(r)'
         /\ \A r \in Sessions : Head(queue[c]) = Done(r, TRUE) => Arrived(r)
         /\ \A r \in Sessions : Head(queue[c]).op = "close" /\ Head(queue[c]).s = r =>
              /\ CloseFor(r)
              /\ Comms = {c} /\ Ordered(r) => ~ Arrived(r)
<1>1. /\ \A d \in Comms \ {c} : queue'[d] = queue[d]
      /\ 1 \in DOMAIN queue[c] /\ Head(queue[c]) = queue[c][1]
      /\ \A k \in DOMAIN queue'[c] :
           /\ k \in Int /\ k + 1 # 1
           /\ k + 1 \in DOMAIN queue[c] /\ queue'[c][k] = queue[c][k + 1]
  BY TakeCells, Zenon
<1>2. \A r \in Sessions : CloseFor(r)' => CloseFor(r)
  BY <1>1 DEF CloseFor
<1>3. ASSUME NEW r \in Sessions, Arrived(r)' PROVE Arrived(r)
  <2>1. PICK d \in Comms : \E k \in DOMAIN queue'[d] : queue'[d][k] = Done(r, TRUE)
    BY <1>3 DEF Arrived, Done
  <2>2. PICK k \in DOMAIN queue'[d] : queue'[d][k] = Done(r, TRUE)
    BY <2>1, Zenon
  <2>3. \E j \in DOMAIN queue[d] : queue[d][j] = Done(r, TRUE)
    <3>1. CASE d = c
      <4>1. k + 1 \in DOMAIN queue[c] /\ queue[c][k + 1] = Done(r, TRUE)
        BY <1>1, <2>2, <3>1, Zenon
      <4> QED
        BY <3>1, <4>1, Zenon
    <3>2. CASE d # c
      BY <1>1, <2>2, <3>2, Zenon
    <3> QED
      BY <3>1, <3>2, Zenon
  <2> QED
    BY <2>3, Zenon DEF Arrived
<1>4. ASSUME NEW r \in Sessions, Ordered(r),
             NEW d \in Comms, NEW k \in DOMAIN queue'[d], NEW j \in DOMAIN queue'[d],
             queue'[d][k].op = "close", queue'[d][k].s = r, queue'[d][j] = Done(r, TRUE)
      PROVE  j < k
  <2>1. CASE d # c
    BY <1>1, <1>4, <2>1, Zenon DEF Ordered
  <2>2. CASE d = c
    <3>1. /\ k + 1 \in DOMAIN queue[c] /\ j + 1 \in DOMAIN queue[c] /\ k \in Int /\ j \in Int
          /\ queue[c][k + 1].op = "close" /\ queue[c][k + 1].s = r
          /\ queue[c][j + 1] = Done(r, TRUE)
      BY <1>1, <1>4, <2>2, Zenon
    <3>2. j + 1 < k + 1
      BY <1>4, <3>1, Zenon DEF Ordered
    <3> QED
      BY <3>1, <3>2
  <2> QED
    BY <2>1, <2>2
<1>5. \A r \in Sessions : Ordered(r) => Ordered(r)'
  BY <1>4 DEF Ordered, Done
<1>6. \A r \in Sessions : Head(queue[c]) = Done(r, TRUE) => Arrived(r)
  BY <1>1, Zenon DEF Arrived
<1>7. \A r \in Sessions : Head(queue[c]).op = "close" /\ Head(queue[c]).s = r => CloseFor(r)
  BY <1>1 DEF CloseFor
<1>8. ASSUME NEW r \in Sessions, Head(queue[c]).op = "close", Head(queue[c]).s = r,
             Comms = {c}, Ordered(r), Arrived(r)
      PROVE  FALSE
  <2>1. PICK j \in DOMAIN queue[c] : queue[c][j] = Done(r, TRUE)
    BY <1>8, Zenon DEF Arrived
  <2>2. j < 1
    BY <1>1, <1>8, <2>1, Zenon DEF Ordered
  <2>3. queue[c] \in Seq(Message)
    BY Zenon DEF TypeOK, Message
  <2> QED
    BY <2>2, <2>3
<1> QED
  BY <1>2, <1>3, <1>5, <1>6, <1>7, <1>8, Zenon

----------------------------------------------------------------------------
(* A step of thread t on session s.                                        *)

\* The session is accepted by then; it stays in use while it is on the list or
\* about to be put on it.
LEMMA FirstStep ==
  ASSUME TypeOK, First, NEW t \in Threads \ {Main}, Others(t), Main \in Threads,
         NEW s \in Sessions, OnlyS(s), ses'[t] \in {s, NoSession},
         S'[s].accepted, S'[s].io # "accept", ~ Waiting(s)',
         \A u \in Threads : Begins(u, s)' => S'[s].used,
         \A c \in Comms : \A r \in Sessions \ {s} : r \in Listed(c)' => r \in Listed(c),
         \A c \in Comms : s \in Listed(c)' =>
           /\ S'[s].used
           /\ \A u \in Threads : ses'[u] = s => pc'[u] \notin {"close", "return"},
         \A r \in Sessions \ {s} : CloseFor(r)' => CloseFor(r)
  PROVE  First'
<1>1. pc'[Main] = "idle"
  BY DEF First, Others
<1>2. \A r \in Sessions : NoSession # r
  BY DEF Sessions, NoSession
<1>3. ASSUME NEW r \in Sessions \ {s}
      PROVE  /\ S'[r].accepted
             /\ S'[r].io = "accept" => S'[r].op = "accept"
             /\ Waiting(r)' => /\ S'[r].used /\ ~ S'[r].known /\ ~ CloseFor(r)'
                               /\ \A u \in Threads : ses'[u] # r
             /\ \A u \in Threads : Begins(u, r)' => S'[r].used
             /\ \A c \in Comms : r \in Listed(c)' =>
                  /\ S'[r].used
                  /\ \A u \in Threads : ses'[u] = r => pc'[u] \notin {"close", "return"}
  <2>1. S'[r] = S[r] /\ ses'[t] # r
    BY <1>2 DEF OnlyS
  <2>2. \A u \in Threads : u # t => pc'[u] = pc[u] /\ ses'[u] = ses[u]
    BY DEF Others
  <2>3. Waiting(r)' => Waiting(r)
    BY <2>1 DEF Waiting
  <2>4. \A u \in Threads : Begins(u, r)' => Begins(u, r)
    BY <2>1, <2>2 DEF Begins
  <2> QED
    BY <2>1, <2>2, <2>3, <2>4 DEF First
<1> QED
  BY <1>1, <1>3 DEF First

\* Data that arrived keeps its buffer until it is parsed.
LEMMA BeforeStep ==
  ASSUME TypeOK, Later, NEW t \in Threads, Others(t),
         NEW s \in Sessions, OnlyS(s), ses'[t] \in {s, NoSession},
         S'[s].sock = "open" =>
           /\ S[s].sock = "open" /\ ~ CloseFor(s)'
           /\ ses'[t] = s => pc'[t] \notin Closing \cup {"post"}
           /\ S'[s].io = "recv" => S'[s].buf,
         ses'[t] = s /\ pc'[t] \in Closing => ~ Arrived(s)',
         Arrived(s)' /\ S'[s].op = "recv" => S'[s].buf,
         \A u \in Threads : pc'[u] = "app" /\ ses'[u] = s => S'[s].buf,
         pc'[t] = "app" => ses'[t] = s,
         \A u \in Threads : pc[u] = "app" => ses[u] \in Sessions,
         \A r \in Sessions \ {s} : CloseFor(r)' => CloseFor(r),
         \A r \in Sessions : Arrived(r)' => Arrived(r),
         \A r \in Sessions : Ordered(r)'
  PROVE  Later'
<1>1. \A r \in Sessions : NoSession # r
  BY DEF Sessions, NoSession
<1>2. \A u \in Threads : u # t => pc'[u] = pc[u] /\ ses'[u] = ses[u]
  BY DEF Others
<1>3. ASSUME NEW r \in Sessions
      PROVE  /\ S'[r].sock = "open" => /\ ~ CloseFor(r)' /\ ~ Ending(r)'
                                       /\ \A u \in Threads : ses'[u] = r => pc'[u] # "post"
                                       /\ S'[r].io = "recv" => S'[r].buf
             /\ Ordered(r)'
             /\ Ending(r)' => ~ Arrived(r)'
             /\ Arrived(r)' /\ S'[r].op = "recv" => S'[r].buf
  <2>1. CASE r = s
    <3>1. Ending(s)' => Ending(s) \/ (ses'[t] = s /\ pc'[t] \in Closing)
      BY <1>2 DEF Ending
    <3> QED
      BY <1>2, <2>1, <3>1 DEF Later, Before
  <2>2. CASE r # s
    <3>1. S'[r] = S[r] /\ ses'[t] # r
      BY <1>1, <2>2 DEF OnlyS
    <3>2. Ending(r)' => Ending(r)
      BY <1>2, <3>1 DEF Ending
    <3> QED
      BY <1>2, <2>2, <3>1, <3>2, Zenon DEF Later, Before
  <2> QED
    BY <2>1, <2>2
<1>4. Before'
  BY <1>3 DEF Before
<1>5. ASSUME NEW u \in Threads, pc'[u] = "app" PROVE S'[ses'[u]].buf
  <2>1. CASE ses'[u] = s
    BY <1>5, <2>1
  <2>2. CASE ses'[u] # s
    <3>1. u # t
      BY <1>5, <2>2
    <3>2. pc[u] = "app" /\ ses'[u] = ses[u] /\ ses[u] \in Sessions
      BY <1>2, <1>5, <3>1
    <3>3. S'[ses[u]] = S[ses[u]]
      BY <2>2, <3>2 DEF OnlyS
    <3> QED
      BY <3>2, <3>3 DEF Later, BufferKept, At
  <2> QED
    BY <2>1, <2>2
<1>6. BufferKept'
  BY <1>5 DEF BufferKept, At
<1> QED
  BY <1>4, <1>6 DEF Later

----------------------------------------------------------------------------
(* The worker.                                                             *)

\* The thread that is at a step of a handler is the worker.
LEMMA TheWorker ==
  ASSUME Kinds', NEW w, Workers = {w}
  PROVE  \A u \in Threads : pc'[u] \in {"bind", "app", "add"} \cup Closing => u = w
<1>1. \A u \in Threads : u = w \/ u \in Closers \/ u = Main
  BY DEF Threads
<1> QED
  BY <1>1 DEF Kinds, Closing

\* What holds of the session of a thread that is not idle, and of a thread.
LEMMA Working ==
  ASSUME Inv, First, NEW t \in Threads, pc[t] # "idle"
  PROVE  /\ t # Main /\ ses[t] \in Sessions
         /\ ~ Waiting(ses[t]) /\ S[ses[t]].io # "accept" /\ S[ses[t]].accepted
BY DEF Inv, Kinds, First, Waiting

\* A step that leaves the list alone.
LEMMA SameListed ==
  ASSUME list' = list
  PROVE  \A c \in Comms : Listed(c)' = Listed(c)
BY DEF Listed

\* A step that leaves the ports alone.
LEMMA SamePorts ==
  ASSUME queue' = queue
  PROVE  \A r \in Sessions : /\ CloseFor(r)' <=> CloseFor(r)
                             /\ Arrived(r)' <=> Arrived(r)
                             /\ Ordered(r)' <=> Ordered(r)
BY DEF CloseFor, Arrived, Ordered

\* The worker dequeues the completion of an accept or of a receive.
LEMMA TakesSeen ==
  ASSUME Inv, NEW w \in Workers, NEW s \in Sessions, NEW o, NEW ok, Takes(w, o, s, ok)
  PROVE  /\ pc[w] = "idle" /\ S[s].op = o /\ S[s].io = "none"
         /\ \A r \in Sessions : CloseFor(r)' => CloseFor(r)
         /\ \A r \in Sessions : Arrived(r)' => Arrived(r)
         /\ \A r \in Sessions : Ordered(r) => Ordered(r)'
         /\ ok = TRUE => Arrived(s)
<1> USE DEF Inv
<1>1. /\ pc[w] = "idle" /\ S[s].op = o /\ queue[Serves[w]] # <<>>
      /\ Head(queue[Serves[w]]) = Done(s, ok)
      /\ queue' = [queue EXCEPT ![Serves[w]] = Tail(queue[Serves[w]])]
  BY DEF Takes
<1>2. Serves[w] \in Comms
  BY CommsAssumption
<1>3. InPort(s)
  BY TakesView, Zenon
<1>4. S[s].io = "none"
  BY <1>3 DEF Owned, OneHolder
<1> QED
  BY <1>1, <1>2, <1>4, TakeSeen, Zenon

\* doAccept, failed or not.
LEMMA AcceptLater ==
  ASSUME Inv, Inv', First, NEW w, Workers = {w}, NEW s \in Sessions,
         AcceptFailed(w, s) \/ doAccept(w, s)
  PROVE  First' /\ (Later => Later')
<1> USE DEF Inv
<1>1. PICK ok \in BOOLEAN : Takes(w, "accept", s, ok)
  BY DEF AcceptFailed, doAccept
<1>2. /\ pc[w] = "idle" /\ S[s].op = "accept" /\ S[s].io = "none"
      /\ \A r \in Sessions : CloseFor(r)' => CloseFor(r)
      /\ \A r \in Sessions : Arrived(r)' => Arrived(r)
      /\ \A r \in Sessions : Ordered(r) => Ordered(r)'
  BY <1>1, TakesSeen, Zenon
<1>3. w \in Threads /\ w # Main /\ Main \in Threads
  BY ThreadsAssumption DEF Threads
<1>4. S' = [S EXCEPT ![s].connected = TRUE, ![s].op = "none"] /\ list' = list
  BY Zenon DEF AcceptFailed, doAccept
<1>5. /\ OnlyS(s) /\ S'[s].op = "none" /\ S'[s].io = "none" /\ S'[s].sock = S[s].sock
      /\ S'[s].used = S[s].used /\ S'[s].accepted = S[s].accepted /\ S'[s].buf = S[s].buf
  BY <1>2, <1>4, AcceptRec, Zenon
<1>6. /\ Others(w)
      /\ \/ pc'[w] = "idle" /\ ses'[w] = NoSession
         \/ pc'[w] = "bind" /\ ses'[w] = s /\ S[s].sock = "open"
  <2>1. CASE AcceptFailed(w, s)
    BY <1>2, <1>3, <2>1, Zenon DEF AcceptFailed, Others, Kinds
  <2>2. CASE doAccept(w, s)
    BY <1>3, <2>2 DEF doAccept, Goto, Others, TypeOK
  <2> QED
    BY <2>1, <2>2
<1>7. \A c \in Comms : Listed(c)' = Listed(c)
  BY <1>4, SameListed, Zenon
<1>8. \A u \in Threads : pc'[u] \in {"bind", "app", "add"} \cup Closing => u = w
  BY TheWorker, Zenon
<1>9. First'
  <2>1. ~ Waiting(s)' /\ S'[s].accepted /\ S'[s].io # "accept" /\ ses'[w] \in {s, NoSession}
    BY <1>5, <1>6 DEF Waiting, First
  <2>2. \A u \in Threads : Begins(u, s)' => S'[s].used
    <3>1. pc'[w] = "bind" => S[s].used
      BY <1>2, <1>6 DEF First, Waiting
    <3>2. \A u \in Threads : Begins(u, s)' => u = w /\ pc'[w] = "bind"
      BY <1>6, <1>8, Zenon DEF Begins
    <3> QED
      BY <1>5, <3>1, <3>2, Zenon
  <2>3. \A c \in Comms : s \in Listed(c)' =>
           /\ S'[s].used
           /\ \A u \in Threads : ses'[u] = s => pc'[u] \notin {"close", "return"}
    BY <1>5, <1>6, <1>7, <1>8, Zenon DEF First, Closing
  <2> QED
    BY <1>2, <1>3, <1>5, <1>6, <1>7, <2>1, <2>2, <2>3, FirstStep, Zenon
<1>10. ASSUME Later PROVE Later'
  <2>1. S'[s].sock = "open" => S[s].sock = "open" /\ ~ CloseFor(s)'
    BY <1>2, <1>5, <1>10, Zenon DEF Later, Before
  <2>2. pc'[w] \notin Closing \cup {"post", "app"} /\ ses'[w] \in {s, NoSession}
    BY <1>6 DEF Closing
  <2>3. \A u \in Threads : pc'[u] = "app" /\ ses'[u] = s => S'[s].buf
    BY <1>8, <2>2, Zenon
  <2>4. \A u \in Threads : pc[u] = "app" => ses[u] \in Sessions
    BY Zenon DEF Kinds
  <2>5. \A r \in Sessions : Ordered(r)'
    BY <1>2, <1>10 DEF Later, Before
  <2> QED
    BY <1>2, <1>3, <1>5, <1>6, <1>10, <2>1, <2>2, <2>3, <2>4, <2>5, BeforeStep, Zenon
<1> QED
  BY <1>9, <1>10

\* comproc_recvComplete.
LEMMA RecvCompleteLater ==
  ASSUME Inv, Inv', First, NEW w, Workers = {w}, NEW s \in Sessions, comproc_recvComplete(w, s)
  PROVE  First' /\ (Later => Later')
<1> USE DEF Inv
<1>1. w \in Threads /\ w # Main /\ Main \in Threads
  BY ThreadsAssumption DEF Threads
<1>2. PICK ok \in BOOLEAN : /\ Takes(w, "recv", s, ok)
                            /\ IF ok THEN S' = [S EXCEPT ![s].known = TRUE] /\ Goto(w, "app")
                               ELSE S' = [S EXCEPT ![s].op = "error"] /\ Goto(w, "test")
  BY Zenon DEF comproc_recvComplete
<1>3. /\ pc[w] = "idle" /\ S[s].op = "recv" /\ S[s].io = "none"
      /\ \A r \in Sessions : CloseFor(r)' => CloseFor(r)
      /\ \A r \in Sessions : Arrived(r)' => Arrived(r)
      /\ \A r \in Sessions : Ordered(r) => Ordered(r)'
      /\ ok = TRUE => Arrived(s)
  BY <1>2, TakesSeen, Zenon
<1>4. /\ OnlyS(s) /\ S'[s].op \in {"recv", "error"} /\ S'[s].io = "none" /\ S'[s].sock = S[s].sock
      /\ S'[s].used = S[s].used /\ S'[s].accepted = S[s].accepted /\ S'[s].buf = S[s].buf
  BY <1>2, <1>3, CompleteRecvRec, Zenon
<1>5. /\ Others(w) /\ list' = list /\ ses'[w] = s
      /\ pc'[w] = IF ok THEN "app" ELSE "test"
  BY <1>1, <1>2 DEF comproc_recvComplete, Goto, Others, TypeOK
<1>6. \A c \in Comms : Listed(c)' = Listed(c)
  BY <1>5, SameListed, Zenon
<1>7. \A u \in Threads : pc'[u] \in {"bind", "app", "add"} \cup Closing => u = w
  BY TheWorker, Zenon
<1>8. First'
  <2>1. ~ Waiting(s)' /\ S'[s].accepted /\ S'[s].io # "accept" /\ ses'[w] \in {s, NoSession}
    BY <1>4, <1>5 DEF Waiting, First
  <2>2. \A u \in Threads : ~ Begins(u, s)'
    BY <1>5, <1>7 DEF Begins
  <2>3. \A c \in Comms : s \in Listed(c)' =>
           /\ S'[s].used
           /\ \A u \in Threads : ses'[u] = s => pc'[u] \notin {"close", "return"}
    BY <1>4, <1>5, <1>6, <1>7, Zenon DEF First, Closing
  <2> QED
    BY <1>1, <1>3, <1>4, <1>5, <1>6, <2>1, <2>2, <2>3, FirstStep, Zenon
<1>9. ASSUME Later PROVE Later'
  <2>1. S'[s].sock = "open" => S[s].sock = "open" /\ ~ CloseFor(s)'
    BY <1>3, <1>4, <1>9, Zenon DEF Later, Before
  <2>2. pc'[w] \notin Closing \cup {"post"} /\ ses'[w] = s
    BY <1>5 DEF Closing
  <2>3. /\ Arrived(s)' => S'[s].buf
        /\ \A u \in Threads : pc'[u] = "app" /\ ses'[u] = s => S'[s].buf
    BY <1>3, <1>4, <1>5, <1>7, <1>9, Zenon DEF Later, Before
  <2>4. \A u \in Threads : pc[u] = "app" => ses[u] \in Sessions
    BY DEF Kinds
  <2>5. \A r \in Sessions : Ordered(r)'
    BY <1>3, <1>9 DEF Later, Before
  <2> QED
    BY <1>1, <1>3, <1>4, <1>5, <1>9, <2>1, <2>2, <2>3, <2>4, <2>5, BeforeStep, Zenon
<1> QED
  BY <1>8, <1>9

\* comproc_close: every data message of the session was ahead of the close event.
LEMMA TakeCloseLater ==
  ASSUME Inv, Inv', First, NEW w, Workers = {w}, \E c : Comms = {c},
         NEW s \in Sessions, comproc_close(w, s)
  PROVE  First' /\ (Later => Later')
<1> USE DEF Inv
<1>1. w \in Threads /\ w # Main /\ Main \in Threads
  BY ThreadsAssumption DEF Threads
<1>2. PICK c \in Comms : c = Serves[w] /\ Comms = {c}
  BY CommsAssumption
<1>3. /\ queue[c] # <<>> /\ queue' = [queue EXCEPT ![c] = Tail(queue[c])]
      /\ Head(queue[c]).op = "close" /\ Head(queue[c]).s = s
      /\ pc[w] = "idle" /\ S' = S /\ list' = list
  BY <1>2 DEF comproc_close
<1>4. /\ \A r \in Sessions : CloseFor(r)' => CloseFor(r)
      /\ \A r \in Sessions : Arrived(r)' => Arrived(r)
      /\ \A r \in Sessions : Ordered(r) => Ordered(r)'
      /\ CloseFor(s) /\ (Ordered(s) => ~ Arrived(s))
  BY <1>2, <1>3, TakeSeen, Zenon
<1>5. OnlyS(s)
  BY <1>3, SameSession, Zenon
<1>6. Others(w) /\ ses'[w] = s /\ pc'[w] = "del"
  BY <1>1 DEF comproc_close, Goto, Others, TypeOK
<1>7. \A d \in Comms : Listed(d)' = Listed(d)
  BY <1>3, SameListed, Zenon
<1>8. \A u \in Threads : pc'[u] \in {"bind", "app", "add"} \cup Closing => u = w
  BY TheWorker, Zenon
<1>9. First'
  <2>1. ~ Waiting(s)' /\ S'[s].accepted /\ S'[s].io # "accept" /\ ses'[w] \in {s, NoSession}
    BY <1>3, <1>4, <1>6, Zenon DEF Waiting, First
  <2>2. \A u \in Threads : ~ Begins(u, s)'
    BY <1>6, <1>8 DEF Begins
  <2>3. \A d \in Comms : s \in Listed(d)' =>
           /\ S'[s].used
           /\ \A u \in Threads : ses'[u] = s => pc'[u] \notin {"close", "return"}
    BY <1>3, <1>6, <1>7, <1>8, Zenon DEF First, Closing
  <2> QED
    BY <1>1, <1>3, <1>4, <1>5, <1>6, <1>7, <2>1, <2>2, <2>3, FirstStep, Zenon
<1>10. ASSUME Later PROVE Later'
  <2>1. S'[s].sock # "open" /\ ~ Arrived(s)'
    BY <1>3, <1>4, <1>10, Zenon DEF Later, Before
  <2>2. \A u \in Threads : ~ (pc'[u] = "app" /\ ses'[u] = s)
    BY <1>6, <1>8
  <2>3. \A u \in Threads : pc[u] = "app" => ses[u] \in Sessions
    BY DEF Kinds
  <2>4. \A r \in Sessions : Ordered(r)'
    BY <1>4, <1>10 DEF Later, Before
  <2> QED
    BY <1>1, <1>4, <1>5, <1>6, <1>10, <2>1, <2>2, <2>3, <2>4, BeforeStep, Zenon
<1> QED
  BY <1>9, <1>10

\* bindRecv, refused or not.
LEMMA BindLater ==
  ASSUME Inv, Inv', First, NEW w, Workers = {w}, bindRecv(w) \/ RecvRefused(w)
  PROVE  First' /\ (Later => Later')
<1> USE DEF Inv
<1>1. w \in Threads /\ w # Main /\ Main \in Threads
  BY ThreadsAssumption DEF Threads
<1>2. pc[w] \in {"bind", "app"} /\ queue' = queue /\ list' = list
  BY DEF bindRecv, RecvRefused
<1>3. PICK s \in Sessions : s = ses[w] /\ S[s].accepted
  BY <1>1, <1>2, Working, Zenon
<1>4. S[s].io = "none"
  BY <1>1, <1>2, <1>3 DEF Owned, OneHolder, Handles
<1>5. /\ OnlyS(s) /\ S'[s].op = "recv" /\ S'[s].io \in {"none", "recv"} /\ S'[s].sock = S[s].sock
      /\ S'[s].used = S[s].used /\ S'[s].accepted = S[s].accepted /\ S'[s].buf
  BY <1>3, <1>4, RecvRec, Zenon DEF bindRecv, RecvRefused
<1>6. /\ Others(w) /\ pc'[w] \in {"add", "idle", "test"} /\ ses'[w] \in {s, NoSession}
      /\ pc'[w] = "add" => pc[w] = "bind"
  BY <1>1, <1>3 DEF bindRecv, RecvRefused, Goto, Return, Others, TypeOK
<1>7. \A c \in Comms : Listed(c)' = Listed(c)
  BY <1>2, SameListed, Zenon
<1>8. \A r \in Sessions : (CloseFor(r)' <=> CloseFor(r)) /\ (Arrived(r)' <=> Arrived(r))
                          /\ (Ordered(r)' <=> Ordered(r))
  BY <1>2, SamePorts, Zenon
<1>9. \A u \in Threads : pc'[u] \in {"bind", "app", "add"} \cup Closing => u = w
  BY TheWorker, Zenon
<1>10. First'
  <2>1. ~ Waiting(s)' /\ S'[s].io # "accept"
    BY <1>5 DEF Waiting
  <2>2. \A u \in Threads : Begins(u, s)' => S'[s].used
    BY <1>1, <1>3, <1>5, <1>6, <1>9, Zenon DEF Begins, First
  <2>3. \A c \in Comms : s \in Listed(c)' =>
           /\ S'[s].used
           /\ \A u \in Threads : ses'[u] = s => pc'[u] \notin {"close", "return"}
    BY <1>5, <1>6, <1>7, <1>9 DEF First, Closing
  <2> QED
    BY <1>1, <1>3, <1>5, <1>6, <1>7, <1>8, <2>1, <2>2, <2>3, FirstStep, Zenon
<1>11. ASSUME Later PROVE Later'
  <2>1. S'[s].sock = "open" => S[s].sock = "open" /\ ~ CloseFor(s)'
    BY <1>5, <1>8, <1>11, Zenon DEF Later, Before
  <2>2. pc'[w] \notin Closing \cup {"post", "app"}
    BY <1>6 DEF Closing
  <2>3. \A u \in Threads : pc[u] = "app" => ses[u] \in Sessions
    BY DEF Kinds
  <2>4. \A r \in Sessions : Ordered(r)'
    BY <1>8, <1>11 DEF Later, Before
  <2> QED
    BY <1>1, <1>5, <1>6, <1>8, <1>11, <2>1, <2>2, <2>3, <2>4, BeforeStep, Zenon
<1> QED
  BY <1>10, <1>11

\* add puts a session on the list that was accepted and is in use.
LEMMA AddLater ==
  ASSUME Inv, Inv', Room, First, NEW w, Workers = {w}, AddSession(w)
  PROVE  First' /\ (Later => Later')
<1> USE DEF Inv
<1>1. w \in Threads /\ w # Main /\ Main \in Threads /\ w \in Workers
  BY ThreadsAssumption DEF Threads
<1>2. pc[w] = "add" /\ queue' = queue /\ S' = S
  BY DEF AddSession
<1>3. PICK s \in Sessions : s = ses[w] /\ S[s].accepted /\ ~ Waiting(s) /\ S[s].io # "accept"
  BY <1>1, <1>2, Working, Zenon
<1>4. S[s].used
  BY <1>1, <1>2, <1>3, Zenon DEF First, Begins
<1>5. OnlyS(s) /\ ~ Waiting(s)'
  BY <1>2, <1>3, SameSession, Zenon
<1>6. Others(w) /\ pc'[w] \in {"idle", "test"} /\ ses'[w] \in {s, NoSession}
  BY <1>1, <1>3 DEF AddSession, Goto, Return, Others, TypeOK
<1>7. \A c \in Comms : \A r \in Sessions \ {s} : r \in Listed(c)' => r \in Listed(c)
  <2> DEFINE d == Serves[w]
             k == AddCell(list[d])
  <2>1. /\ d \in Comms /\ k \in Cells
        /\ \A e \in Comms \ {d} : list'[e] = list[e]
        /\ list'[d].filled = list[d].filled \cup {k}
        /\ list'[d].arr[k] = s
        /\ \A j \in Cells \ {k} : list'[d].arr[j] = list[d].arr[j]
    BY <1>1, <1>3, AddEffect, Zenon
  <2>2. list[d].filled \subseteq Cells
    BY <2>1 DEF TypeOK
  <2> HIDE DEF d, k
  <2> QED
    BY <2>1, <2>2 DEF Listed
<1>8. \A r \in Sessions : (CloseFor(r)' <=> CloseFor(r)) /\ (Arrived(r)' <=> Arrived(r))
                          /\ (Ordered(r)' <=> Ordered(r))
  BY <1>2, SamePorts, Zenon
<1>9. \A u \in Threads : pc'[u] \in {"bind", "app", "add"} \cup Closing => u = w
  BY TheWorker, Zenon
<1>10. First'
  <2>1. \A u \in Threads : ses'[u] = s => pc'[u] \notin {"close", "return"}
    BY <1>6, <1>9 DEF Closing
  <2>2. \A u \in Threads : ~ Begins(u, s)'
    BY <1>6, <1>9, Zenon DEF Begins
  <2> QED
    BY <1>1, <1>2, <1>3, <1>4, <1>5, <1>6, <1>7, <1>8, <2>1, <2>2, FirstStep, Zenon
<1>11. ASSUME Later PROVE Later'
  <2>1. /\ S'[s].sock = "open" => ~ CloseFor(s)' /\ (S'[s].io = "recv" => S'[s].buf)
        /\ Arrived(s)' /\ S'[s].op = "recv" => S'[s].buf
    BY <1>2, <1>8, <1>11 DEF Later, Before
  <2>2. pc'[w] \notin Closing \cup {"post", "app"}
    BY <1>6 DEF Closing
  <2>3. /\ \A u \in Threads : pc[u] = "app" => ses[u] \in Sessions
        /\ \A u \in Threads : pc'[u] # "app"
    BY <1>9, <2>2, Zenon DEF Kinds
  <2>4. \A r \in Sessions : Ordered(r)'
    BY <1>8, <1>11 DEF Later, Before
  <2> QED
    BY <1>1, <1>2, <1>5, <1>6, <1>8, <1>11, <2>1, <2>2, <2>3, <2>4, BeforeStep, Zenon
<1> QED
  BY <1>10, <1>11

\* The rest of comproc_close.
LEMMA CloseLater ==
  ASSUME Inv, Inv', First, NEW w, Workers = {w}, \E c : Comms = {c},
         CloseDel(w) \/ CloseSock(w) \/ delSocket(w) \/ bindAccept(w)
  PROVE  First' /\ (Later => Later')
<1> USE DEF Inv
<1>1. w \in Threads /\ w # Main /\ Main \in Threads /\ w \in Workers
  BY ThreadsAssumption DEF Threads
<1>2. pc[w] \in Closing /\ pc[w] # "idle" /\ queue' = queue
  BY DEF CloseDel, CloseSock, delSocket, bindAccept, Closing
<1>3. PICK s \in Sessions : s = ses[w] /\ S[s].accepted /\ ~ Waiting(s) /\ S[s].io # "accept"
  BY <1>1, <1>2, Working, Zenon
<1>4. /\ Others(w) /\ ses'[w] \in {s, NoSession} /\ (ses'[w] = NoSession => pc'[w] = "idle")
      /\ pc'[w] \in Closing \cup {"idle"}
  <2>1. CASE bindAccept(w)
    BY <1>1, <2>1 DEF bindAccept, Goto, Return, Others, TypeOK
  <2>2. CASE ~ bindAccept(w)
    <3>1. PICK l \in {"close", "return", "rearm"} : Goto(w, l) /\ ses' = ses
      BY <2>2 DEF CloseDel, CloseSock, delSocket
    <3>2. s # NoSession
      BY DEF Sessions, NoSession
    <3> QED
      BY <1>1, <1>3, <3>1, <3>2 DEF Goto, Others, TypeOK, Closing
  <2> QED
    BY <2>1, <2>2, Zenon
<1>5. /\ OnlyS(s) /\ S'[s].io = S[s].io /\ S'[s].accepted = S[s].accepted
      /\ S'[s].sock = "open" => CloseDel(w) /\ S[s].sock = "open"
      /\ S'[s].op = "recv" => S[s].op = "recv"
      /\ delSocket(w) \/ S'[s].used = S[s].used
  <2>1. CASE CloseDel(w)
    <3>1. S' = S
      BY <2>1 DEF CloseDel
    <3> QED
      BY <2>1, <3>1, SameSession, Zenon
  <2>2. CASE CloseSock(w)
    <3>1. closeSocket(s)
      BY <1>3, <2>2 DEF CloseSock
    <3> QED
      BY <3>1, CloseRec, Zenon
  <2>3. CASE delSocket(w)
    <3>1. S[s].sock # "open" /\ S' = [S EXCEPT ![s].buf = FALSE, ![s].used = FALSE]
      BY <1>1, <1>3, <2>3 DEF delSocket, Owned, NotOpen
    <3> QED
      BY <2>3, <3>1, ReturnRec, Zenon
  <2>4. CASE bindAccept(w)
    <3>1. S[s].sock # "open"
      BY <1>1, <1>3, <2>4 DEF bindAccept, Owned, NotOpen
    <3>2. S' = [S EXCEPT ![s].op = "accept", ![s].io = IF S[s].sock = "open" THEN "accept" ELSE @]
      BY <1>3, <2>4 DEF bindAccept
    <3> QED
      BY <3>1, <3>2, RearmRec, Zenon
  <2> QED
    BY <2>1, <2>2, <2>3, <2>4, Zenon
<1>6. \A u \in Threads : pc'[u] \in {"bind", "app", "add"} \cup Closing => u = w
  BY TheWorker, Zenon
<1>7. /\ \A c \in Comms : Listed(c)' \subseteq Listed(c)
      /\ CloseDel(w) => \A c \in Comms : s \notin Listed(c)'
  <2>1. CASE CloseDel(w)
    <3>1. PICK c \in Comms : Comms = {c} /\ c = Serves[w]
      BY <1>1, CommsAssumption, Zenon
    <3>2. list' = [list EXCEPT ![c] = Deleted(list[c], s)] /\ list[c] \in List /\ c \in DOMAIN list
      BY <1>3, <2>1, <3>1, Zenon DEF CloseDel, TypeOK, List
    <3>3. /\ list'[c].arr = list[c].arr
          /\ list'[c].filled \subseteq list[c].filled
          /\ \A k \in list'[c].filled : list[c].arr[k] # s
      <4>1. \A k, j \in Cells : list[c].arr[k] = list[c].arr[j] /\ list[c].arr[k] # NoSession => k = j
        BY DEF Lists
      <4> QED
        BY <3>2, <4>1, DeletedList, Zenon
    <3> QED
      BY <3>1, <3>3 DEF Listed
  <2>2. CASE ~ CloseDel(w)
    <3>1. list' = list
      BY <2>2 DEF CloseSock, delSocket, bindAccept
    <3> QED
      BY <2>2, <3>1, SameListed, Zenon
  <2> QED
    BY <2>1, <2>2, Zenon
<1>8. \A r \in Sessions : (CloseFor(r)' <=> CloseFor(r)) /\ (Arrived(r)' <=> Arrived(r))
                          /\ (Ordered(r)' <=> Ordered(r))
  BY <1>2, SamePorts, Zenon
<1>9. First'
  <2>1. ~ Waiting(s)'
    BY <1>3, <1>5, Zenon DEF Waiting, CloseDel
  <2>2. \A u \in Threads : ~ Begins(u, s)'
    BY <1>4, <1>6 DEF Begins, Closing
  <2>3. \A c \in Comms : s \in Listed(c)' => S[s].used /\ bindAccept(w)
    <3>1. \A c \in Comms : s \in Listed(c) => S[s].used /\ pc[w] \notin {"close", "return"}
      BY <1>1, <1>3 DEF First
    <3>2. ~ bindAccept(w) => CloseDel(w) \/ pc[w] \in {"close", "return"}
      BY Zenon DEF CloseSock, delSocket
    <3> QED
      BY <1>7, <3>1, <3>2, Zenon
  <2>4. bindAccept(w) => pc'[w] = "idle" /\ S'[s].used = S[s].used
    BY <1>1, <1>5, Zenon DEF bindAccept, delSocket, Return, Goto, TypeOK
  <2>5. \A c \in Comms : s \in Listed(c)' =>
           /\ S'[s].used
           /\ \A u \in Threads : ses'[u] = s => pc'[u] \notin {"close", "return"}
    BY <1>6, <2>3, <2>4, Zenon DEF Closing
  <2> QED
    BY <1>1, <1>3, <1>4, <1>5, <1>7, <1>8, <2>1, <2>2, <2>5, FirstStep, Zenon
<1>10. ASSUME Later PROVE Later'
  <2>1. Ending(s)
    BY <1>1, <1>2, <1>3, Zenon DEF Ending
  <2>2. S[s].sock # "open" /\ S'[s].sock # "open" /\ ~ Arrived(s)'
    BY <1>5, <1>8, <1>10, <2>1, Zenon DEF Later, Before
  <2>3. \A u \in Threads : pc'[u] # "app"
    BY <1>4, <1>6, Zenon DEF Closing
  <2>4. \A u \in Threads : pc[u] = "app" => ses[u] \in Sessions
    BY DEF Kinds
  <2>5. \A r \in Sessions : Ordered(r)'
    BY <1>8, <1>10 DEF Later, Before
  <2> QED
    BY <1>1, <1>4, <1>5, <1>8, <1>10, <2>2, <2>3, <2>4, <2>5, BeforeStep, Zenon
<1> QED
  BY <1>9, <1>10

----------------------------------------------------------------------------
(* socketShutdown, the closers and the operating system.                   *)

\* socketShutdown: the socket is shut down before the close event is posted.
LEMMA StopLater ==
  ASSUME Inv, Inv', First, NEW w, Workers = {w}, NEW t \in Threads, Stop(t)
  PROVE  First' /\ (Later /\ "post" \notin Faults => Later')
<1> USE DEF Inv
<1>1. pc[t] \in {"test", "shut", "post"} /\ list' = list /\ Main \in Threads
  BY DEF Stop, ShutdownTest, Shutdown, putRTSQueue, PostFailed, Threads
<1>2. PICK s \in Sessions : s = ses[t] /\ S[s].accepted /\ ~ Waiting(s) /\ S[s].io # "accept" /\ t # Main
  BY <1>1, Working, Zenon
<1>3. /\ Others(t) /\ pc'[t] \in {"test", "shut", "post", "idle"} /\ ses'[t] \in {s, NoSession}
      /\ pc'[t] = "post" => Shutdown(t)
  <2>1. CASE ShutdownTest(t)
    <3>1. CASE S[ses[t]].connected
      <4>1. pc' = [pc EXCEPT ![t] = "shut"] /\ ses' = ses /\ "shut" \in Labels
        BY <2>1, <3>1 DEF ShutdownTest, Goto, Labels
      <4>2. Others(t) /\ pc'[t] = "shut" /\ ses'[t] = ses[t]
        BY <4>1, KeepTyped, Zenon
      <4> QED
        BY <1>2, <4>2, Zenon
    <3>2. CASE ~ S[ses[t]].connected
      BY <1>1, <1>2, <2>1, <3>2, AfterEffect, Zenon DEF ShutdownTest
    <3> QED
      BY <3>1, <3>2, Zenon
  <2>2. CASE Shutdown(t)
    <3>1. pc' = [pc EXCEPT ![t] = "post"] /\ ses' = ses /\ "post" \in Labels
      BY <2>2 DEF Shutdown, Goto, Labels
    <3>2. Others(t) /\ pc'[t] = "post" /\ ses'[t] = ses[t]
      BY <3>1, KeepTyped, Zenon
    <3> QED
      BY <1>2, <2>2, <3>2
  <2>3. CASE putRTSQueue(t) \/ PostFailed(t)
    BY <1>1, <1>2, <2>3, AfterEffect, Zenon DEF putRTSQueue, PostFailed
  <2> QED
    BY <2>1, <2>2, <2>3, Zenon DEF Stop
<1>4. /\ OnlyS(s) /\ S'[s].io = S[s].io /\ S'[s].op = S[s].op
      /\ S'[s].accepted = S[s].accepted /\ S'[s].used = S[s].used
      /\ S'[s].sock = "open" => S[s].sock = "open" /\ ~ Shutdown(t)
      /\ ~ PostFailed(t) => S'[s].buf = S[s].buf
  <2>1. CASE ShutdownTest(t) \/ putRTSQueue(t)
    <3>1. S' = S
      BY <2>1 DEF ShutdownTest, putRTSQueue
    <3>2. ~ Shutdown(t)
      BY <2>1, Zenon DEF ShutdownTest, putRTSQueue, Shutdown
    <3> QED
      BY <3>1, <3>2, SameSession, Zenon
  <2>2. CASE Shutdown(t)
    <3>1. S' = [S EXCEPT ![s].sock = IF @ = "open" THEN "shut" ELSE @, ![s].connected = FALSE]
      BY <1>2, <2>2 DEF Shutdown
    <3>2. /\ OnlyS(s) /\ S'[s].io = S[s].io /\ S'[s].op = S[s].op
          /\ S'[s].sock = (IF S[s].sock = "open" THEN "shut" ELSE S[s].sock)
          /\ S'[s].buf = S[s].buf /\ S'[s].used = S[s].used /\ S'[s].accepted = S[s].accepted
      BY <3>1, ShutRec, Zenon
    <3>3. S'[s].sock # "open"
      BY <3>2
    <3> QED
      BY <3>2, <3>3
  <2>3. CASE PostFailed(t)
    <3>1. closeSocket(s)
      BY <1>2, <2>3, Zenon DEF PostFailed
    <3> QED
      BY <2>3, <3>1, CloseRec, Zenon
  <2> QED
    BY <2>1, <2>2, <2>3 DEF Stop
<1>5. /\ \A r \in Sessions : CloseFor(r)' => CloseFor(r) \/ (r = s /\ putRTSQueue(t))
      /\ \A r \in Sessions : Arrived(r)' => Arrived(r)
      /\ \A r \in Sessions : Ordered(r) => Ordered(r)'
  <2>1. CASE putRTSQueue(t)
    <3> DEFINE m == [op |-> "close", s |-> s, ok |-> TRUE]
    <3>1. m \in Message /\ m.op = "close" /\ m.s = s /\ Put(ErrComm, m) /\ ErrComm \in Comms
      BY <1>2, <2>1, CommsAssumption DEF putRTSQueue, Message
    <3>2. \A r \in Sessions : m # Done(r, TRUE)
      BY DEF Done
    <3> HIDE DEF m
    <3> QED
      BY <2>1, <3>1, <3>2, PutSeen, Zenon
  <2>2. CASE ~ putRTSQueue(t)
    <3>1. queue' = queue
      BY <2>2 DEF Stop, ShutdownTest, Shutdown, PostFailed
    <3> QED
      BY <3>1, SamePorts, Zenon
  <2> QED
    BY <2>1, <2>2
<1>6. \A c \in Comms : Listed(c)' = Listed(c)
  BY <1>1, SameListed, Zenon
<1>7. \A u \in Threads : u # t => pc'[u] = pc[u] /\ ses'[u] = ses[u]
  BY <1>3 DEF Others
<1>8. First'
  <2>1. ~ Waiting(s)' /\ S'[s].io # "accept"
    BY <1>2, <1>4 DEF Waiting
  <2>2. \A u \in Threads : Begins(u, s)' => S'[s].used
    BY <1>3, <1>4, <1>7, ZenonT(30) DEF Begins, First
  <2>3. \A c \in Comms : s \in Listed(c)' =>
           /\ S'[s].used
           /\ \A u \in Threads : ses'[u] = s => pc'[u] \notin {"close", "return"}
    <3>1. \A c \in Comms : s \in Listed(c) =>
            /\ S[s].used
            /\ \A u \in Threads : ses[u] = s => pc[u] \notin {"close", "return"}
      BY Zenon DEF First
    <3> SUFFICES ASSUME NEW c \in Comms, s \in Listed(c)
                 PROVE  /\ S'[s].used
                        /\ \A u \in Threads : ses'[u] = s => pc'[u] \notin {"close", "return"}
      BY <1>6, Zenon
    <3>2. S'[s].used
      BY <1>4, <3>1, Zenon
    <3>3. ASSUME NEW u \in Threads, ses'[u] = s PROVE pc'[u] \notin {"close", "return"}
      BY <1>3, <1>7, <3>1, <3>3, Zenon
    <3> QED
      BY <3>2, <3>3
  <2> QED
    BY <1>1, <1>2, <1>3, <1>4, <1>5, <1>6, <2>1, <2>2, <2>3, FirstStep, Zenon
<1>9. ASSUME Later, "post" \notin Faults PROVE Later'
  <2>1. ~ PostFailed(t)
    BY <1>9 DEF PostFailed
  <2>2. S'[s].sock = "open" =>
          /\ S[s].sock = "open" /\ ~ CloseFor(s)' /\ pc'[t] \notin Closing \cup {"post"}
          /\ S'[s].io = "recv" => S'[s].buf
    <3>1. S[s].sock = "open" => ~ putRTSQueue(t)
      BY <1>2, <1>9 DEF Later, Before, putRTSQueue
    <3> QED
      BY <1>3, <1>4, <1>5, <1>9, <2>1, <3>1, Zenon DEF Later, Before, Closing
  <2>3. pc'[t] \notin Closing \cup {"app"}
    BY <1>3 DEF Closing
  <2>4. Arrived(s)' /\ S'[s].op = "recv" => S'[s].buf
    BY <1>4, <1>5, <1>9, <2>1, Zenon DEF Later, Before
  <2>5. \A u \in Threads : pc'[u] = "app" /\ ses'[u] = s => S'[s].buf
    <3>1. \A u \in Threads : pc'[u] = "app" => pc'[u] = pc[u] /\ ses'[u] = ses[u]
      BY <1>7, <2>3, Zenon
    <3>2. \A u \in Threads : pc[u] = "app" /\ ses[u] = s => S[s].buf
      BY <1>9, Zenon DEF Later, BufferKept, At
    <3> QED
      BY <1>4, <2>1, <3>1, <3>2, Zenon
  <2>6. \A u \in Threads : pc[u] = "app" => ses[u] \in Sessions
    BY DEF Kinds
  <2>7. \A r \in Sessions : Ordered(r)'
    BY <1>5, <1>9, Zenon DEF Later, Before
  <2> QED
    BY <1>3, <1>4, <1>5, <1>9, <2>2, <2>3, <2>4, <2>5, <2>6, <2>7, BeforeStep, Zenon
<1> QED
  BY <1>8, <1>9

\* Close and timeoutProcess find no session that waits for a client.
LEMMA CloserLater ==
  ASSUME Inv, Inv', First, NEW w, Workers = {w}, NEW k \in Closers,
         CloseWrite(k) \/ \E s \in Sessions : Close(k, s)
  PROVE  First' /\ (Later => Later')
<1> USE DEF Inv
<1>1. k \in Threads /\ k # Main /\ Main \in Threads
  BY ThreadsAssumption DEF Threads
<1>2. list' = list /\ queue' = queue
  BY DEF CloseWrite, Close
<1>3. PICK s \in Sessions :
        /\ S[s].accepted /\ ~ Waiting(s) /\ S[s].io # "accept"
        /\ \/ Close(k, s)
           \/ CloseWrite(k) /\ s = ses[k]
  <2>1. CASE CloseWrite(k)
    BY <1>1, <2>1, Working, Zenon DEF CloseWrite
  <2>2. ASSUME NEW s \in Sessions, Close(k, s)
        PROVE  S[s].accepted /\ ~ Waiting(s) /\ S[s].io # "accept"
    <3>1. CASE S[s].known
      BY <3>1, Zenon DEF First, Waiting
    <3>2. ASSUME NEW m \in Comms, s \in Listed(m) PROVE ~ Waiting(s)
      <4>1. list[m].filled \subseteq Cells
        BY DEF TypeOK
      <4>2. InArr(s)
        BY <3>2, <4>1, Zenon DEF Listed, InArr
      <4> QED
        BY <4>2, Zenon DEF Owned, OnceListed
    <3> QED
      BY <2>2, <3>1, <3>2, Zenon DEF Close, First, Waiting
  <2> QED
    BY <2>1, <2>2
<1>4. Others(k) /\ pc'[k] \in {"write", "test"} /\ ses'[k] = s
  BY <1>1, <1>3 DEF CloseWrite, Close, Goto, Others, TypeOK
<1>5. /\ OnlyS(s) /\ S'[s].io = S[s].io /\ S'[s].op = S[s].op /\ S'[s].sock = S[s].sock
      /\ S'[s].accepted = S[s].accepted /\ S'[s].used = S[s].used /\ S'[s].buf = S[s].buf
  <2>1. CASE CloseWrite(k) /\ s = ses[k]
    <3>1. PICK b \in BOOLEAN : b = tmp[k]
      BY <1>1, Zenon DEF TypeOK
    <3>2. S' = [S EXCEPT ![s].connected = b]
      BY <2>1, <3>1 DEF CloseWrite
    <3> QED
      BY <3>2, StatusRec, Zenon
  <2>2. CASE Close(k, s)
    <3>1. S' = S
      BY <2>2 DEF Close
    <3> QED
      BY <3>1, SameSession, Zenon
  <2> QED
    BY <1>3, <2>1, <2>2, Zenon
<1>6. \A r \in Sessions : (CloseFor(r)' <=> CloseFor(r)) /\ (Arrived(r)' <=> Arrived(r))
                          /\ (Ordered(r)' <=> Ordered(r))
  BY <1>2, SamePorts, Zenon
<1>7. \A c \in Comms : Listed(c)' = Listed(c)
  BY <1>2, SameListed, Zenon
<1>8. \A u \in Threads : u # k => pc'[u] = pc[u] /\ ses'[u] = ses[u]
  BY <1>4 DEF Others
<1>9. First'
  <2>1. ~ Waiting(s)' /\ S'[s].io # "accept"
    BY <1>3, <1>5, Zenon DEF Waiting
  <2>2. \A u \in Threads : Begins(u, s)' => S'[s].used
    BY <1>4, <1>5, <1>8, Zenon DEF Begins, First
  <2>3. \A c \in Comms : s \in Listed(c)' =>
           /\ S'[s].used
           /\ \A u \in Threads : ses'[u] = s => pc'[u] \notin {"close", "return"}
    <3>1. \A u \in Threads : pc'[u] \in {"close", "return"} => pc'[u] = pc[u] /\ ses'[u] = ses[u]
      BY <1>4, <1>8
    <3>2. \A c \in Comms : s \in Listed(c) =>
            /\ S[s].used
            /\ \A u \in Threads : ses[u] = s => pc[u] \notin {"close", "return"}
      BY Zenon DEF First
    <3> SUFFICES ASSUME NEW c \in Comms, s \in Listed(c)
                 PROVE  /\ S'[s].used
                        /\ \A u \in Threads : ses'[u] = s => pc'[u] \notin {"close", "return"}
      BY <1>7, Zenon
    <3>3. S'[s].used
      BY <1>5, <3>2, Zenon
    <3>4. ASSUME NEW u \in Threads, ses'[u] = s PROVE pc'[u] \notin {"close", "return"}
      BY <3>1, <3>2, <3>4, Zenon
    <3> QED
      BY <3>3, <3>4, Zenon
  <2> QED
    BY <1>1, <1>3, <1>4, <1>5, <1>6, <1>7, <2>1, <2>2, <2>3, FirstStep, Zenon
<1>10. ASSUME Later PROVE Later'
  <2>1. /\ S'[s].sock = "open" => ~ CloseFor(s)' /\ (S'[s].io = "recv" => S'[s].buf)
        /\ Arrived(s)' /\ S'[s].op = "recv" => S'[s].buf
    BY <1>5, <1>6, <1>10, Zenon DEF Later, Before
  <2>2. pc'[k] \notin Closing \cup {"post", "app"}
    BY <1>4 DEF Closing
  <2>3. \A u \in Threads : pc'[u] = "app" /\ ses'[u] = s => S'[s].buf
    <3>1. \A u \in Threads : pc'[u] = "app" => pc'[u] = pc[u] /\ ses'[u] = ses[u]
      BY <1>8, <2>2, Zenon
    <3> QED
      BY <1>5, <1>10, <3>1, ZenonT(30) DEF Later, BufferKept, At
  <2>4. \A u \in Threads : pc[u] = "app" => ses[u] \in Sessions
    BY Zenon DEF Kinds
  <2>5. \A r \in Sessions : Ordered(r)'
    BY <1>6, <1>10 DEF Later, Before
  <2> QED
    BY <1>1, <1>4, <1>5, <1>6, <1>10, <2>1, <2>2, <2>3, <2>4, <2>5, BeforeStep, ZenonT(30)
<1> QED
  BY <1>9, <1>10

\* The operating system completes an accept or a receive.
LEMMA SystemLater ==
  ASSUME Inv, Inv', First, NEW s \in Sessions, System(s)
  PROVE  First' /\ (Later => Later')
<1> USE DEF Inv
<1>1. S' = [S EXCEPT ![s].io = "none"] /\ UNCHANGED <<list, pc, ses>>
  BY Zenon DEF System, Connect, Arrive, Broken
<1>2. PICK ok \in BOOLEAN : /\ Put(Home[s], Done(s, ok))
                            /\ ok => S[s].io = "accept" \/ (S[s].io = "recv" /\ S[s].sock = "open")
  BY Zenon DEF System, Connect, Arrive, Broken
<1>3. /\ OnlyS(s) /\ S'[s].io = "none" /\ S'[s].op = S[s].op /\ S'[s].sock = S[s].sock
      /\ S'[s].buf = S[s].buf /\ S'[s].used = S[s].used /\ S'[s].known = S[s].known
      /\ S'[s].accepted = S[s].accepted
  BY <1>1, CompleteRec, Zenon
<1>4. \A r \in Sessions :
        /\ S'[r].op = S[r].op /\ S'[r].sock = S[r].sock /\ S'[r].io \in {S[r].io, "none"}
        /\ S'[r].buf = S[r].buf /\ S'[r].used = S[r].used /\ S'[r].known = S[r].known
        /\ S'[r].accepted = S[r].accepted
  BY <1>3 DEF OnlyS
<1>5. /\ Home[s] \in Comms /\ Done(s, ok) \in Message /\ Done(s, ok).op = "io"
      /\ \A r \in Sessions : Done(s, ok) = Done(r, TRUE) => r = s /\ ok
  BY CommsAssumption DEF Done, Message
<1>6. /\ \A r \in Sessions : CloseFor(r)' => CloseFor(r)
      /\ \A r \in Sessions : Arrived(r)' => Arrived(r) \/ (r = s /\ ok)
      /\ \A r \in Sessions : Ordered(r) /\ (r = s /\ ok => ~ CloseFor(r)) => Ordered(r)'
  BY <1>2, <1>5, PutSeen, Zenon
<1>7. \A c \in Comms : Listed(c)' = Listed(c)
  BY <1>1, SameListed, Zenon
<1>8. \A r \in Sessions : Waiting(r)' => Waiting(r)
  <2>1. S[s].io = "accept" => Waiting(s)
    BY DEF Waiting
  <2> QED
    BY <1>4, Zenon DEF Waiting
<1>9. First'
  BY <1>1, <1>4, <1>6, <1>7, <1>8 DEF First, Begins
<1>10. ASSUME Later PROVE Later'
  <2>1. ok => ~ CloseFor(s) /\ ~ Ending(s) /\ (S[s].op = "recv" => S[s].buf)
    <3>1. CASE S[s].io = "accept"
      <4>1. S[s].op = "accept" /\ ~ CloseFor(s) /\ \A t \in Threads : ses[t] # s
        BY <3>1 DEF First, Waiting
      <4> QED
        BY <4>1, Zenon DEF Ending
    <3>2. CASE S[s].io = "recv" /\ S[s].sock = "open"
      BY <1>10, <3>2 DEF Later, Before
    <3> QED
      BY <1>2, <3>1, <3>2, Zenon
  <2>2. \A r \in Sessions : Ending(r)' <=> Ending(r)
    BY <1>1 DEF Ending
  <2>3. ASSUME NEW r \in Sessions
        PROVE  /\ S'[r].sock = "open" => /\ ~ CloseFor(r)' /\ ~ Ending(r)'
                                         /\ \A u \in Threads : ses'[u] = r => pc'[u] # "post"
                                         /\ S'[r].io = "recv" => S'[r].buf
               /\ Ordered(r)'
               /\ Ending(r)' => ~ Arrived(r)'
               /\ Arrived(r)' /\ S'[r].op = "recv" => S'[r].buf
    BY <1>1, <1>4, <1>6, <1>10, <2>1, <2>2 DEF Later, Before
  <2>4. Before'
    BY <2>3 DEF Before
  <2>5. \A u \in Threads : pc[u] = "app" => ses[u] \in Sessions
    BY DEF Kinds
  <2>6. BufferKept'
    BY <1>1, <1>4, <1>10, <2>5 DEF Later, BufferKept, At
  <2> QED
    BY <2>4, <2>6, Zenon DEF Later
<1> QED
  BY <1>9, <1>10

----------------------------------------------------------------------------
(* All the steps.                                                          *)

\* Every step keeps the two invariants.
LEMMA StepLater ==
  ASSUME OneWorker, Inv, Inv', Room, First, [Next]_vars
  PROVE  First' /\ (Later /\ "post" \notin Faults => Later')
<1>1. PICK w : Workers = {w}
  BY DEF OneWorker
<1>2. \E c : Comms = {c}
  BY DEF OneWorker
<1>3. ASSUME Stop(w) PROVE First' /\ (Later /\ "post" \notin Faults => Later')
  BY <1>1, <1>3, StopLater, Zenon DEF Threads
<1>4. ASSUME Work(w), ~ Stop(w) PROVE First' /\ (Later => Later')
  <2>1. ASSUME NEW s \in Sessions,
               \/ AcceptFailed(w, s) \/ doAccept(w, s)
               \/ comproc_recvComplete(w, s) \/ comproc_close(w, s)
        PROVE  First' /\ (Later => Later')
    BY <1>1, <1>2, <2>1, AcceptLater, RecvCompleteLater, TakeCloseLater, Zenon
  <2>2. CASE bindRecv(w) \/ RecvRefused(w)
    BY <1>1, <2>2, BindLater, Zenon
  <2>3. CASE AddSession(w)
    BY <1>1, <2>3, AddLater, Zenon
  <2>4. CASE CloseDel(w) \/ CloseSock(w) \/ delSocket(w) \/ bindAccept(w)
    BY <1>1, <1>2, <2>4, CloseLater, Zenon
  <2> QED
    BY <1>4, <2>1, <2>2, <2>3, <2>4 DEF Work
<1>5. ASSUME NEW k \in Closers, Stop(k) PROVE First' /\ (Later /\ "post" \notin Faults => Later')
  BY <1>1, <1>5, StopLater, Zenon DEF Threads
<1>6. ASSUME NEW k \in Closers, CloseWrite(k) \/ \E s \in Sessions : Close(k, s)
      PROVE  First' /\ (Later => Later')
  BY <1>1, <1>6, CloserLater, Zenon
<1>7. ASSUME NEW s \in Sessions, System(s) PROVE First' /\ (Later => Later')
  BY <1>7, SystemLater, Zenon
<1>8. ~ Prepare
  BY DEF First, Prepare, PrepareArm, PrepareRefused, PrepareRead, PrepareWrite
<1>9. ASSUME UNCHANGED vars PROVE First' /\ (Later => Later')
  <2>1. First'
    <3>1. S' = S /\ queue' = queue /\ list' = list /\ pc' = pc /\ ses' = ses
      BY <1>9 DEF vars
    <3>2. \A s \in Sessions : /\ Waiting(s)' <=> Waiting(s)
                              /\ CloseFor(s)' <=> CloseFor(s)
                              /\ \A t \in Threads : Begins(t, s)' <=> Begins(t, s)
      BY <3>1, Zenon DEF Waiting, CloseFor, Begins
    <3>3. \A c \in Comms : Listed(c)' = Listed(c)
      BY <3>1, Zenon DEF Listed
    <3> QED
      BY <3>1, <3>2, <3>3, Zenon DEF First
  <2>2. Later => Later'
    BY <1>9, Zenon DEF vars, Later, Before, BufferKept, At, CloseFor, Arrived, Ending, Ordered
  <2> QED
    BY <2>1, <2>2, Zenon
<1> QED
  BY <1>1, <1>3, <1>4, <1>5, <1>6, <1>7, <1>8, <1>9, Zenon DEF Next

\* The armed sessions, before the worker runs.
LEMMA InitLater ==
  ASSUME OneWorker, Init
  PROVE  First /\ Later
<1>1. \A s \in Sessions : S[s] = Armed
  BY DEF OneWorker, Init
<1>2. /\ Armed.used /\ Armed.accepted /\ ~ Armed.known
      /\ Armed.io = "accept" /\ Armed.op = "accept"
  BY ArmedRec, Zenon
<1>3. Main \in Threads /\ NoSession \notin Sessions
  BY DEF Threads, Sessions, NoSession
<1>4. \A t \in Threads : pc[t] = "idle" /\ ses[t] = NoSession
  BY DEF OneWorker, Init
<1>5. \A c \in Comms : DOMAIN queue[c] = {}
  BY DEF Init
<1>6. \A c \in Comms : Listed(c) = {}
  <2> DEFINE L == {EmptyList(first) : first \in FirstIdx}
  <2>1. list \in [Comms -> L]
    BY DEF Init
  <2>2. \A l \in L : l.filled = {}
    BY DEF EmptyList
  <2> HIDE DEF L
  <2> QED
    BY <2>1, <2>2 DEF Listed
<1>7. \A s \in Sessions : ~ CloseFor(s) /\ ~ Arrived(s) /\ Ordered(s)
  BY <1>5, Zenon DEF CloseFor, Arrived, Ordered
<1>8. \A s \in Sessions : ~ Ending(s)
  BY <1>4, Zenon DEF Ending, Closing
<1>9. First
  BY <1>1, <1>2, <1>3, <1>4, <1>6, <1>7, Zenon DEF First, Begins
<1>10. Before
  BY <1>1, <1>2, <1>4, <1>7, <1>8 DEF Before
<1>11. BufferKept
  BY <1>4 DEF BufferKept, At
<1> QED
  BY <1>9, <1>10, <1>11 DEF Later
=============================================================================
