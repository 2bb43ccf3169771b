---------------------------- MODULE SessionSteps ----------------------------
(***************************************************************************)
(* The steps of the IOCP server against the invariant that says who owns   *)
(* what, for any number of sessions, workers, closers and communicators:   *)
(* the receive structure of a session is with the operating system, in one *)
(* cell of one completion port or with one worker, and a session is on a   *)
(* connection list once.  SessionProofs adds the counts and states the     *)
(* theorems.                                                               *)
(***************************************************************************)
EXTENDS Session, TLAPS

USE SMTT(30)

Message == [op : {"io", "close"}, s : Sessions, ok : BOOLEAN]
Socket == [connected : BOOLEAN, accepted : BOOLEAN, used : BOOLEAN,
           buf : BOOLEAN, known : BOOLEAN,
           sock : {"none", "open", "shut", "closed"},
           io : {"none", "accept", "recv"},
           op : {"none", "accept", "recv", "error"}]
List == [arr : [Cells -> Sessions \cup {NoSession}],
         filled : SUBSET Cells, cur : Int, first : -1 .. N]

----------------------------------------------------------------------------
(* The inductive invariant.                                                *)

\* Which steps a thread of each kind can be at, and what it has by then: a
\* session to work on, and a socketShutdown call still to make.
Kinds ==
  /\ pc[Main] \in {"idle", "prepare", "read", "write"}
  /\ \A k \in Closers : pc[k] \in {"idle", "write", "test", "shut", "post"}
  /\ \A w \in Workers : pc[w] \notin {"prepare", "read", "write"}
  /\ \A t \in Threads : pc[t] # "idle" => ses[t] \in Sessions
  /\ \A t \in Threads : pc[t] = "idle" => ses[t] = NoSession
  /\ \A t \in Threads : pc[t] \in {"test", "shut", "post"} => left[t] >= 1

\* A session prepareAccept has still to arm.
Pending(s) ==
  \/ pc[Main] = "prepare" /\ s >= ses[Main]
  \/ pc[Main] \in {"read", "write"} /\ s > ses[Main]

About(s) == \E c \in Comms : \E k \in DOMAIN queue[c] : queue[c][k].s = s
InArr(s) == \E c \in Comms : \E k \in Cells : list[c].arr[k] = s

\* Nobody knows of a session that is still to be armed.
Untouched ==
  \A s \in Sessions : Pending(s) =>
    /\ S[s] = Unused
    /\ ~ About(s)
    /\ ~ InArr(s)
    /\ \A t \in Threads \ {Main} : ses[t] # s

IsIO(c, k, s) == queue[c][k].op = "io" /\ queue[c][k].s = s
InPort(s) == \E c \in Comms : \E k \in DOMAIN queue[c] : IsIO(c, k, s)
Handles(t, s) == pc[t] \in {"bind", "app"} /\ ses[t] = s

\* The receive structure is with the operating system, in one cell of one port,
\* or with one worker.
OneHolder ==
  \A s \in Sessions :
    /\ S[s].io # "none" => ~ InPort(s) /\ \A t \in Threads : ~ Handles(t, s)
    /\ InPort(s) => \A t \in Threads : ~ Handles(t, s)
    /\ \A t, u \in Threads : Handles(t, s) /\ Handles(u, s) => t = u

OneCell ==
  \A s \in Sessions : \A c, d \in Comms :
    \A k \in DOMAIN queue[c], j \in DOMAIN queue[d] :
      IsIO(c, k, s) /\ IsIO(d, j, s) => c = d /\ k = j

\* The socket is closed when comproc_close comes to bindAccept, which therefore
\* starts nothing.
NotOpen ==
  \A t \in Threads : pc[t] \in {"return", "rearm"} => S[ses[t]].sock \notin {"open", "shut"}

\* A session that can still be accepted, and a worker that accepts it.
Waiting(s) == S[s].io = "accept" \/ (S[s].op = "accept" /\ S[s].sock = "open")
Begins(t, s) == pc[t] \in {"bind", "add"} /\ ses[t] = s

\* A session is accepted and put on a list at most once.
OnceListed ==
  \A s \in Sessions :
    /\ Waiting(s) => ~ InArr(s) /\ \A t \in Threads : ~ Begins(t, s)
    /\ \A t, u \in Threads : Begins(t, s) /\ Begins(u, s) => t = u
    /\ \A t \in Threads : Begins(t, s) => ~ InArr(s)

\* A list holds sessions, each in one cell; hence it is never full.
Lists ==
  \A c \in Comms :
    /\ \A k \in list[c].filled : list[c].arr[k] \in Sessions
    /\ \A k, j \in Cells :
         list[c].arr[k] = list[c].arr[j] /\ list[c].arr[k] # NoSession => k = j

\* The close events in the ports, and the workers that handle one, are finitely
\* many and account for the blocks out of the pool.
Blocks ==
  /\ IsFiniteSet(CloseEvents)
  /\ IsFiniteSet(At({"del", "close", "return", "rearm"}))
  /\ EventBlocksKept

\* The threads that hold the block of a close event.
Closing == {"del", "close", "return", "rearm"}

\* What follows from the counts: add finds a free cell, and a worker that is to
\* return the block of a close event has one.
Room ==
  /\ \A c \in Comms : AddCell(list[c]) \in Cells
  /\ \A w \in Workers : pc[w] = "rearm" => events.out > 0

Owned == Untouched /\ OneHolder /\ OneCell /\ NotOpen /\ OnceListed
Inv == TypeOK /\ Kinds /\ Owned /\ Lists /\ Blocks

----------------------------------------------------------------------------
(* What a step does to the session it works on.                            *)

\* Only session s changes.
OnlyS(s) ==
  /\ S' \in [Sessions -> Socket]
  /\ \A r \in Sessions \ {s} : S'[r] = S[r]

\* A port that stays as it is holds no session twice afterwards either.
LEMMA SameCells ==
  ASSUME queue' = queue, OneCell
  PROVE  OneCell'
BY DEF OneCell, IsIO

\* One session is assigned.
LEMMA Assigned ==
  ASSUME TypeOK, NEW s \in Sessions, NEW x \in Socket, S' = [S EXCEPT ![s] = x]
  PROVE  OnlyS(s) /\ S'[s] = x
<1>1. S \in [Sessions -> Socket]
  BY DEF TypeOK, Socket
<1> QED
  BY <1>1 DEF OnlyS

\* The session as bindAccept of prepareAccept leaves it.
LEMMA ArmedRec ==
  /\ Armed \in Socket /\ Unused \in Socket
  /\ Unused.io = "none" /\ Unused.op = "none" /\ ~ Unused.used /\ ~ Unused.known
  /\ Armed.used /\ Armed.accepted /\ ~ Armed.connected /\ ~ Armed.known
  /\ Armed.sock = "open" /\ Armed.io = "accept" /\ Armed.op = "accept"
  /\ [Armed EXCEPT !.accepted = FALSE] \in Socket
  /\ [Armed EXCEPT !.accepted = FALSE].sock = "open"
  /\ [Unused EXCEPT !.op = "accept", !.sock = "closed"] \in Socket
  /\ [Unused EXCEPT !.op = "accept", !.sock = "closed"].sock = "closed"
  /\ [Unused EXCEPT !.op = "accept", !.sock = "closed"].io = "none"
BY Zenon DEF Armed, Unused, Socket

\* SETSOCKETSTATUS(SOCK_STATUS_ACCEPTED).
LEMMA WriteRec ==
  ASSUME TypeOK, NEW s \in Sessions, NEW b \in BOOLEAN,
         S' = [S EXCEPT ![s].accepted = TRUE, ![s].connected = b]
  PROVE  /\ OnlyS(s)
         /\ S'[s].io = S[s].io /\ S'[s].op = S[s].op /\ S'[s].sock = S[s].sock
<1> DEFINE x == [S[s] EXCEPT !.accepted = TRUE, !.connected = b]
<1>1. S[s] \in Socket
  BY DEF TypeOK, Socket
<1>2. S' = [S EXCEPT ![s] = x]
  BY Zenon DEF TypeOK
<1>3. x \in Socket /\ x.io = S[s].io /\ x.op = S[s].op /\ x.sock = S[s].sock
  BY <1>1, Zenon DEF Socket
<1> HIDE DEF x
<1> QED
  BY <1>2, <1>3, Assigned, Zenon

\* A completed accept or receive.
LEMMA CompleteRec ==
  ASSUME TypeOK, NEW s \in Sessions, S' = [S EXCEPT ![s].io = "none"]
  PROVE  /\ OnlyS(s)
         /\ S'[s].io = "none" /\ S'[s].op = S[s].op /\ S'[s].sock = S[s].sock
         /\ S'[s].buf = S[s].buf /\ S'[s].used = S[s].used /\ S'[s].known = S[s].known
         /\ S'[s].connected = S[s].connected /\ S'[s].accepted = S[s].accepted
<1> DEFINE x == [S[s] EXCEPT !.io = "none"]
<1>1. S[s] \in Socket
  BY DEF TypeOK, Socket
<1>2. S' = [S EXCEPT ![s] = x]
  BY Zenon DEF TypeOK
<1>3. /\ x \in Socket /\ x.io = "none" /\ x.op = S[s].op /\ x.sock = S[s].sock
      /\ x.buf = S[s].buf /\ x.used = S[s].used /\ x.known = S[s].known
      /\ x.connected = S[s].connected /\ x.accepted = S[s].accepted
  BY <1>1 DEF Socket
<1> HIDE DEF x
<1> QED
  BY <1>2, <1>3, Assigned, Zenon

\* doAccept.
LEMMA AcceptRec ==
  ASSUME TypeOK, NEW s \in Sessions,
         S' = [S EXCEPT ![s].connected = TRUE, ![s].op = "none"]
  PROVE  /\ OnlyS(s)
         /\ S'[s].io = S[s].io /\ S'[s].op = "none" /\ S'[s].sock = S[s].sock
         /\ S'[s].buf = S[s].buf /\ S'[s].used = S[s].used /\ S'[s].known = S[s].known
         /\ S'[s].accepted = S[s].accepted
<1> DEFINE x == [S[s] EXCEPT !.connected = TRUE, !.op = "none"]
<1>1. S[s] \in Socket
  BY DEF TypeOK, Socket
<1>2. S' = [S EXCEPT ![s] = x]
  BY Zenon DEF TypeOK
<1>3. /\ x \in Socket /\ x.io = S[s].io /\ x.op = "none" /\ x.sock = S[s].sock
      /\ x.buf = S[s].buf /\ x.used = S[s].used /\ x.known = S[s].known
      /\ x.accepted = S[s].accepted
  BY <1>1, Zenon DEF Socket
<1> HIDE DEF x
<1> QED
  BY <1>2, <1>3, Assigned, Zenon

\* bindRecv, with and without a receive that starts.
LEMMA RecvRec ==
  ASSUME TypeOK, NEW s \in Sessions, NEW i \in {S[s].io, "recv"},
         \/ S' = [S EXCEPT ![s].buf = TRUE, ![s].op = "recv", ![s].io = "recv"] /\ i = "recv"
         \/ S' = [S EXCEPT ![s].buf = TRUE, ![s].op = "recv"] /\ i = S[s].io
  PROVE  /\ OnlyS(s)
         /\ S'[s].io = i /\ S'[s].op = "recv" /\ S'[s].sock = S[s].sock
         /\ S'[s].buf /\ S'[s].used = S[s].used /\ S'[s].known = S[s].known
         /\ S'[s].connected = S[s].connected /\ S'[s].accepted = S[s].accepted
<1> DEFINE x == [S[s] EXCEPT !.buf = TRUE, !.op = "recv", !.io = "recv"]
           y == [S[s] EXCEPT !.buf = TRUE, !.op = "recv"]
<1>1. S[s] \in Socket
  BY DEF TypeOK, Socket
<1>2. \/ S' = [S EXCEPT ![s] = x] /\ i = "recv"
      \/ S' = [S EXCEPT ![s] = y] /\ i = S[s].io
  BY Zenon DEF TypeOK
<1>3. /\ x \in Socket /\ x.io = "recv" /\ x.op = "recv" /\ x.sock = S[s].sock
      /\ x.buf = TRUE /\ x.used = S[s].used /\ x.known = S[s].known
      /\ x.connected = S[s].connected /\ x.accepted = S[s].accepted
  BY <1>1, Zenon DEF Socket
<1>4. /\ y \in Socket /\ y.io = S[s].io /\ y.op = "recv" /\ y.sock = S[s].sock
      /\ y.buf = TRUE /\ y.used = S[s].used /\ y.known = S[s].known
      /\ y.connected = S[s].connected /\ y.accepted = S[s].accepted
  BY <1>1, Zenon DEF Socket
<1> HIDE DEF x, y
<1>5. CASE S' = [S EXCEPT ![s] = x] /\ i = "recv"
  BY <1>3, <1>5, Assigned, Zenon
<1>6. CASE S' = [S EXCEPT ![s] = y] /\ i = S[s].io
  BY <1>4, <1>6, Assigned, Zenon
<1> QED
  BY <1>2, <1>5, <1>6

\* comproc_recvComplete, with data and with an error.
LEMMA CompleteRecvRec ==
  ASSUME TypeOK, NEW s \in Sessions, NEW o \in {S[s].op, "error"},
         \/ S' = [S EXCEPT ![s].known = TRUE] /\ o = S[s].op
         \/ S' = [S EXCEPT ![s].op = "error"] /\ o = "error"
  PROVE  /\ OnlyS(s)
         /\ S'[s].io = S[s].io /\ S'[s].op = o /\ S'[s].sock = S[s].sock
         /\ S'[s].buf = S[s].buf /\ S'[s].used = S[s].used
         /\ S'[s].connected = S[s].connected /\ S'[s].accepted = S[s].accepted
<1> DEFINE x == [S[s] EXCEPT !.known = TRUE]
           y == [S[s] EXCEPT !.op = "error"]
<1>1. S[s] \in Socket
  BY DEF TypeOK, Socket
<1>2. \/ S' = [S EXCEPT ![s] = x] /\ o = S[s].op
      \/ S' = [S EXCEPT ![s] = y] /\ o = "error"
  BY Zenon DEF TypeOK
<1>3. /\ x \in Socket /\ x.io = S[s].io /\ x.op = S[s].op /\ x.sock = S[s].sock
      /\ x.buf = S[s].buf /\ x.used = S[s].used
      /\ x.connected = S[s].connected /\ x.accepted = S[s].accepted
  BY <1>1, Zenon DEF Socket
<1>4. /\ y \in Socket /\ y.io = S[s].io /\ y.op = "error" /\ y.sock = S[s].sock
      /\ y.buf = S[s].buf /\ y.used = S[s].used
      /\ y.connected = S[s].connected /\ y.accepted = S[s].accepted
  BY <1>1 DEF Socket
<1> HIDE DEF x, y
<1>5. CASE S' = [S EXCEPT ![s] = x] /\ o = S[s].op
  BY <1>3, <1>5, Assigned, Zenon
<1>6. CASE S' = [S EXCEPT ![s] = y] /\ o = "error"
  BY <1>4, <1>6, Assigned, Zenon
<1> QED
  BY <1>2, <1>5, <1>6

\* shutdown().
LEMMA ShutRec ==
  ASSUME TypeOK, NEW s \in Sessions,
         S' = [S EXCEPT ![s].sock = IF @ = "open" THEN "shut" ELSE @,
                        ![s].connected = FALSE]
  PROVE  /\ OnlyS(s)
         /\ S'[s].io = S[s].io /\ S'[s].op = S[s].op
         /\ S'[s].sock = (IF S[s].sock = "open" THEN "shut" ELSE S[s].sock)
         /\ S'[s].buf = S[s].buf /\ S'[s].used = S[s].used /\ S'[s].known = S[s].known
         /\ ~ S'[s].connected /\ S'[s].accepted = S[s].accepted
<1> DEFINE v == IF S[s].sock = "open" THEN "shut" ELSE S[s].sock
<1>1. S[s] \in Socket
  BY DEF TypeOK, Socket
<1>2. v \in {"none", "open", "shut", "closed"}
  BY <1>1 DEF Socket
<1>3. S' = [S EXCEPT ![s] = [S[s] EXCEPT !.sock = v, !.connected = FALSE]]
  BY Zenon DEF TypeOK
<1> HIDE DEF v
<1> DEFINE x == [S[s] EXCEPT !.sock = v, !.connected = FALSE]
<1>4. /\ x \in Socket /\ x.io = S[s].io /\ x.op = S[s].op /\ x.sock = v
      /\ x.buf = S[s].buf /\ x.used = S[s].used /\ x.known = S[s].known
      /\ x.connected = FALSE /\ x.accepted = S[s].accepted
  BY <1>1, <1>2, Zenon DEF Socket
<1>5. S' = [S EXCEPT ![s] = x]
  BY <1>3, Zenon
<1> HIDE DEF x
<1> QED
  <2>1. OnlyS(s) /\ S'[s] = x
    BY <1>4, <1>5, Assigned, Zenon
  <2> QED
    BY <1>4, <2>1 DEF v

\* closeSocket leaves no open socket; it frees the buffer only with the socket.
LEMMA CloseRec ==
  ASSUME TypeOK, NEW s \in Sessions, closeSocket(s)
  PROVE  /\ OnlyS(s)
         /\ S'[s].io = S[s].io /\ S'[s].op = S[s].op /\ S'[s].sock \in {"none", "closed"}
         /\ S'[s].used = S[s].used /\ S'[s].known = S[s].known
         /\ S'[s].accepted = S[s].accepted
         /\ S'[s].connected => S[s].connected
<1>1. S[s] \in Socket
  BY DEF TypeOK, Socket
<1>2. CASE S[s].sock \in {"open", "shut"}
  <2> DEFINE x == [S[s] EXCEPT !.sock = "closed", !.connected = FALSE, !.buf = FALSE]
  <2>1. S' = [S EXCEPT ![s] = x]
    BY <1>2, Zenon DEF TypeOK, closeSocket
  <2>2. /\ x \in Socket /\ x.io = S[s].io /\ x.op = S[s].op /\ x.sock = "closed"
        /\ x.used = S[s].used /\ x.known = S[s].known
        /\ x.accepted = S[s].accepted /\ x.connected = FALSE
    BY <1>1, Zenon DEF Socket
  <2> HIDE DEF x
  <2> QED
    BY <2>1, <2>2, Assigned, Zenon
<1>3. CASE S[s].sock \notin {"open", "shut"}
  <2>1. S' = [S EXCEPT ![s] = S[s]]
    BY <1>3, Zenon DEF TypeOK, closeSocket
  <2>2. S[s].sock \in {"none", "closed"}
    BY <1>1, <1>3 DEF Socket
  <2>3. OnlyS(s) /\ S'[s] = S[s]
    BY <1>1, <2>1, Assigned, Zenon
  <2> QED
    BY <2>2, <2>3
<1> QED
  BY <1>2, <1>3

\* The status word written back by Close and timeoutProcess.
LEMMA StatusRec ==
  ASSUME TypeOK, NEW s \in Sessions, NEW b \in BOOLEAN,
         S' = [S EXCEPT ![s].connected = b]
  PROVE  /\ OnlyS(s)
         /\ S'[s].io = S[s].io /\ S'[s].op = S[s].op /\ S'[s].sock = S[s].sock
         /\ S'[s].buf = S[s].buf /\ S'[s].used = S[s].used /\ S'[s].known = S[s].known
         /\ S'[s].accepted = S[s].accepted
<1> DEFINE x == [S[s] EXCEPT !.connected = b]
<1>1. S[s] \in Socket
  BY DEF TypeOK, Socket
<1>2. S' = [S EXCEPT ![s] = x]
  BY Zenon DEF TypeOK
<1>3. /\ x \in Socket /\ x.io = S[s].io /\ x.op = S[s].op /\ x.sock = S[s].sock
      /\ x.buf = S[s].buf /\ x.used = S[s].used /\ x.known = S[s].known
      /\ x.accepted = S[s].accepted
  BY <1>1 DEF Socket
<1> HIDE DEF x
<1> QED
  BY <1>2, <1>3, Assigned, Zenon

\* delSocket.
LEMMA ReturnRec ==
  ASSUME TypeOK, NEW s \in Sessions,
         S' = [S EXCEPT ![s].buf = FALSE, ![s].used = FALSE]
  PROVE  /\ OnlyS(s)
         /\ S'[s].io = S[s].io /\ S'[s].op = S[s].op /\ S'[s].sock = S[s].sock
         /\ S'[s].known = S[s].known /\ S'[s].accepted = S[s].accepted
         /\ S'[s].connected = S[s].connected
<1> DEFINE x == [S[s] EXCEPT !.buf = FALSE, !.used = FALSE]
<1>1. S[s] \in Socket
  BY DEF TypeOK, Socket
<1>2. S' = [S EXCEPT ![s] = x]
  BY Zenon DEF TypeOK
<1>3. /\ x \in Socket /\ x.io = S[s].io /\ x.op = S[s].op /\ x.sock = S[s].sock
      /\ x.known = S[s].known /\ x.accepted = S[s].accepted
      /\ x.connected = S[s].connected
  BY <1>1, Zenon DEF Socket
<1> HIDE DEF x
<1> QED
  BY <1>2, <1>3, Assigned, Zenon

\* bindAccept on a closed socket starts nothing.
LEMMA RearmRec ==
  ASSUME TypeOK, NEW s \in Sessions, S[s].sock # "open",
         S' = [S EXCEPT ![s].op = "accept",
                        ![s].io = IF S[s].sock = "open" THEN "accept" ELSE @]
  PROVE  /\ OnlyS(s)
         /\ S'[s].io = S[s].io /\ S'[s].op = "accept" /\ S'[s].sock = S[s].sock
         /\ S'[s].buf = S[s].buf /\ S'[s].used = S[s].used /\ S'[s].known = S[s].known
         /\ S'[s].connected = S[s].connected /\ S'[s].accepted = S[s].accepted
<1> DEFINE x == [S[s] EXCEPT !.op = "accept", !.io = S[s].io]
<1>1. S[s] \in Socket
  BY DEF TypeOK, Socket
<1>2. S' = [S EXCEPT ![s] = x]
  BY Zenon DEF TypeOK
<1>3. /\ x \in Socket /\ x.io = S[s].io /\ x.op = "accept" /\ x.sock = S[s].sock
      /\ x.buf = S[s].buf /\ x.used = S[s].used /\ x.known = S[s].known
      /\ x.connected = S[s].connected /\ x.accepted = S[s].accepted
  BY <1>1, Zenon DEF Socket
<1> HIDE DEF x
<1> QED
  BY <1>2, <1>3, Assigned, Zenon

----------------------------------------------------------------------------
(* What a step does to a completion port.                                  *)

\* A completion goes to the end of a port.
LEMMA PutCells ==
  ASSUME TypeOK, NEW c \in Comms, NEW m \in Message, Put(c, m)
  PROVE  /\ queue' \in [Comms -> Seq(Message)]
         /\ \A d \in Comms \ {c} : queue'[d] = queue[d]
         /\ Len(queue[c]) + 1 \notin DOMAIN queue[c]
         /\ DOMAIN queue'[c] = DOMAIN queue[c] \cup {Len(queue[c]) + 1}
         /\ queue'[c][Len(queue[c]) + 1] = m
         /\ \A k \in DOMAIN queue[c] : queue'[c][k] = queue[c][k] /\ k < Len(queue[c]) + 1
<1>1. queue \in [Comms -> Seq(Message)]
  BY Zenon DEF TypeOK, Message
<1>2. queue[c] \in Seq(Message)
  BY <1>1
<1>3. /\ queue' \in [Comms -> Seq(Message)] /\ queue'[c] = Append(queue[c], m)
      /\ \A d \in Comms \ {c} : queue'[d] = queue[d]
  BY <1>1, <1>2 DEF Put
<1>4. DOMAIN queue'[c] = 1 .. (Len(queue[c]) + 1) /\ DOMAIN queue[c] = 1 .. Len(queue[c])
      /\ Len(queue[c]) \in Nat
  BY <1>2, <1>3
<1>5. /\ queue'[c][Len(queue[c]) + 1] = m
      /\ \A k \in 1 .. Len(queue[c]) : queue'[c][k] = queue[c][k]
  BY <1>2, <1>3
<1> QED
  BY <1>3, <1>4, <1>5

\* A completion is taken from the front of a port, and the others move up.
LEMMA TakeCells ==
  ASSUME TypeOK, NEW c \in Comms, queue[c] # <<>>,
         queue' = [queue EXCEPT ![c] = Tail(queue[c])]
  PROVE  /\ queue' \in [Comms -> Seq(Message)]
         /\ \A d \in Comms \ {c} : queue'[d] = queue[d]
         /\ 1 \in DOMAIN queue[c] /\ Head(queue[c]) = queue[c][1]
         /\ queue[c][1] \in Message
         /\ \A k \in DOMAIN queue'[c] :
              /\ k \in Int /\ k + 1 # 1
              /\ k + 1 \in DOMAIN queue[c] /\ queue'[c][k] = queue[c][k + 1]
         /\ \A k \in DOMAIN queue[c] :
              k # 1 => /\ k \in Int /\ k - 1 \in DOMAIN queue'[c]
                       /\ queue'[c][k - 1] = queue[c][k]
<1>1. queue \in [Comms -> Seq(Message)]
  BY Zenon DEF TypeOK, Message
<1>2. queue[c] \in Seq(Message) /\ Len(queue[c]) \in Nat \ {0}
  BY <1>1
<1>3. /\ queue' \in [Comms -> Seq(Message)] /\ queue'[c] = Tail(queue[c])
      /\ \A d \in Comms \ {c} : queue'[d] = queue[d]
  BY <1>1, <1>2
<1>4. /\ DOMAIN queue'[c] = 1 .. (Len(queue[c]) - 1)
      /\ DOMAIN queue[c] = 1 .. Len(queue[c])
      /\ \A k \in 1 .. (Len(queue[c]) - 1) : queue'[c][k] = queue[c][k + 1]
  BY <1>2, <1>3
<1>5. 1 \in DOMAIN queue[c] /\ Head(queue[c]) = queue[c][1] /\ queue[c][1] \in Message
  BY <1>2
<1>6. ASSUME NEW k \in DOMAIN queue'[c]
      PROVE  /\ k \in Int /\ k + 1 # 1
             /\ k + 1 \in DOMAIN queue[c] /\ queue'[c][k] = queue[c][k + 1]
  BY <1>2, <1>4
<1>7. ASSUME NEW k \in DOMAIN queue[c], k # 1
      PROVE  /\ k \in Int /\ k - 1 \in DOMAIN queue'[c]
             /\ queue'[c][k - 1] = queue[c][k]
  <2>1. k - 1 \in 1 .. (Len(queue[c]) - 1) /\ (k - 1) + 1 = k /\ k \in Int
    BY <1>2, <1>4, <1>7
  <2> QED
    BY <1>4, <2>1
<1> QED
  BY <1>3, <1>5, <1>6, <1>7

----------------------------------------------------------------------------
(* What a step does to a connection list.                                  *)

USE SessionsAssumption

\* The lists, by their type.
LEMMA ListTyped ==
  ASSUME TypeOK
  PROVE  list \in [Comms -> List]
BY Zenon DEF TypeOK, List

\* add stores the session in that cell and leaves the others.
LEMMA AddedList ==
  ASSUME NEW l \in List, NEW s \in Sessions, AddCell(l) \in Cells
  PROVE  /\ Added(l, s) \in List
         /\ AddCell(l) \in Cells
         /\ Added(l, s).filled = l.filled \cup {AddCell(l)}
         /\ Added(l, s).arr[AddCell(l)] = s
         /\ \A k \in Cells \ {AddCell(l)} : Added(l, s).arr[k] = l.arr[k]
<1> DEFINE c == AddCell(l)
           f == IF c = l.first THEN -1 ELSE l.first
           a == [l.arr EXCEPT ![c] = s]
<1>1. c \in Cells
  OBVIOUS
<1>2. Added(l, s) = [arr |-> a, filled |-> l.filled \cup {c}, cur |-> l.cur + 1, first |-> f]
  BY DEF Added
<1> HIDE DEF c
<1>3. f \in -1 .. N
  BY DEF List
<1>4. /\ a \in [Cells -> Sessions \cup {NoSession}] /\ a[c] = s
      /\ \A k \in Cells \ {c} : a[k] = l.arr[k]
  BY <1>1 DEF List
<1>5. l.filled \cup {c} \in SUBSET Cells /\ l.cur + 1 \in Int
  BY <1>1 DEF List
<1> HIDE DEF a, f
<1> QED
  BY <1>1, <1>2, <1>3, <1>4, <1>5 DEF List, c

\* del empties the cell the session is in, if any, and clears no pointer.
LEMMA DeletedList ==
  ASSUME NEW l \in List, NEW s \in Sessions,
         \A k, j \in Cells : l.arr[k] = l.arr[j] /\ l.arr[k] # NoSession => k = j
  PROVE  /\ Deleted(l, s) \in List
         /\ Deleted(l, s).arr = l.arr
         /\ Deleted(l, s).filled \subseteq l.filled
         /\ \A k \in Deleted(l, s).filled : l.arr[k] # s
<1> DEFINE at == {x \in Cells : l.arr[x] = s}
           c == CHOOSE x \in at : \A y \in at : x <= y
<1>1. CASE at = {}
  <2>1. Deleted(l, s) = l
    BY <1>1 DEF Deleted
  <2>2. \A k \in l.filled : l.arr[k] # s
    BY <1>1 DEF List
  <2> QED
    BY <2>1, <2>2
<1>2. CASE at # {}
  <2>1. PICK x \in Cells : l.arr[x] = s
    BY <1>2
  <2>2. \E z \in at : \A y \in at : z <= y
    <3>1. x \in at /\ x <= x
      BY <2>1 DEF Cells
    <3>2. \A y \in at : y = x
      BY <2>1 DEF Sessions, NoSession
    <3> QED
      BY <3>1, <3>2
  <2>3. c \in at
    <3> HIDE DEF at
    <3> QED
      BY <2>2
  <2> DEFINE f == IF l.first < 0 \/ c < l.first THEN c ELSE l.first
  <2>4. Deleted(l, s) = [l EXCEPT !.filled = l.filled \ {c}, !.cur = l.cur - 1, !.first = f]
    BY <1>2, Zenon DEF Deleted
  <2>5. c \in Cells /\ l.arr[c] = s
    BY <2>3
  <2> HIDE DEF c, at
  <2>6. f \in -1 .. N
    BY <2>5 DEF List, Cells
  <2> HIDE DEF f
  <2> DEFINE d == l.filled \ {c}
             n == l.cur - 1
  <2>7. Deleted(l, s) = [l EXCEPT !.filled = d, !.cur = n, !.first = f]
    BY <2>4
  <2>8. d \in SUBSET Cells /\ n \in Int
    BY DEF List
  <2> HIDE DEF d, n
  <2>9. /\ Deleted(l, s) \in List /\ Deleted(l, s).arr = l.arr
        /\ Deleted(l, s).filled = d
    BY <2>6, <2>7, <2>8, Zenon DEF List
  <2>10. /\ Deleted(l, s) \in List /\ Deleted(l, s).arr = l.arr
         /\ Deleted(l, s).filled = l.filled \ {c}
    BY <2>9 DEF d
  <2>11. s # NoSession /\ l.filled \subseteq Cells
    BY DEF Sessions, NoSession, List
  <2> QED
    BY <2>5, <2>10, <2>11
<1> QED
  BY <1>1, <1>2

----------------------------------------------------------------------------
(* Who owns a session and its receive structure.                           *)

\* A completion that is put into a port.
LEMMA PutView ==
  ASSUME TypeOK, OneCell, NEW c \in Comms, NEW m \in Message, Put(c, m),
         m.op = "io" => ~ InPort(m.s)
  PROVE  /\ \A r \in Sessions : About(r)' => About(r) \/ r = m.s
         /\ \A r \in Sessions : InPort(r)' => InPort(r) \/ (m.op = "io" /\ r = m.s)
         /\ OneCell'
<1> DEFINE n == Len(queue[c]) + 1
<1>1. /\ \A d \in Comms \ {c} : queue'[d] = queue[d]
      /\ DOMAIN queue'[c] = DOMAIN queue[c] \cup {n}
      /\ queue'[c][n] = m
      /\ \A k \in DOMAIN queue[c] : queue'[c][k] = queue[c][k]
  BY PutCells, Zenon
<1> HIDE DEF n
<1>2. ASSUME NEW d \in Comms, NEW k \in DOMAIN queue'[d]
      PROVE  \/ k \in DOMAIN queue[d] /\ queue'[d][k] = queue[d][k]
             \/ d = c /\ k = n /\ queue'[d][k] = m
  BY <1>1
<1>3. \A r \in Sessions : About(r)' => About(r) \/ r = m.s
  BY <1>2 DEF About
<1>4. \A r \in Sessions : InPort(r)' => InPort(r) \/ (m.op = "io" /\ r = m.s)
  BY <1>2 DEF InPort, IsIO
<1>5. OneCell'
  <2> SUFFICES ASSUME NEW r \in Sessions, NEW d \in Comms, NEW e \in Comms,
                      NEW k \in DOMAIN queue'[d], NEW j \in DOMAIN queue'[e],
                      IsIO(d, k, r)', IsIO(e, j, r)'
               PROVE  d = e /\ k = j
    BY DEF OneCell
  <2>1. CASE /\ k \in DOMAIN queue[d] /\ queue'[d][k] = queue[d][k]
             /\ j \in DOMAIN queue[e] /\ queue'[e][j] = queue[e][j]
    BY <2>1 DEF OneCell, IsIO
  <2>2. CASE /\ k \in DOMAIN queue[d] /\ queue'[d][k] = queue[d][k]
             /\ e = c /\ j = n /\ queue'[e][j] = m
    BY <2>2 DEF InPort, IsIO
  <2>3. CASE /\ j \in DOMAIN queue[e] /\ queue'[e][j] = queue[e][j]
             /\ d = c /\ k = n /\ queue'[d][k] = m
    BY <2>3 DEF InPort, IsIO
  <2> QED
    BY <1>2, <2>1, <2>2, <2>3
<1> QED
  BY <1>3, <1>4, <1>5

\* A completion that is taken from a port.
LEMMA TakeView ==
  ASSUME TypeOK, OneCell, NEW c \in Comms, queue[c] # <<>>,
         queue' = [queue EXCEPT ![c] = Tail(queue[c])]
  PROVE  /\ Head(queue[c]) \in Message
         /\ About(Head(queue[c]).s)
         /\ \A r \in Sessions : About(r)' => About(r)
         /\ \A r \in Sessions : InPort(r)' => InPort(r)
         /\ OneCell'
         /\ \A r \in Sessions :
              Head(queue[c]).op = "io" /\ Head(queue[c]).s = r => InPort(r) /\ ~ InPort(r)'
<1>1. /\ \A d \in Comms \ {c} : queue'[d] = queue[d]
      /\ 1 \in DOMAIN queue[c] /\ Head(queue[c]) = queue[c][1]
      /\ queue[c][1] \in Message
      /\ \A k \in DOMAIN queue'[c] :
           /\ k \in Int /\ k + 1 # 1
           /\ k + 1 \in DOMAIN queue[c] /\ queue'[c][k] = queue[c][k + 1]
  BY TakeCells, Zenon
<1> DEFINE from(d, k) == IF d = c THEN k + 1 ELSE k
<1>2. ASSUME NEW d \in Comms, NEW k \in DOMAIN queue'[d]
      PROVE  /\ from(d, k) \in DOMAIN queue[d]
             /\ queue'[d][k] = queue[d][from(d, k)]
             /\ d = c => from(d, k) # 1
             /\ \A j \in DOMAIN queue'[d] : from(d, j) = from(d, k) => j = k
  BY <1>1
<1> HIDE DEF from
<1>3. \A r \in Sessions : About(r)' => About(r)
  BY <1>2 DEF About
<1>4. \A r \in Sessions : InPort(r)' => InPort(r)
  BY <1>2 DEF InPort, IsIO
<1>5. OneCell'
  <2> SUFFICES ASSUME NEW r \in Sessions, NEW d \in Comms, NEW e \in Comms,
                      NEW k \in DOMAIN queue'[d], NEW j \in DOMAIN queue'[e],
                      IsIO(d, k, r)', IsIO(e, j, r)'
               PROVE  d = e /\ k = j
    BY DEF OneCell
  <2>1. d = e /\ from(d, k) = from(e, j)
    BY <1>2 DEF OneCell, IsIO
  <2> QED
    BY <1>2, <2>1
<1>6. ASSUME NEW r \in Sessions, IsIO(c, 1, r), InPort(r)' PROVE FALSE
  <2>1. PICK d \in Comms : \E k \in DOMAIN queue'[d] : IsIO(d, k, r)'
    BY <1>6 DEF InPort
  <2>2. PICK k \in DOMAIN queue'[d] : IsIO(d, k, r)'
    BY <2>1
  <2>3. IsIO(d, from(d, k), r)
    BY <1>2, <2>2 DEF IsIO
  <2> QED
    BY <1>1, <1>2, <1>6, <2>3 DEF OneCell
<1>7. About(queue[c][1].s) /\ \A r \in Sessions : IsIO(c, 1, r) => InPort(r)
  BY <1>1 DEF About, InPort
<1>8. \A r \in Sessions :
        Head(queue[c]).op = "io" /\ Head(queue[c]).s = r => InPort(r) /\ ~ InPort(r)'
  BY <1>1, <1>6, <1>7 DEF IsIO
<1> QED
  BY <1>1, <1>3, <1>4, <1>5, <1>7, <1>8

Others(t) == \A u \in Threads \ {t} : pc'[u] = pc[u] /\ ses'[u] = ses[u]

\* A step of one thread on one session that starts no receive, hands none to a
\* worker and puts no session on a list keeps the ownership.
LEMMA LocalStep ==
  ASSUME TypeOK, Kinds, Owned, NEW t \in Threads \ {Main}, Others(t),
         NEW s \in Sessions, ~ Pending(s), OnlyS(s), S'[s].io = S[s].io,
         Waiting(s)' => Waiting(s),
         S[s].sock \notin {"open", "shut"} => S'[s].sock \notin {"open", "shut"},
         ses'[t] \in {s, NoSession},
         pc'[t] \notin {"bind", "app", "add"},
         pc'[t] \in {"return", "rearm"} => ses'[t] = s /\ S'[s].sock \notin {"open", "shut"},
         \A r \in Sessions : About(r)' => About(r) \/ r = s,
         \A r \in Sessions : InPort(r)' => InPort(r),
         \A r \in Sessions : InArr(r)' => InArr(r),
         OneCell'
  PROVE  Owned' /\ S' \in [Sessions -> Socket]
<1>1. Main \in Threads /\ pc'[Main] = pc[Main] /\ ses'[Main] = ses[Main]
  BY DEF Others, Threads
<1>2. \A r \in Sessions : Pending(r)' <=> Pending(r)
  BY <1>1 DEF Pending
<1>3. \A r \in Sessions : r # s => S'[r] = S[r]
  BY DEF OnlyS
<1>4. \A r \in Sessions : r # NoSession
  BY DEF Sessions, NoSession
<1>5. Untouched'
  <2> SUFFICES ASSUME NEW r \in Sessions, Pending(r)'
               PROVE  /\ S'[r] = Unused /\ ~ About(r)' /\ ~ InArr(r)'
                      /\ \A u \in Threads \ {Main} : ses'[u] # r
    BY DEF Untouched
  <2>1. Pending(r) /\ r # s
    BY <1>2, Zenon
  <2> QED
    BY <1>3, <1>4, <2>1 DEF Owned, Untouched, Others
<1>6. \A r \in Sessions : S'[r].io = S[r].io
  BY <1>3
<1>7. \A u \in Threads : \A r \in Sessions : Handles(u, r)' => Handles(u, r)
  BY DEF Handles, Others
<1>8. \A u \in Threads : \A r \in Sessions : Begins(u, r)' => Begins(u, r)
  BY DEF Begins, Others
<1>9. OneHolder'
  BY <1>6, <1>7 DEF Owned, OneHolder
<1>10. \A r \in Sessions : Waiting(r)' => Waiting(r)
  BY <1>3, Zenon DEF Waiting
<1>11. OnceListed'
  BY <1>8, <1>10, Zenon DEF Owned, OnceListed
<1>12. NotOpen'
  <2> SUFFICES ASSUME NEW u \in Threads, pc'[u] \in {"return", "rearm"}
               PROVE  S'[ses'[u]].sock \notin {"open", "shut"}
    BY DEF NotOpen
  <2>1. CASE u = t
    BY <2>1
  <2>2. CASE u # t
    <3>1. pc[u] \in {"return", "rearm"} /\ ses'[u] = ses[u] /\ ses[u] \in Sessions
      BY <2>2 DEF Others, Kinds
    <3> QED
      BY <1>3, <3>1 DEF Owned, NotOpen
  <2> QED
    BY <2>1, <2>2
<1> QED
  BY <1>5, <1>9, <1>11, <1>12, Zenon DEF Owned, OnlyS

\* A step of one worker that hands it the receive structure of a session, taken
\* from a port, keeps the ownership.
LEMMA HandedStep ==
  ASSUME TypeOK, Kinds, Owned, NEW t \in Threads \ {Main}, Others(t),
         NEW s \in Sessions, OnlyS(s), S'[s].io = S[s].io, S'[s].sock = S[s].sock,
         InPort(s), ~ InPort(s)', About(s), ~ Waiting(s)',
         pc[t] = "idle", ses'[t] = s,
         pc'[t] = "app" \/ (pc'[t] = "bind" /\ Waiting(s)),
         \A r \in Sessions : About(r)' => About(r),
         \A r \in Sessions : InPort(r)' => InPort(r),
         list' = list, OneCell'
  PROVE  Owned' /\ S' \in [Sessions -> Socket]
<1>1. Main \in Threads /\ pc'[Main] = pc[Main] /\ ses'[Main] = ses[Main]
  BY Zenon DEF Others, Threads
<1>2. \A r \in Sessions : Pending(r)' <=> Pending(r)
  BY <1>1, Zenon DEF Pending
<1>3. \A r \in Sessions : r # s => S'[r] = S[r]
  BY DEF OnlyS
<1>4. \A r \in Sessions : InArr(r)' <=> InArr(r)
  BY Zenon DEF InArr
<1>5. Untouched'
  <2> SUFFICES ASSUME NEW r \in Sessions, Pending(r)'
               PROVE  /\ S'[r] = Unused /\ ~ About(r)' /\ ~ InArr(r)'
                      /\ \A u \in Threads \ {Main} : ses'[u] # r
    BY Zenon DEF Untouched
  <2>1. Pending(r) /\ r # s
    BY <1>2, Zenon DEF Owned, Untouched
  <2> QED
    BY <1>3, <1>4, <2>1 DEF Owned, Untouched, Others
<1>6. \A r \in Sessions : S'[r].io = S[r].io
  BY <1>3, Zenon
<1>7. S[s].io = "none" /\ \A u \in Threads : ~ Handles(u, s)
  BY DEF Owned, OneHolder
<1>8. \A u \in Threads : \A r \in Sessions :
        Handles(u, r)' => Handles(u, r) \/ (u = t /\ r = s)
  BY DEF Handles, Others
<1>9. \A u \in Threads : \A r \in Sessions :
        Begins(u, r)' => Begins(u, r) \/ (u = t /\ r = s /\ Waiting(s))
  BY Zenon DEF Begins, Others
<1>10. OneHolder'
  BY <1>6, <1>7, <1>8, Zenon DEF Owned, OneHolder
<1>11. \A r \in Sessions : Waiting(r)' => Waiting(r) /\ r # s
  BY <1>3, Zenon DEF Waiting
<1>12. OnceListed'
  BY <1>4, <1>9, <1>11 DEF Owned, OnceListed
<1>13. NotOpen'
  <2> SUFFICES ASSUME NEW u \in Threads, pc'[u] \in {"return", "rearm"}
               PROVE  S'[ses'[u]].sock \notin {"open", "shut"}
    BY DEF NotOpen
  <2>1. u # t /\ pc[u] \in {"return", "rearm"} /\ ses'[u] = ses[u] /\ ses[u] \in Sessions
    BY DEF Others, Kinds
  <2> QED
    BY <1>3, <2>1 DEF Owned, NotOpen
<1> QED
  BY <1>5, <1>10, <1>12, <1>13, Zenon DEF Owned, OnlyS

\* bindRecv gives the receive structure from its worker to the operating system.
LEMMA BindRecvOwned ==
  ASSUME TypeOK, Kinds, Owned, NEW w \in Workers, bindRecv(w)
  PROVE  Owned' /\ S' \in [Sessions -> Socket]
<1>1. PICK s \in Sessions : s = ses[w]
  BY DEF bindRecv, Kinds, Threads
<1>2. w \in Threads /\ w # Main /\ Main \in Threads
  BY ThreadsAssumption DEF Threads
<1>3. OnlyS(s) /\ S'[s].io = "recv" /\ S'[s].op = "recv" /\ S'[s].sock = S[s].sock
  <2>1. S' = [S EXCEPT ![s].buf = TRUE, ![s].op = "recv", ![s].io = "recv"]
    BY <1>1 DEF bindRecv
  <2> QED
    BY <2>1, RecvRec, Zenon
<1>4. /\ Others(w) /\ queue' = queue /\ list' = list
      /\ \/ pc[w] = "bind" /\ pc'[w] = "add" /\ ses'[w] = s
         \/ pc[w] = "app" /\ pc'[w] = "idle" /\ ses'[w] = NoSession
  BY <1>1, <1>2 DEF bindRecv, Goto, Return, Others, TypeOK
<1>5. pc'[Main] = pc[Main] /\ ses'[Main] = ses[Main]
  BY <1>2, <1>4 DEF Others
<1>6. \A r \in Sessions : /\ Pending(r)' <=> Pending(r)
                          /\ About(r)' <=> About(r)
                          /\ InPort(r)' <=> InPort(r)
                          /\ InArr(r)' <=> InArr(r)
  BY <1>4, <1>5 DEF Pending, About, InPort, IsIO, InArr
<1>7. \A r \in Sessions : r # s => S'[r] = S[r]
  BY <1>3 DEF OnlyS
<1>8. \A r \in Sessions : r # NoSession
  BY DEF Sessions, NoSession
<1>9. Untouched'
  <2> SUFFICES ASSUME NEW r \in Sessions, Pending(r)'
               PROVE  /\ S'[r] = Unused /\ ~ About(r)' /\ ~ InArr(r)'
                      /\ \A u \in Threads \ {Main} : ses'[u] # r
    BY Zenon DEF Untouched
  <2>1. Pending(r) /\ r # s
    BY <1>1, <1>2, <1>6, Zenon DEF Owned, Untouched
  <2> QED
    BY <1>4, <1>6, <1>7, <1>8, <2>1 DEF Owned, Untouched, Others
<1>10. Handles(w, s)
  BY <1>1, <1>4 DEF Handles
<1>11. \A u \in Threads : \A r \in Sessions : Handles(u, r)' => Handles(u, r) /\ u # w
  BY <1>4 DEF Handles, Others
<1>12. ~ InPort(s) /\ \A u \in Threads : Handles(u, s) => u = w
  BY <1>2, <1>10, Zenon DEF Owned, OneHolder
<1>13. OneHolder'
  BY <1>6, <1>7, <1>11, <1>12 DEF Owned, OneHolder
<1>14. OneCell'
  BY <1>4 DEF Owned, OneCell, IsIO
<1>15. \A u \in Threads : \A r \in Sessions : Begins(u, r)' => Begins(u, r)
  BY <1>1, <1>4 DEF Begins, Others
<1>16. \A r \in Sessions : Waiting(r)' => Waiting(r)
  BY <1>3, <1>7 DEF Waiting
<1>17. OnceListed'
  BY <1>6, <1>15, <1>16 DEF Owned, OnceListed
<1>18. NotOpen'
  <2> SUFFICES ASSUME NEW u \in Threads, pc'[u] \in {"return", "rearm"}
               PROVE  S'[ses'[u]].sock \notin {"open", "shut"}
    BY DEF NotOpen
  <2>1. pc[u] \in {"return", "rearm"} /\ ses'[u] = ses[u] /\ ses[u] \in Sessions
    BY <1>4, Zenon DEF Others, Kinds
  <2> QED
    BY <1>3, <1>7, <2>1 DEF Owned, NotOpen
<1> QED
  BY <1>3, <1>9, <1>13, <1>14, <1>17, <1>18 DEF Owned, OnlyS

\* What AddSession leaves: the session is in one more cell, and the worker is
\* done with it or shuts it down.
LEMMA AddEffect ==
  ASSUME TypeOK, Kinds, Room, NEW w \in Workers, AddSession(w), NEW s \in Sessions, s = ses[w]
  PROVE  LET c == Serves[w]
             k == AddCell(list[c])
         IN /\ c \in Comms /\ k \in Cells
            /\ list' \in [Comms -> List]
            /\ \A d \in Comms \ {c} : list'[d] = list[d]
            /\ list'[c].filled = list[c].filled \cup {k}
            /\ list'[c].arr[k] = s
            /\ \A j \in Cells \ {k} : list'[c].arr[j] = list[c].arr[j]
<1> DEFINE c == Serves[w]
           l == list[c]
<1>1. c \in Comms
  BY CommsAssumption
<1>2. list \in [Comms -> List] /\ l \in List
  BY <1>1, Zenon DEF TypeOK, List
<1>3. AddCell(l) \in Cells
  BY <1>1 DEF Room
<1>4. list' = [list EXCEPT ![c] = Added(l, s)]
  BY DEF AddSession
<1> HIDE DEF l
<1>5. /\ Added(l, s) \in List
      /\ AddCell(l) \in Cells
      /\ Added(l, s).filled = l.filled \cup {AddCell(l)}
      /\ Added(l, s).arr[AddCell(l)] = s
      /\ \A k \in Cells \ {AddCell(l)} : Added(l, s).arr[k] = l.arr[k]
  BY <1>2, <1>3, AddedList, Zenon
<1>6. /\ list' \in [Comms -> List] /\ list'[c] = Added(l, s)
      /\ \A d \in Comms \ {c} : list'[d] = list[d]
  BY <1>1, <1>2, <1>4, <1>5, Zenon
<1> QED
  BY <1>1, <1>5, <1>6 DEF l

\* add puts the session of its worker on the list, once.
LEMMA AddOwned ==
  ASSUME TypeOK, Kinds, Owned, Lists, Room, NEW w \in Workers, AddSession(w)
  PROVE  Owned' /\ Lists' /\ S' \in [Sessions -> Socket]
<1>1. PICK s \in Sessions : s = ses[w]
  BY DEF AddSession, Kinds, Threads
<1>2. w \in Threads /\ w # Main /\ Main \in Threads
  BY ThreadsAssumption DEF Threads
<1> DEFINE c == Serves[w]
           k == AddCell(list[c])
<1>3. /\ c \in Comms /\ k \in Cells
      /\ list' \in [Comms -> List]
      /\ \A d \in Comms \ {c} : list'[d] = list[d]
      /\ list'[c].filled = list[c].filled \cup {k}
      /\ list'[c].arr[k] = s
      /\ \A j \in Cells \ {k} : list'[c].arr[j] = list[c].arr[j]
  BY <1>1, AddEffect, Zenon
<1> HIDE DEF c, k
<1>4. /\ Others(w) /\ queue' = queue /\ S' = S
      /\ \/ pc'[w] = "test" /\ ses'[w] = s
         \/ pc'[w] = "idle" /\ ses'[w] = NoSession
  BY <1>1, <1>2 DEF AddSession, Goto, Return, Others, TypeOK
<1>5. pc'[Main] = pc[Main] /\ ses'[Main] = ses[Main]
  BY <1>2, <1>4 DEF Others
<1>6. \A r \in Sessions : /\ Pending(r)' <=> Pending(r)
                          /\ About(r)' <=> About(r)
                          /\ InPort(r)' <=> InPort(r)
                          /\ Waiting(r)' <=> Waiting(r)
  BY <1>4, <1>5 DEF Pending, About, InPort, IsIO, Waiting
<1>7. \A r \in Sessions : InArr(r)' => InArr(r) \/ r = s
  BY <1>3 DEF InArr
<1>8. \A r \in Sessions : r # NoSession
  BY DEF Sessions, NoSession
<1>9. Begins(w, s) /\ ~ Waiting(s) /\ ~ InArr(s) /\ ~ Pending(s)
  <2>1. Begins(w, s)
    BY <1>1, Zenon DEF AddSession, Begins
  <2> QED
    BY <1>1, <1>2, <2>1 DEF Owned, OnceListed, Untouched
<1>10. Untouched'
  BY <1>4, <1>6, <1>7, <1>8, <1>9 DEF Owned, Untouched, Others
<1>11. \A u \in Threads : \A r \in Sessions : Handles(u, r)' => Handles(u, r)
  BY <1>4 DEF Handles, Others
<1>12. OneHolder' /\ OneCell'
  <2>1. OneHolder'
    BY <1>4, <1>6, <1>11, Zenon DEF Owned, OneHolder
  <2>2. OneCell'
    BY <1>4, SameCells, Zenon DEF Owned
  <2> QED
    BY <2>1, <2>2
<1>13. \A u \in Threads : \A r \in Sessions : Begins(u, r)' => Begins(u, r) /\ r # s
  <2>1. \A u \in Threads : Begins(u, s) => u = w
    BY <1>2, <1>9 DEF Owned, OnceListed
  <2> QED
    BY <1>4, <2>1 DEF Begins, Others
<1>14. OnceListed'
  BY <1>6, <1>7, <1>9, <1>13, Zenon DEF Owned, OnceListed
<1>15. NotOpen'
  BY <1>4 DEF Owned, NotOpen, Others
<1>16. Lists'
  <2> SUFFICES ASSUME NEW d \in Comms
               PROVE  /\ \A i \in list'[d].filled : list'[d].arr[i] \in Sessions
                      /\ \A i, j \in Cells :
                           list'[d].arr[i] = list'[d].arr[j] /\ list'[d].arr[i] # NoSession => i = j
    BY DEF Lists
  <2>1. CASE d # c
    BY <1>3, <2>1 DEF Lists
  <2>2. CASE d = c
    <3>1. \A i \in Cells : list[c].arr[i] # s
      BY <1>3, <1>9 DEF InArr
    <3>2. list[c].filled \subseteq Cells
      BY <1>3 DEF TypeOK
    <3> QED
      BY <1>3, <2>2, <3>1, <3>2 DEF Lists
  <2> QED
    BY <2>1, <2>2
<1> QED
  BY <1>4, <1>10, <1>12, <1>14, <1>15, <1>16, Zenon DEF Owned, TypeOK, Socket

\* The operating system hands a completed structure to the port.
LEMMA SystemOwned ==
  ASSUME TypeOK, Kinds, Owned, NEW s \in Sessions, System(s)
  PROVE  Owned' /\ S' \in [Sessions -> Socket]
<1>1. /\ S[s].io # "none" /\ S' = [S EXCEPT ![s].io = "none"]
      /\ UNCHANGED <<list, pc, ses>>
      /\ \E ok \in BOOLEAN : Put(Home[s], Done(s, ok))
  BY Zenon DEF System, Connect, Arrive, Broken
<1>2. PICK ok \in BOOLEAN : Put(Home[s], Done(s, ok))
  BY <1>1
<1>3. OnlyS(s) /\ S'[s].io = "none" /\ S'[s].op = S[s].op /\ S'[s].sock = S[s].sock
  BY <1>1, CompleteRec, Zenon
<1>4. Home[s] \in Comms /\ Done(s, ok) \in Message /\ Done(s, ok).op = "io" /\ Done(s, ok).s = s
  BY CommsAssumption DEF Done, Message
<1>5. ~ InPort(s) /\ \A t \in Threads : ~ Handles(t, s)
  BY <1>1 DEF Owned, OneHolder
<1>6. /\ \A r \in Sessions : About(r)' => About(r) \/ r = s
      /\ \A r \in Sessions : InPort(r)' => InPort(r) \/ r = s
      /\ OneCell'
  BY <1>2, <1>4, <1>5, PutView, Zenon DEF Owned
<1>7. \A r \in Sessions : r # s => S'[r] = S[r]
  BY <1>3 DEF OnlyS
<1>8. ~ Pending(s)
  BY <1>1, ArmedRec, Zenon DEF Owned, Untouched
<1>9. \A r \in Sessions : Pending(r)' <=> Pending(r)
  BY <1>1 DEF Pending
<1>10. \A r \in Sessions : InArr(r)' <=> InArr(r)
  BY <1>1 DEF InArr
<1>11. \A u \in Threads : \A r \in Sessions :
         (Handles(u, r)' <=> Handles(u, r)) /\ (Begins(u, r)' <=> Begins(u, r))
  BY <1>1 DEF Handles, Begins
<1>12. \A r \in Sessions : Waiting(r)' => Waiting(r)
  BY <1>3, <1>7 DEF Waiting
<1>13. Untouched'
  BY <1>1, <1>6, <1>7, <1>8, <1>9, <1>10, Zenon DEF Owned, Untouched
<1>14. OneHolder'
  BY <1>3, <1>5, <1>6, <1>7, <1>11 DEF Owned, OneHolder
<1>15. OnceListed'
  BY <1>10, <1>11, <1>12 DEF Owned, OnceListed
<1>16. NotOpen'
  <2>1. \A r \in Sessions : S'[r].sock = S[r].sock
    BY <1>3, <1>7
  <2> QED
    BY <1>1, <2>1 DEF Owned, NotOpen, Kinds
<1> QED
  BY <1>3, <1>6, <1>13, <1>14, <1>15, <1>16 DEF Owned, OnlyS

\* prepareAccept moves to its next session.
LEMMA NextEffect ==
  ASSUME TypeOK, Kinds, PrepareNext, pc[Main] # "idle"
  PROVE  /\ Others(Main)
         /\ \/ pc'[Main] = "prepare" /\ ses'[Main] = ses[Main] + 1 /\ ses'[Main] \in Sessions
            \/ pc'[Main] = "idle" /\ ses'[Main] = NoSession
         /\ \A r \in Sessions : Pending(r)' => r > ses[Main]
<1>1. Main \in Threads /\ ses[Main] \in Sessions
  BY DEF Kinds, Threads
<1>2. /\ Others(Main)
      /\ \/ pc'[Main] = "prepare" /\ ses'[Main] = ses[Main] + 1 /\ ses[Main] < N - 1
         \/ pc'[Main] = "idle" /\ ses'[Main] = NoSession
  <2>1. CASE ses[Main] < N - 1
    BY <1>1, <2>1 DEF PrepareNext, Goto, Others, TypeOK
  <2>2. CASE ~ (ses[Main] < N - 1)
    BY <1>1, <2>2 DEF PrepareNext, Goto, Return, Others, TypeOK
  <2> QED
    BY <2>1, <2>2
<1>3. ses[Main] < N - 1 => ses[Main] + 1 \in Sessions
  BY <1>1 DEF Sessions
<1>4. \A r \in Sessions : Pending(r)' => r > ses[Main]
  BY <1>1, <1>2 DEF Pending, Sessions
<1> QED
  BY <1>2, <1>3, <1>4

\* A step of prepareAccept on a session nobody knows of keeps the ownership.
LEMMA FreshStep ==
  ASSUME TypeOK, Kinds, Owned, Others(Main), NEW s \in Sessions, Pending(s), OnlyS(s),
         pc'[Main] \notin {"bind", "app", "add", "return", "rearm"},
         pc[Main] \notin {"bind", "app", "add", "return", "rearm"},
         \A r \in Sessions : Pending(r)' => Pending(r) /\ r # s,
         \A r \in Sessions : About(r)' => About(r) \/ r = s,
         \A r \in Sessions : InPort(r)' => InPort(r) \/ r = s,
         InPort(s)' => S'[s].io = "none",
         list' = list, OneCell'
  PROVE  Owned' /\ S' \in [Sessions -> Socket]
<1>1. \A u \in Threads \ {Main} : ses[u] # s /\ pc'[u] = pc[u] /\ ses'[u] = ses[u]
  BY Zenon DEF Owned, Untouched, Others
<1>2. \A r \in Sessions : r # s => S'[r] = S[r]
  BY DEF OnlyS
<1>3. \A r \in Sessions : InArr(r)' <=> InArr(r)
  BY Zenon DEF InArr
<1>4. Untouched'
  <2> SUFFICES ASSUME NEW r \in Sessions, Pending(r)'
               PROVE  /\ S'[r] = Unused /\ ~ About(r)' /\ ~ InArr(r)'
                      /\ \A t \in Threads \ {Main} : ses'[t] # r
    BY Zenon DEF Untouched
  <2>1. Pending(r) /\ r # s
    OBVIOUS
  <2>2. /\ S[r] = Unused /\ ~ About(r) /\ ~ InArr(r)
        /\ \A t \in Threads \ {Main} : ses[t] # r
    BY <2>1, Zenon DEF Owned, Untouched
  <2> QED
    BY <1>1, <1>2, <1>3, <2>1, <2>2, Zenon
<1>5. \A u \in Threads : \A r \in Sessions :
        (Handles(u, r)' => Handles(u, r) /\ r # s) /\ (Begins(u, r)' => Begins(u, r) /\ r # s)
  BY <1>1, Zenon DEF Handles, Begins
<1>6. OneHolder'
  BY <1>2, <1>5, Zenon DEF Owned, OneHolder
<1>7. ~ InArr(s)
  BY Zenon DEF Owned, Untouched
<1>8. \A r \in Sessions : Waiting(r)' => Waiting(r) \/ r = s
  BY <1>2, Zenon DEF Waiting
<1>9. OnceListed'
  BY <1>3, <1>5, <1>7, <1>8, Zenon DEF Owned, OnceListed
<1>10. NotOpen'
  <2> SUFFICES ASSUME NEW u \in Threads, pc'[u] \in {"return", "rearm"}
               PROVE  S'[ses'[u]].sock \notin {"open", "shut"}
    BY DEF NotOpen
  <2>1. /\ u # Main /\ pc[u] \in {"return", "rearm"} /\ ses'[u] = ses[u]
        /\ ses[u] \in Sessions /\ ses[u] # s
    BY <1>1 DEF Kinds
  <2> QED
    BY <1>2, <2>1, Zenon DEF Owned, NotOpen
<1> QED
  BY <1>4, <1>6, <1>9, <1>10, Zenon DEF Owned, OnlyS

\* prepareAccept keeps the ownership, also when a client is faster than it.
LEMMA PrepareOwned ==
  ASSUME TypeOK, Kinds, Owned, Prepare
  PROVE  Owned' /\ S' \in [Sessions -> Socket]
<1>1. pc[Main] \in {"prepare", "read", "write"} /\ list' = list /\ Main \in Threads
  BY Zenon DEF Prepare, PrepareArm, PrepareRefused, PrepareRead, PrepareWrite, Threads
<1>2. PICK s \in Sessions : s = ses[Main]
  BY <1>1 DEF Kinds
<1>3. pc[Main] = "prepare" => Pending(s)
  BY <1>2 DEF Pending, Sessions
<1>4. CASE PrepareArm
  <2>1. /\ pc[Main] = "prepare" /\ Others(Main) /\ pc'[Main] = "read" /\ ses'[Main] = s
        /\ queue' = queue
    BY <1>1, <1>2, <1>4 DEF PrepareArm, Goto, Others, TypeOK
  <2>2. OnlyS(s)
    <3> DEFINE x == [Armed EXCEPT !.accepted = FALSE]
    <3>1. x \in Socket
      BY ArmedRec, Zenon
    <3>2. S' = [S EXCEPT ![s] = x]
      BY <1>2, <1>4 DEF PrepareArm
    <3> HIDE DEF x
    <3> QED
      BY <3>1, <3>2, Assigned, Zenon
  <2>3. \A r \in Sessions : Pending(r)' => Pending(r) /\ r # s
    BY <1>2, <2>1 DEF Pending, Sessions
  <2>4. \A r \in Sessions : (About(r)' <=> About(r)) /\ (InPort(r)' <=> InPort(r))
    BY <2>1, Zenon DEF About, InPort, IsIO
  <2>5. OneCell'
    BY <2>1, SameCells, Zenon DEF Owned
  <2>6. ~ InPort(s)
    BY <1>3, <2>1 DEF Owned, Untouched, About, InPort, IsIO
  <2> QED
    BY <1>1, <1>3, <2>1, <2>2, <2>3, <2>4, <2>5, <2>6, FreshStep, Zenon
<1>5. CASE PrepareRefused
  <2>1. pc[Main] = "prepare" /\ PrepareNext /\ Put(Home[s], Done(s, TRUE))
    BY <1>2, <1>5, Zenon DEF PrepareRefused
  <2>2. OnlyS(s) /\ S'[s].io = "none"
    <3> DEFINE x == [Unused EXCEPT !.op = "accept", !.sock = "closed"]
    <3>1. x \in Socket /\ x.io = "none"
      BY ArmedRec, Zenon
    <3>2. S' = [S EXCEPT ![s] = x]
      BY <1>2, <1>5 DEF PrepareRefused
    <3> HIDE DEF x
    <3> QED
      BY <3>1, <3>2, Assigned, Zenon
  <2>3. /\ Others(Main) /\ pc'[Main] \in {"prepare", "idle"}
        /\ \A r \in Sessions : Pending(r)' => r > s
    BY <1>2, <2>1, NextEffect, Zenon
  <2>4. \A r \in Sessions : Pending(r)' => Pending(r) /\ r # s
    BY <1>2, <2>1, <2>3 DEF Pending, Sessions
  <2>5. /\ Home[s] \in Comms /\ Done(s, TRUE) \in Message
        /\ Done(s, TRUE).op = "io" /\ Done(s, TRUE).s = s
    BY CommsAssumption DEF Done, Message
  <2>6. ~ InPort(s)
    BY <1>3, <2>1 DEF Owned, Untouched, About, InPort, IsIO
  <2>7. /\ \A r \in Sessions : About(r)' => About(r) \/ r = s
        /\ \A r \in Sessions : InPort(r)' => InPort(r) \/ r = s
        /\ OneCell'
    BY <2>1, <2>5, <2>6, PutView, Zenon DEF Owned
  <2> QED
    BY <1>1, <1>3, <2>1, <2>2, <2>3, <2>4, <2>7, FreshStep, Zenon
<1>6. CASE PrepareRead \/ PrepareWrite
  <2>1. /\ pc[Main] \in {"read", "write"} /\ queue' = queue
        /\ pc'[Main] \in {"write", "prepare", "idle"} /\ Others(Main)
        /\ \A r \in Sessions : Pending(r)' => Pending(r)
    <3>1. CASE PrepareRead
      BY <1>1, <1>2, <3>1, Zenon DEF PrepareRead, Goto, Others, TypeOK, Pending
    <3>2. CASE PrepareWrite
      <4>1. PrepareNext /\ pc[Main] = "write" /\ queue' = queue
        BY <3>2 DEF PrepareWrite
      <4>2. /\ Others(Main) /\ pc'[Main] \in {"prepare", "idle"}
            /\ \A r \in Sessions : Pending(r)' => r > s
        BY <1>2, <4>1, NextEffect, Zenon
      <4> QED
        BY <1>2, <4>1, <4>2 DEF Pending
    <3> QED
      BY <1>6, <3>1, <3>2
  <2>2. /\ OnlyS(s)
        /\ S'[s].io = S[s].io /\ S'[s].op = S[s].op /\ S'[s].sock = S[s].sock
    <3>1. CASE PrepareRead
      BY <3>1 DEF PrepareRead, OnlyS, TypeOK, Socket
    <3>2. CASE PrepareWrite
      <4>1. PICK b \in BOOLEAN : b = tmp[Main]
        BY <1>1, Zenon DEF TypeOK
      <4>2. S' = [S EXCEPT ![s].accepted = TRUE, ![s].connected = b]
        BY <1>2, <3>2, <4>1, Zenon DEF PrepareWrite
      <4> QED
        BY <4>2, WriteRec, Zenon
    <3> QED
      BY <1>6, <3>1, <3>2
  <2>3. \A r \in Sessions : /\ S'[r].io = S[r].io /\ S'[r].sock = S[r].sock
                            /\ Waiting(r)' <=> Waiting(r)
    BY <2>2, Zenon DEF OnlyS, Waiting
  <2>4. \A r \in Sessions : /\ About(r)' <=> About(r)
                            /\ InPort(r)' <=> InPort(r)
                            /\ InArr(r)' <=> InArr(r)
    <3>1. queue' = queue /\ list' = list
      BY <1>1, <2>1
    <3> QED
      BY <3>1, Zenon DEF About, InPort, IsIO, InArr
  <2>5. ~ Pending(s)
    BY <1>2, <2>1 DEF Pending, Sessions
  <2>6. Untouched'
    BY <2>1, <2>2, <2>4, <2>5, Zenon DEF Owned, Untouched, Others, OnlyS
  <2>7. \A u \in Threads : \A r \in Sessions :
          (Handles(u, r)' => Handles(u, r)) /\ (Begins(u, r)' => Begins(u, r))
    <3>1. \A u \in Threads : pc'[u] \in {"bind", "app", "add"} => pc'[u] = pc[u] /\ ses'[u] = ses[u]
      BY <2>1 DEF Others
    <3> QED
      BY <3>1 DEF Handles, Begins
  <2>8. OneHolder' /\ OneCell'
    <3>1. OneHolder'
      BY <2>3, <2>4, <2>7, Zenon DEF Owned, OneHolder
    <3>2. OneCell'
      BY <2>1, SameCells, Zenon DEF Owned
    <3> QED
      BY <3>1, <3>2
  <2>9. OnceListed'
    BY <2>3, <2>4, <2>7, Zenon DEF Owned, OnceListed
  <2>10. NotOpen'
    BY <2>1, <2>3 DEF Owned, NotOpen, Others, Kinds
  <2> QED
    BY <2>2, <2>6, <2>8, <2>9, <2>10, Zenon DEF Owned, OnlyS
<1> QED
  BY <1>4, <1>5, <1>6 DEF Prepare

\* A thread comes back from socketShutdown, perhaps to call it once more.
LEMMA AfterEffect ==
  ASSUME TypeOK, Kinds, NEW t \in Threads, pc[t] \in {"test", "shut", "post"}, AfterShutdown(t)
  PROVE  /\ Others(t)
         /\ left' \in [Threads -> 0 .. 2]
         /\ \A u \in Threads \ {t} : left'[u] = left[u]
         /\ \/ pc'[t] = "test" /\ ses'[t] = ses[t] /\ left'[t] >= 1
            \/ pc'[t] = "idle" /\ ses'[t] = NoSession
<1>1. left[t] \in 1 .. 2
  BY DEF TypeOK, Kinds
<1>2. /\ left' \in [Threads -> 0 .. 2] /\ left'[t] = left[t] - 1
      /\ \A u \in Threads \ {t} : left'[u] = left[u]
  BY <1>1 DEF AfterShutdown, TypeOK
<1>3. CASE left[t] > 1
  BY <1>1, <1>2, <1>3 DEF AfterShutdown, Goto, Others, TypeOK
<1>4. CASE ~ (left[t] > 1)
  BY <1>1, <1>2, <1>4, Zenon DEF AfterShutdown, Goto, Return, Others, TypeOK
<1> QED
  BY <1>3, <1>4, Zenon

\* The session a thread works on is one that was armed.
LEMMA Known ==
  ASSUME Kinds, Owned, NEW t \in Threads \ {Main}, pc[t] # "idle"
  PROVE  ses[t] \in Sessions /\ ~ Pending(ses[t])
BY Zenon DEF Kinds, Owned, Untouched

SameViews ==
  \A r \in Sessions :
    (About(r)' <=> About(r)) /\ (InPort(r)' <=> InPort(r)) /\ (InArr(r)' <=> InArr(r))

\* A step that leaves the ports and lists as they are.
LEMMA SameShared ==
  ASSUME queue' = queue, list' = list, OneCell
  PROVE  SameViews /\ OneCell'
BY DEF SameViews, About, InPort, IsIO, InArr, OneCell

\* A step that leaves the sessions as they are.
LEMMA SameSession ==
  ASSUME TypeOK, S' = S, NEW s \in Sessions
  PROVE  OnlyS(s) /\ S'[s].io = S[s].io /\ S'[s].sock = S[s].sock /\ (Waiting(s)' <=> Waiting(s))
BY DEF OnlyS, TypeOK, Socket, Waiting

\* socketShutdown keeps the ownership.
LEMMA StopOwned ==
  ASSUME TypeOK, Kinds, Owned, NEW t \in Threads \ {Main}, Stop(t)
  PROVE  Owned' /\ S' \in [Sessions -> Socket]
<1>1. pc[t] \in {"test", "shut", "post"} /\ list' = list
  BY DEF Stop, ShutdownTest, Shutdown, putRTSQueue, PostFailed
<1>2. PICK s \in Sessions : s = ses[t] /\ ~ Pending(s)
  BY <1>1, Known, Zenon
<1>3. CASE ShutdownTest(t)
  <2>1. queue' = queue /\ S' = S /\ Others(t) /\ ses'[t] \in {s, NoSession}
        /\ pc'[t] \in {"test", "shut", "idle"}
    <3>1. CASE S[ses[t]].connected
      BY <1>2, <1>3, <3>1 DEF ShutdownTest, Goto, Others, TypeOK
    <3>2. CASE ~ S[ses[t]].connected
      <4>1. AfterShutdown(t) /\ queue' = queue /\ S' = S
        BY <1>3, <3>2 DEF ShutdownTest
      <4> QED
        BY <1>1, <1>2, <4>1, AfterEffect, Zenon
    <3> QED
      BY <3>1, <3>2, Zenon
  <2>2. OnlyS(s) /\ S'[s].io = S[s].io /\ S'[s].sock = S[s].sock /\ (Waiting(s)' <=> Waiting(s))
    BY <2>1, SameSession, Zenon
  <2>3. SameViews /\ OneCell'
    BY <1>1, <2>1, SameShared, Zenon DEF Owned
  <2> QED
    BY <1>2, <2>1, <2>2, <2>3, LocalStep, Zenon DEF SameViews
<1>4. CASE Shutdown(t)
  <2>1. queue' = queue /\ Others(t) /\ ses'[t] = s /\ pc'[t] = "post"
    BY <1>2, <1>4 DEF Shutdown, Goto, Others, TypeOK
  <2>2. /\ OnlyS(s) /\ S'[s].io = S[s].io /\ S'[s].op = S[s].op
        /\ S'[s].sock = (IF S[s].sock = "open" THEN "shut" ELSE S[s].sock)
    <3>1. S' = [S EXCEPT ![s].sock = IF @ = "open" THEN "shut" ELSE @,
                         ![s].connected = FALSE]
      BY <1>2, <1>4, Zenon DEF Shutdown
    <3> QED
      BY <3>1, ShutRec, Zenon
  <2>3. /\ Waiting(s)' => Waiting(s)
        /\ S[s].sock \notin {"open", "shut"} => S'[s].sock \notin {"open", "shut"}
    BY <2>2 DEF Waiting
  <2>4. SameViews /\ OneCell'
    BY <1>1, <2>1, SameShared, Zenon DEF Owned
  <2> QED
    BY <1>2, <2>1, <2>2, <2>3, <2>4, LocalStep, Zenon DEF SameViews
<1>5. CASE putRTSQueue(t)
  <2> DEFINE m == [op |-> "close", s |-> s, ok |-> TRUE]
  <2>1. S' = S /\ AfterShutdown(t) /\ Put(ErrComm, m)
    BY <1>2, <1>5 DEF putRTSQueue
  <2>2. /\ Others(t) /\ ses'[t] \in {s, NoSession} /\ pc'[t] \in {"test", "idle"}
    BY <1>1, <1>2, <2>1, AfterEffect, Zenon
  <2>3. OnlyS(s) /\ S'[s].io = S[s].io /\ S'[s].sock = S[s].sock /\ (Waiting(s)' <=> Waiting(s))
    BY <2>1, SameSession, Zenon
  <2>4. ErrComm \in Comms /\ m \in Message /\ m.op = "close" /\ m.s = s
    BY CommsAssumption DEF Message
  <2> HIDE DEF m
  <2>5. /\ \A r \in Sessions : About(r)' => About(r) \/ r = s
        /\ \A r \in Sessions : InPort(r)' => InPort(r)
        /\ OneCell'
    BY <2>1, <2>4, PutView, Zenon DEF Owned
  <2>6. \A r \in Sessions : InArr(r)' <=> InArr(r)
    BY <1>1 DEF InArr
  <2> QED
    BY <1>2, <2>2, <2>3, <2>5, <2>6, LocalStep, Zenon
<1>6. CASE PostFailed(t)
  <2>1. queue' = queue /\ AfterShutdown(t) /\ closeSocket(s)
    BY <1>2, <1>6, Zenon DEF PostFailed
  <2>2. /\ Others(t) /\ ses'[t] \in {s, NoSession} /\ pc'[t] \in {"test", "idle"}
    BY <1>1, <1>2, <2>1, AfterEffect, Zenon
  <2>3. /\ OnlyS(s) /\ S'[s].io = S[s].io /\ S'[s].op = S[s].op
        /\ S'[s].sock \in {"none", "closed"}
    BY <2>1, CloseRec, Zenon
  <2>4. Waiting(s)' => Waiting(s)
    BY <2>3 DEF Waiting
  <2>5. SameViews /\ OneCell'
    BY <1>1, <2>1, SameShared, Zenon DEF Owned
  <2> QED
    BY <1>2, <2>2, <2>3, <2>4, <2>5, LocalStep, Zenon DEF SameViews
<1> QED
  BY <1>3, <1>4, <1>5, <1>6 DEF Stop

\* Close and timeoutProcess keep the ownership.
LEMMA CloserOwned ==
  ASSUME TypeOK, Kinds, Owned, NEW k \in Closers,
         CloseWrite(k) \/ \E s \in Sessions : Close(k, s)
  PROVE  Owned' /\ S' \in [Sessions -> Socket]
<1>1. k \in Threads \ {Main} /\ list' = list /\ queue' = queue
  BY ThreadsAssumption DEF Threads, CloseWrite, Close
<1>2. SameViews /\ OneCell'
  BY <1>1, SameShared, Zenon DEF Owned
<1>3. CASE CloseWrite(k)
  <2>1. PICK s \in Sessions : s = ses[k] /\ ~ Pending(s)
    BY <1>1, <1>3, Known, Zenon DEF CloseWrite
  <2>2. Others(k) /\ ses'[k] = s /\ pc'[k] = "test"
    BY <1>1, <1>3, <2>1 DEF CloseWrite, Goto, Others, TypeOK
  <2>3. OnlyS(s) /\ S'[s].io = S[s].io /\ S'[s].op = S[s].op /\ S'[s].sock = S[s].sock
    <3>1. PICK b \in BOOLEAN : b = tmp[k]
      BY <1>1, Zenon DEF TypeOK
    <3>2. S' = [S EXCEPT ![s].connected = b]
      BY <1>3, <2>1, <3>1 DEF CloseWrite
    <3> QED
      BY <3>2, StatusRec, Zenon
  <2>4. Waiting(s)' => Waiting(s)
    BY <2>3, Zenon DEF Waiting
  <2> QED
    BY <1>1, <1>2, <2>1, <2>2, <2>3, <2>4, LocalStep, Zenon DEF SameViews
<1>4. ASSUME NEW s \in Sessions, Close(k, s) PROVE Owned' /\ S' \in [Sessions -> Socket]
  <2>1. S' = S /\ Others(k) /\ ses'[k] = s /\ pc'[k] = "write"
    BY <1>1, <1>4, Zenon DEF Close, Goto, Others, TypeOK
  <2>2. ~ Pending(s)
    <3>1. S[s].used => ~ Pending(s)
      BY ArmedRec, Zenon DEF Owned, Untouched
    <3>2. ASSUME NEW m \in Comms, s \in Listed(m) PROVE ~ Pending(s)
      <4>1. InArr(s)
        BY <3>2 DEF Listed, InArr, TypeOK
      <4> QED
        BY <4>1 DEF Owned, Untouched
    <3> QED
      BY <1>4, <3>1, <3>2 DEF Close
  <2>3. OnlyS(s) /\ S'[s].io = S[s].io /\ S'[s].sock = S[s].sock /\ (Waiting(s)' <=> Waiting(s))
    BY <2>1, SameSession, Zenon
  <2> QED
    BY <1>1, <1>2, <2>1, <2>2, <2>3, LocalStep, Zenon DEF SameViews
<1> QED
  BY <1>3, <1>4

\* A worker that takes a completion.
LEMMA TakesView ==
  ASSUME TypeOK, Owned, NEW w \in Workers, NEW s \in Sessions, NEW o, NEW ok, Takes(w, o, s, ok)
  PROVE  /\ pc[w] = "idle" /\ S[s].op = o
         /\ About(s) /\ InPort(s) /\ ~ InPort(s)' /\ ~ Pending(s)
         /\ \A r \in Sessions : About(r)' => About(r)
         /\ \A r \in Sessions : InPort(r)' => InPort(r)
         /\ OneCell'
         /\ queue' \in [Comms -> Seq(Message)]
<1>1. /\ pc[w] = "idle" /\ S[s].op = o /\ queue[Serves[w]] # <<>>
      /\ Head(queue[Serves[w]]) = Done(s, ok)
      /\ queue' = [queue EXCEPT ![Serves[w]] = Tail(queue[Serves[w]])]
  BY DEF Takes
<1>2. Serves[w] \in Comms
  BY CommsAssumption, Zenon
<1>3. Head(queue[Serves[w]]).op = "io" /\ Head(queue[Serves[w]]).s = s
  BY <1>1 DEF Done
<1>4. OneCell
  BY DEF Owned
<1>5. About(s) /\ InPort(s) /\ ~ InPort(s)'
  BY <1>1, <1>2, <1>3, <1>4, TakeView, Zenon
<1>6. /\ \A r \in Sessions : About(r)' => About(r)
      /\ \A r \in Sessions : InPort(r)' => InPort(r)
      /\ OneCell'
  BY <1>1, <1>2, <1>4, TakeView, Zenon
<1>7. queue' \in [Comms -> Seq(Message)]
  BY <1>1, <1>2, TakeCells, Zenon
<1> QED
  BY <1>1, <1>5, <1>6, <1>7, Zenon DEF Owned, Untouched

\* A worker's step outside socketShutdown keeps the ownership.
LEMMA WorkOwned ==
  ASSUME TypeOK, Kinds, Owned, Lists, Room, NEW w \in Workers, Work(w)
  PROVE  Owned' /\ S' \in [Sessions -> Socket]
<1>1. w \in Threads \ {Main}
  BY ThreadsAssumption DEF Threads
<1>2. ASSUME list' = list PROVE \A r \in Sessions : InArr(r)' <=> InArr(r)
  BY <1>2 DEF InArr
<1>3. ASSUME NEW s \in Sessions, AcceptFailed(w, s) PROVE Owned' /\ S' \in [Sessions -> Socket]
  <2>1. PICK ok \in BOOLEAN : Takes(w, "accept", s, ok)
    BY <1>3 DEF AcceptFailed
  <2>2. /\ pc[w] = "idle" /\ ~ Pending(s)
        /\ \A r \in Sessions : About(r)' => About(r)
        /\ \A r \in Sessions : InPort(r)' => InPort(r)
        /\ OneCell'
    BY <2>1, TakesView, Zenon
  <2>3. list' = list /\ pc' = pc /\ ses' = ses
        /\ S' = [S EXCEPT ![s].connected = TRUE, ![s].op = "none"]
    BY <1>3 DEF AcceptFailed
  <2>4. OnlyS(s) /\ S'[s].io = S[s].io /\ S'[s].op = "none" /\ S'[s].sock = S[s].sock
    BY <2>3, AcceptRec, Zenon
  <2>5. Waiting(s)' => Waiting(s)
    BY <2>4, Zenon DEF Waiting
  <2>6. ses[w] = NoSession
    BY <1>1, <2>2, Zenon DEF Kinds
  <2> QED
    BY <1>1, <1>2, <2>2, <2>3, <2>4, <2>5, <2>6, LocalStep, Zenon DEF Others
<1>4. ASSUME NEW s \in Sessions, doAccept(w, s) PROVE Owned' /\ S' \in [Sessions -> Socket]
  <2>1. PICK ok \in BOOLEAN : Takes(w, "accept", s, ok)
    BY <1>4 DEF doAccept
  <2>2. /\ pc[w] = "idle" /\ S[s].op = "accept"
        /\ About(s) /\ InPort(s) /\ ~ InPort(s)'
        /\ \A r \in Sessions : About(r)' => About(r)
        /\ \A r \in Sessions : InPort(r)' => InPort(r)
        /\ OneCell'
    BY <2>1, TakesView, Zenon
  <2>3. /\ list' = list /\ Others(w) /\ pc'[w] = "bind" /\ ses'[w] = s
        /\ S[s].sock = "open"
        /\ S' = [S EXCEPT ![s].connected = TRUE, ![s].op = "none"]
    BY <1>1, <1>4 DEF doAccept, Goto, Others, TypeOK
  <2>4. OnlyS(s) /\ S'[s].io = S[s].io /\ S'[s].op = "none" /\ S'[s].sock = S[s].sock
    BY <2>3, AcceptRec, Zenon
  <2>5. Waiting(s) /\ S[s].io = "none"
    BY <2>2, <2>3, Zenon DEF Waiting, Owned, OneHolder
  <2>6. ~ Waiting(s)'
    BY <2>4, <2>5 DEF Waiting
  <2> QED
    BY <1>1, <2>2, <2>3, <2>4, <2>5, <2>6, HandedStep, Zenon
<1>5. ASSUME NEW s \in Sessions, comproc_recvComplete(w, s) PROVE Owned' /\ S' \in [Sessions -> Socket]
  <2>1. list' = list /\ ses'[w] = s /\ \A u \in Threads \ {w} : ses'[u] = ses[u]
    BY <1>1, <1>5 DEF comproc_recvComplete, TypeOK
  <2>2. CASE Takes(w, "recv", s, TRUE) /\ S' = [S EXCEPT ![s].known = TRUE] /\ Goto(w, "app")
    <3>1. /\ pc[w] = "idle" /\ S[s].op = "recv"
          /\ About(s) /\ InPort(s) /\ ~ InPort(s)'
          /\ \A r \in Sessions : About(r)' => About(r)
          /\ \A r \in Sessions : InPort(r)' => InPort(r)
          /\ OneCell'
      BY <2>2, TakesView, Zenon
    <3>2. OnlyS(s) /\ S'[s].io = S[s].io /\ S'[s].op = S[s].op /\ S'[s].sock = S[s].sock
      BY <2>2, CompleteRecvRec, Zenon
    <3>3. Others(w) /\ pc'[w] = "app"
      BY <1>1, <2>1, <2>2, Zenon DEF Goto, Others, TypeOK
    <3>4. S[s].io = "none"
      BY <3>1 DEF Owned, OneHolder
    <3>5. ~ Waiting(s)'
      BY <3>1, <3>2, <3>4, Zenon DEF Waiting
    <3> QED
      BY <1>1, <2>1, <3>1, <3>2, <3>3, <3>5, HandedStep, Zenon
  <2>3. CASE Takes(w, "recv", s, FALSE) /\ S' = [S EXCEPT ![s].op = "error"] /\ Goto(w, "test")
    <3>1. /\ pc[w] = "idle" /\ ~ Pending(s)
          /\ \A r \in Sessions : About(r)' => About(r)
          /\ \A r \in Sessions : InPort(r)' => InPort(r)
          /\ OneCell'
      BY <2>3, TakesView, Zenon
    <3>2. OnlyS(s) /\ S'[s].io = S[s].io /\ S'[s].op = "error" /\ S'[s].sock = S[s].sock
      BY <2>3, CompleteRecvRec, Zenon
    <3>3. Others(w) /\ pc'[w] = "test"
      BY <1>1, <2>1, <2>3, Zenon DEF Goto, Others, TypeOK
    <3>4. Waiting(s)' => Waiting(s)
      BY <3>2 DEF Waiting
    <3> QED
      BY <1>1, <1>2, <2>1, <3>1, <3>2, <3>3, <3>4, LocalStep, Zenon
  <2> QED
    BY <1>5, <2>2, <2>3, Zenon DEF comproc_recvComplete
<1>6. ASSUME NEW s \in Sessions, comproc_close(w, s) PROVE Owned' /\ S' \in [Sessions -> Socket]
  <2> DEFINE c == Serves[w]
  <2>1. /\ c \in Comms /\ queue[c] # <<>> /\ Head(queue[c]).s = s
        /\ queue' = [queue EXCEPT ![c] = Tail(queue[c])] /\ S' = S /\ list' = list
    BY <1>6, CommsAssumption, Zenon DEF comproc_close
  <2>2. Others(w) /\ pc'[w] = "del" /\ ses'[w] = s
    BY <1>1, <1>6 DEF comproc_close, Goto, Others, TypeOK
  <2> HIDE DEF c
  <2>3. About(Head(queue[c]).s)
    BY <2>1, TakeView, Zenon DEF Owned
  <2>4. ~ Pending(s)
    BY <2>1, <2>3 DEF Owned, Untouched
  <2>5. /\ \A r \in Sessions : About(r)' => About(r)
        /\ \A r \in Sessions : InPort(r)' => InPort(r)
        /\ OneCell'
    BY <2>1, TakeView, Zenon DEF Owned
  <2>6. OnlyS(s) /\ S'[s].io = S[s].io /\ S'[s].sock = S[s].sock /\ (Waiting(s)' <=> Waiting(s))
    BY <2>1, SameSession, Zenon
  <2> QED
    BY <1>1, <1>2, <2>1, <2>2, <2>4, <2>5, <2>6, LocalStep, Zenon
<1>7. CASE bindRecv(w)
  BY <1>7, BindRecvOwned, Zenon
<1>8. CASE AddSession(w)
  BY <1>8, AddOwned, Zenon
<1>9. CASE RecvRefused(w)
  <2>1. PICK s \in Sessions : s = ses[w] /\ ~ Pending(s)
    BY <1>1, <1>9, Known, Zenon DEF RecvRefused
  <2>2. queue' = queue /\ list' = list /\ Others(w) /\ pc'[w] = "test" /\ ses'[w] = s
    BY <1>1, <1>9, <2>1 DEF RecvRefused, Goto, Others, TypeOK
  <2>3. OnlyS(s) /\ S'[s].io = S[s].io /\ S'[s].op = "recv" /\ S'[s].sock = S[s].sock
    <3>1. S' = [S EXCEPT ![s].buf = TRUE, ![s].op = "recv"]
      BY <1>9, <2>1, Zenon DEF RecvRefused
    <3> QED
      BY <3>1, RecvRec, Zenon
  <2>4. Waiting(s)' => Waiting(s)
    BY <2>3 DEF Waiting
  <2>5. SameViews /\ OneCell'
    BY <2>2, SameShared, Zenon DEF Owned
  <2> QED
    BY <1>1, <2>1, <2>2, <2>3, <2>4, <2>5, LocalStep, Zenon DEF SameViews
<1>10. CASE CloseDel(w)
  <2>1. PICK s \in Sessions : s = ses[w] /\ ~ Pending(s)
    BY <1>1, <1>10, Known, Zenon DEF CloseDel
  <2>2. queue' = queue /\ S' = S /\ Others(w) /\ pc'[w] = "close" /\ ses'[w] = s
    BY <1>1, <1>10, <2>1 DEF CloseDel, Goto, Others, TypeOK
  <2>3. \A r \in Sessions : InArr(r)' => InArr(r)
    <3>1. Serves[w] \in Comms /\ list \in [Comms -> List]
      BY CommsAssumption, ListTyped, Zenon
    <3>2. Deleted(list[Serves[w]], s).arr = list[Serves[w]].arr
      BY <3>1, DeletedList, Zenon DEF Lists
    <3>3. \A d \in Comms : list'[d].arr = list[d].arr
      BY <1>10, <2>1, <3>1, <3>2, Zenon DEF CloseDel
    <3> QED
      BY <3>3 DEF InArr
  <2>4. /\ \A r \in Sessions : About(r)' => About(r)
        /\ \A r \in Sessions : InPort(r)' => InPort(r)
        /\ OneCell'
    <3>1. \A r \in Sessions : About(r)' => About(r)
      BY <2>2, Zenon DEF About
    <3>2. \A r \in Sessions : InPort(r)' => InPort(r)
      BY <2>2, Zenon DEF InPort, IsIO
    <3>3. OneCell'
      BY <2>2, SameCells, Zenon DEF Owned
    <3> QED
      BY <3>1, <3>2, <3>3
  <2>5. OnlyS(s) /\ S'[s].io = S[s].io /\ S'[s].sock = S[s].sock /\ (Waiting(s)' <=> Waiting(s))
    BY <2>2, SameSession, Zenon
  <2> QED
    BY <1>1, <2>1, <2>2, <2>3, <2>4, <2>5, LocalStep, Zenon
<1>11. CASE CloseSock(w)
  <2>1. PICK s \in Sessions : s = ses[w] /\ ~ Pending(s)
    BY <1>1, <1>11, Known, Zenon DEF CloseSock
  <2>2. /\ queue' = queue /\ list' = list /\ closeSocket(s)
        /\ Others(w) /\ pc'[w] = "return" /\ ses'[w] = s
    BY <1>1, <1>11, <2>1 DEF CloseSock, Goto, Others, TypeOK
  <2>3. /\ OnlyS(s) /\ S'[s].io = S[s].io /\ S'[s].op = S[s].op
        /\ S'[s].sock \in {"none", "closed"}
    BY <2>2, CloseRec, Zenon
  <2>4. Waiting(s)' => Waiting(s)
    BY <2>3 DEF Waiting
  <2>5. SameViews /\ OneCell'
    BY <2>2, SameShared, Zenon DEF Owned
  <2> QED
    BY <1>1, <2>1, <2>2, <2>3, <2>4, <2>5, LocalStep, Zenon DEF SameViews
<1>12. CASE delSocket(w)
  <2>1. PICK s \in Sessions : s = ses[w] /\ ~ Pending(s)
    BY <1>1, <1>12, Known, Zenon DEF delSocket
  <2>2. /\ queue' = queue /\ list' = list /\ pc[w] = "return"
        /\ Others(w) /\ pc'[w] = "rearm" /\ ses'[w] = s
    BY <1>1, <1>12, <2>1, Zenon DEF delSocket, Goto, Others, TypeOK
  <2>3. OnlyS(s) /\ S'[s].io = S[s].io /\ S'[s].op = S[s].op /\ S'[s].sock = S[s].sock
    <3>1. CASE S' = [S EXCEPT ![s].buf = FALSE, ![s].used = FALSE]
      BY <3>1, ReturnRec, Zenon
    <3>2. CASE S' = S
      BY <3>2, SameSession, Zenon
    <3> QED
      BY <1>12, <2>1, <3>1, <3>2 DEF delSocket
  <2>4. (Waiting(s)' => Waiting(s)) /\ S'[s].sock \notin {"open", "shut"}
    BY <1>1, <2>1, <2>2, <2>3, Zenon DEF Waiting, Owned, NotOpen
  <2>5. SameViews /\ OneCell'
    BY <2>2, SameShared, Zenon DEF Owned
  <2> QED
    BY <1>1, <2>1, <2>2, <2>3, <2>4, <2>5, LocalStep, Zenon DEF SameViews
<1>13. CASE bindAccept(w)
  <2>1. PICK s \in Sessions : s = ses[w] /\ ~ Pending(s)
    BY <1>1, <1>13, Known, Zenon DEF bindAccept
  <2>2. /\ queue' = queue /\ list' = list /\ pc[w] = "rearm"
        /\ Others(w) /\ pc'[w] = "idle" /\ ses'[w] = NoSession
    BY <1>1, <1>13, <2>1, Zenon DEF bindAccept, Goto, Return, Others, TypeOK
  <2>3. S[s].sock \notin {"open", "shut"}
    BY <1>1, <2>1, <2>2, Zenon DEF Owned, NotOpen
  <2>4. OnlyS(s) /\ S'[s].io = S[s].io /\ S'[s].sock = S[s].sock
    <3>1. CASE S[s].accepted
      <4>1. S' = [S EXCEPT ![s].op = "accept",
                           ![s].io = IF S[s].sock = "open" THEN "accept" ELSE @]
        BY <1>13, <2>1, <3>1 DEF bindAccept
      <4> QED
        BY <2>3, <4>1, RearmRec, Zenon
    <3>2. CASE ~ S[s].accepted
      <4>1. S' = S
        BY <1>13, <2>1, <3>2 DEF bindAccept
      <4> QED
        BY <4>1, SameSession, Zenon
    <3> QED
      BY <3>1, <3>2
  <2>5. Waiting(s)' => Waiting(s)
    BY <2>3, <2>4 DEF Waiting
  <2>6. SameViews /\ OneCell'
    BY <2>2, SameShared, Zenon DEF Owned
  <2> QED
    BY <1>1, <2>1, <2>2, <2>3, <2>4, <2>5, <2>6, LocalStep, Zenon DEF SameViews
<1>14. CASE Stop(w)
  BY <1>1, <1>14, StopOwned, Zenon
<1> QED
  BY <1>3, <1>4, <1>5, <1>6, <1>7, <1>8, <1>9, <1>10, <1>11, <1>12, <1>13, <1>14, Zenon DEF Work

----------------------------------------------------------------------------
(* Types, and which steps a thread can be at.                              *)

\* One thread moves; the others stay where they are.
LEMMA Moved ==
  ASSUME TypeOK, Kinds, NEW t \in Threads, Others(t),
         pc' \in [Threads -> {"idle", "prepare", "read", "write", "bind", "app", "add",
                              "test", "shut", "post", "del", "close", "return", "rearm"}],
         ses' \in [Threads -> Sessions \cup {NoSession}],
         left' \in [Threads -> 0 .. 2],
         \A u \in Threads \ {t} : left'[u] = left[u],
         t = Main => pc'[t] \in {"idle", "prepare", "read", "write"},
         t \in Closers => pc'[t] \in {"idle", "write", "test", "shut", "post"},
         t \in Workers => pc'[t] \notin {"prepare", "read", "write"},
         pc'[t] = "idle" <=> ses'[t] = NoSession,
         pc'[t] \in {"test", "shut", "post"} => left'[t] >= 1
  PROVE  Kinds'
<1>1. Main \in Threads /\ Closers \subseteq Threads /\ Workers \subseteq Threads
  BY DEF Threads
<1>2. \A u \in Threads \ {t} : pc'[u] = pc[u] /\ ses'[u] = ses[u] /\ left'[u] = left[u]
  BY Zenon DEF Others
<1>3. /\ pc'[Main] \in {"idle", "prepare", "read", "write"}
      /\ \A k \in Closers : pc'[k] \in {"idle", "write", "test", "shut", "post"}
      /\ \A w \in Workers : pc'[w] \notin {"prepare", "read", "write"}
  BY <1>1, <1>2, Zenon DEF Kinds
<1>4. ASSUME NEW u \in Threads
      PROVE  /\ pc'[u] # "idle" => ses'[u] \in Sessions
             /\ pc'[u] = "idle" => ses'[u] = NoSession
             /\ pc'[u] \in {"test", "shut", "post"} => left'[u] >= 1
  <2>1. CASE u = t
    BY <2>1, Zenon
  <2>2. CASE u # t
    BY <1>2, <2>2, Zenon DEF Kinds
  <2> QED
    BY <2>1, <2>2
<1> QED
  BY <1>3, <1>4, Zenon DEF Kinds

Labels == {"idle", "prepare", "read", "write", "bind", "app", "add",
           "test", "shut", "post", "del", "close", "return", "rearm"}

\* A thread goes to a label, with the session it has, with another or with none.
LEMMA GotoTyped ==
  ASSUME TypeOK, NEW t \in Threads, NEW l \in Labels, NEW s \in Sessions \cup {NoSession},
         pc' = [pc EXCEPT ![t] = l], ses' = [ses EXCEPT ![t] = s]
  PROVE  /\ pc' \in [Threads -> Labels] /\ ses' \in [Threads -> Sessions \cup {NoSession}]
         /\ Others(t) /\ pc'[t] = l /\ ses'[t] = s
BY DEF TypeOK, Labels, Others

\* The same for a thread that keeps its session.
LEMMA KeepTyped ==
  ASSUME TypeOK, NEW t \in Threads, NEW l \in Labels,
         pc' = [pc EXCEPT ![t] = l], ses' = ses
  PROVE  /\ pc' \in [Threads -> Labels] /\ ses' \in [Threads -> Sessions \cup {NoSession}]
         /\ Others(t) /\ pc'[t] = l /\ ses'[t] = ses[t]
BY DEF TypeOK, Labels, Others

\* socketShutdown keeps types and kinds.
LEMMA StopTyped ==
  ASSUME TypeOK, Kinds, NEW t \in Threads \ {Main}, Stop(t),
         S' \in [Sessions -> Socket]
  PROVE  TypeOK' /\ Kinds'
<1>1. /\ pc[t] \in {"test", "shut", "post"} /\ t \in Workers \cup Closers
      /\ UNCHANGED <<list, useCnt, tmp>>
  BY Zenon DEF Stop, ShutdownTest, Shutdown, putRTSQueue, PostFailed, Threads
<1>2. ses[t] \in Sessions /\ ses[t] # NoSession /\ left[t] >= 1
  BY <1>1 DEF Kinds, Sessions, NoSession
<1>3. \A r \in Sessions : r # NoSession
  BY DEF Sessions, NoSession
<1> DEFINE Effect ==
             /\ pc' \in [Threads -> Labels] /\ ses' \in [Threads -> Sessions \cup {NoSession}]
             /\ left' \in [Threads -> 0 .. 2]
             /\ \A u \in Threads \ {t} : left'[u] = left[u]
             /\ Others(t)
             /\ \/ pc'[t] \in {"test", "shut", "post"} /\ ses'[t] = ses[t] /\ left'[t] >= 1
                \/ pc'[t] = "idle" /\ ses'[t] = NoSession
<1>4. Effect
  <2>1. ASSUME AfterShutdown(t) PROVE Effect
    <3>1. /\ Others(t)
          /\ left' \in [Threads -> 0 .. 2]
          /\ \A u \in Threads \ {t} : left'[u] = left[u]
          /\ \/ pc'[t] = "test" /\ ses'[t] = ses[t] /\ left'[t] >= 1
             \/ pc'[t] = "idle" /\ ses'[t] = NoSession
      BY <1>1, <2>1, AfterEffect, Zenon
    <3>2. pc' \in [Threads -> Labels] /\ ses' \in [Threads -> Sessions \cup {NoSession}]
      BY <2>1, Zenon DEF AfterShutdown, Goto, Return, TypeOK, Labels
    <3> QED
      BY <3>1, <3>2, Zenon
  <2>2. ASSUME NEW l \in {"shut", "post"}, Goto(t, l), UNCHANGED <<ses, left>> PROVE Effect
    BY <1>2, <2>2 DEF Goto, TypeOK, Labels, Others
  <2> QED
    BY <2>1, <2>2 DEF Stop, ShutdownTest, Shutdown, putRTSQueue, PostFailed
<1>5. queue' \in [Comms -> Seq(Message)]
  <2>1. CASE putRTSQueue(t)
    <3> DEFINE m == [op |-> "close", s |-> ses[t], ok |-> TRUE]
    <3>1. Put(ErrComm, m) /\ m \in Message /\ ErrComm \in Comms
      BY <1>2, <2>1, CommsAssumption DEF putRTSQueue, Message
    <3> HIDE DEF m
    <3> QED
      BY <3>1, PutCells, Zenon
  <2>2. CASE ~ putRTSQueue(t)
    BY <2>2, Zenon DEF Stop, ShutdownTest, Shutdown, PostFailed, TypeOK, Message
  <2> QED
    BY <2>1, <2>2
<1>6. events' \in [out : Nat, lost : Nat]
  <2>1. CASE putRTSQueue(t)
    <3>1. events' = [events EXCEPT !.out = events.out + 1] /\ events \in [out : Nat, lost : Nat]
      BY <2>1 DEF putRTSQueue, TypeOK
    <3>2. PICK n \in Nat : n = events.out + 1
      BY <3>1
    <3> QED
      BY <3>1, <3>2
  <2>2. CASE PostFailed(t)
    <3>1. events' = events \/ events' = [out |-> events.out + 1, lost |-> events.lost + 1]
      BY <2>2, Zenon DEF PostFailed
    <3>2. events \in [out : Nat, lost : Nat]
      BY DEF TypeOK
    <3> QED
      BY <3>1, <3>2
  <2>3. CASE ShutdownTest(t) \/ Shutdown(t)
    BY <2>3 DEF ShutdownTest, Shutdown, TypeOK
  <2> QED
    BY <2>1, <2>2, <2>3 DEF Stop
<1>7. TypeOK'
  BY <1>1, <1>4, <1>5, <1>6, Zenon DEF TypeOK, Labels, Message, Socket
<1>8. Kinds'
  BY <1>1, <1>2, <1>3, <1>4, Moved, ThreadsAssumption, Zenon DEF Labels
<1> QED
  BY <1>7, <1>8

\* Close and timeoutProcess keep types and kinds.
LEMMA CloserTyped ==
  ASSUME TypeOK, Kinds, NEW k \in Closers, S' \in [Sessions -> Socket],
         CloseWrite(k) \/ \E s \in Sessions : Close(k, s)
  PROVE  TypeOK' /\ Kinds'
<1>1. k \in Threads /\ k # Main /\ k \notin Workers
  BY ThreadsAssumption DEF Threads
<1>2. \A r \in Sessions : r # NoSession
  BY DEF Sessions, NoSession
<1>3. CASE CloseWrite(k)
  <2>1. /\ pc[k] = "write" /\ pc' = [pc EXCEPT ![k] = "test"] /\ ses' = ses
        /\ UNCHANGED <<useCnt, queue, list, events>>
        /\ left' = [left EXCEPT ![k] = 1]
        /\ tmp' = [tmp EXCEPT ![k] = FALSE]
    BY <1>3 DEF CloseWrite, Goto
  <2>2. /\ pc' \in [Threads -> Labels] /\ ses' \in [Threads -> Sessions \cup {NoSession}]
        /\ Others(k) /\ pc'[k] = "test" /\ ses'[k] = ses[k]
    BY <1>1, <2>1, KeepTyped, Zenon DEF Labels
  <2>3. /\ left' \in [Threads -> 0 .. 2] /\ left'[k] = 1
        /\ \A u \in Threads \ {k} : left'[u] = left[u]
    BY <1>1, <2>1 DEF TypeOK
  <2>4. tmp' \in [Threads -> BOOLEAN]
    BY <1>1, <2>1, Zenon DEF TypeOK
  <2>5. ses[k] \in Sessions
    BY <1>1, <2>1 DEF Kinds
  <2>6. TypeOK'
    BY <2>1, <2>2, <2>3, <2>4, Zenon DEF TypeOK, Labels, Socket
  <2>7. Kinds'
    <3>1. left'[k] >= 1
      BY <2>3
    <3>2. ses'[k] # NoSession
      BY <1>2, <2>2, <2>5
    <3> QED
      BY <1>1, <2>2, <2>3, <3>1, <3>2, Moved, Zenon DEF Labels
  <2> QED
    BY <2>6, <2>7
<1>4. ASSUME NEW s \in Sessions, Close(k, s) PROVE TypeOK' /\ Kinds'
  <2>1. /\ pc' = [pc EXCEPT ![k] = "write"] /\ ses' = [ses EXCEPT ![k] = s]
        /\ UNCHANGED <<useCnt, queue, list, events, left>>
        /\ tmp' = [tmp EXCEPT ![k] = S[s].connected]
    BY <1>4 DEF Close, Goto
  <2>2. /\ pc' \in [Threads -> Labels] /\ ses' \in [Threads -> Sessions \cup {NoSession}]
        /\ Others(k) /\ pc'[k] = "write" /\ ses'[k] = s
    BY <1>1, <2>1, GotoTyped, Zenon DEF Labels
  <2>3. tmp' \in [Threads -> BOOLEAN]
    <3>1. PICK b \in BOOLEAN : b = S[s].connected
      BY Zenon, <1>4 DEF TypeOK
    <3> QED
      BY <1>1, <2>1, <3>1, Zenon DEF TypeOK
  <2>4. TypeOK'
    BY <2>1, <2>2, <2>3, Zenon DEF TypeOK, Labels, Socket
  <2>5. Kinds'
    BY <1>1, <1>2, <2>1, <2>2, Moved, Zenon DEF Labels, TypeOK
  <2> QED
    BY <2>4, <2>5
<1> QED
  BY <1>3, <1>4

\* A worker's step keeps types and kinds; bindAccept returns a block that is out.
LEMMA WorkTyped ==
  ASSUME Inv, Room, NEW w \in Workers, Work(w), S' \in [Sessions -> Socket]
  PROVE  TypeOK' /\ Kinds'
<1> USE DEF Inv
<1>1. w \in Threads /\ w # Main /\ w \notin Closers
  BY ThreadsAssumption DEF Threads
<1>2. \A r \in Sessions : r # NoSession
  BY DEF Sessions, NoSession
<1> DEFINE Effect ==
             /\ pc' \in [Threads -> Labels] /\ ses' \in [Threads -> Sessions \cup {NoSession}]
             /\ left' \in [Threads -> 0 .. 2]
             /\ \A u \in Threads \ {w} : left'[u] = left[u]
             /\ Others(w)
             /\ pc'[w] \notin {"prepare", "read", "write"}
             /\ pc'[w] = "idle" <=> ses'[w] = NoSession
             /\ pc'[w] \in {"test", "shut", "post"} => left'[w] >= 1
<1>3. ASSUME NEW l \in Labels, NEW s \in Sessions, pc' = [pc EXCEPT ![w] = l],
             ses' = [ses EXCEPT ![w] = s], l \notin {"prepare", "read", "write", "idle"},
             \/ left' = left /\ l \notin {"test", "shut", "post"}
             \/ \E n \in 1 .. 2 : left' = [left EXCEPT ![w] = n]
      PROVE  Effect
  <2>1. /\ pc' \in [Threads -> Labels] /\ ses' \in [Threads -> Sessions \cup {NoSession}]
        /\ Others(w) /\ pc'[w] = l /\ ses'[w] = s
    BY <1>1, <1>3, GotoTyped, Zenon
  <2>2. /\ left' \in [Threads -> 0 .. 2] /\ \A u \in Threads \ {w} : left'[u] = left[u]
        /\ l \in {"test", "shut", "post"} => left'[w] >= 1
    <3>1. CASE left' = left /\ l \notin {"test", "shut", "post"}
      BY <3>1, Zenon DEF TypeOK
    <3>2. ASSUME NEW n \in 1 .. 2, left' = [left EXCEPT ![w] = n]
          PROVE  left'[w] >= 1 /\ left' \in [Threads -> 0 .. 2] /\ \A u \in Threads \ {w} : left'[u] = left[u]
      BY <1>1, <3>2 DEF TypeOK
    <3> QED
      BY <1>3, <3>1, <3>2, Zenon
  <2> QED
    BY <1>2, <1>3, <2>1, <2>2
<1>4. ASSUME Return(w), left' = left PROVE Effect
  <2>1. /\ pc' \in [Threads -> Labels] /\ ses' \in [Threads -> Sessions \cup {NoSession}]
        /\ Others(w) /\ pc'[w] = "idle" /\ ses'[w] = NoSession
    BY <1>1, <1>4, GotoTyped, Zenon DEF Return, Goto, Labels
  <2> QED
    BY <1>4, <2>1 DEF TypeOK
<1>5. ASSUME pc[w] # "idle", ses' = ses PROVE ses[w] \in Sessions /\ ses' = [ses EXCEPT ![w] = ses[w]]
  BY <1>1, <1>5 DEF Kinds, TypeOK
<1>6. ASSUME Effect PROVE Kinds'
  BY <1>1, <1>2, <1>6, Moved, Zenon DEF Labels
<1>7. ASSUME Effect, UNCHANGED <<useCnt, list, events, tmp>>, queue' \in [Comms -> Seq(Message)]
      PROVE  TypeOK' /\ Kinds'
  BY <1>6, <1>7, Zenon DEF TypeOK, Labels, Message, Socket
<1> HIDE DEF Effect
<1>8. queue \in [Comms -> Seq(Message)]
  BY Zenon DEF TypeOK, Message
<1>9. ASSUME NEW s \in Sessions, AcceptFailed(w, s) PROVE TypeOK' /\ Kinds'
  <2>1. PICK ok \in BOOLEAN : Takes(w, "accept", s, ok)
    BY <1>9 DEF AcceptFailed
  <2>2. queue' \in [Comms -> Seq(Message)]
    BY <2>1, TakesView, Zenon
  <2>3. UNCHANGED <<useCnt, list, events, pc, ses, tmp, left>>
    BY <1>9 DEF AcceptFailed
  <2> QED
    BY <2>2, <2>3, Zenon DEF TypeOK, Kinds, Message, Socket
<1>10. ASSUME NEW s \in Sessions, doAccept(w, s) PROVE TypeOK' /\ Kinds'
  <2>1. PICK ok \in BOOLEAN : Takes(w, "accept", s, ok)
    BY <1>10 DEF doAccept
  <2>2. queue' \in [Comms -> Seq(Message)]
    BY <2>1, TakesView, Zenon
  <2>3. Effect
    BY <1>3, <1>10, Zenon DEF doAccept, Goto, Labels
  <2> QED
    BY <1>7, <1>10, <2>2, <2>3, Zenon DEF doAccept
<1>11. ASSUME NEW s \in Sessions, comproc_recvComplete(w, s) PROVE TypeOK' /\ Kinds'
  <2>1. PICK ok \in BOOLEAN : Takes(w, "recv", s, ok)
    BY <1>11, Zenon DEF comproc_recvComplete
  <2>2. queue' \in [Comms -> Seq(Message)]
    BY <2>1, TakesView, Zenon
  <2>3. Effect
    <3>1. CASE Goto(w, "app") /\ UNCHANGED left
      BY <1>3, <1>11, <3>1, Zenon DEF comproc_recvComplete, Goto, Labels
    <3>2. CASE Goto(w, "test") /\ left' = [left EXCEPT ![w] = 1]
      <4>1. 1 \in 1 .. 2
        OBVIOUS
      <4>2. \E n \in 1 .. 2 : left' = [left EXCEPT ![w] = n]
        BY <3>2, <4>1, Zenon
      <4> QED
        BY <1>3, <1>11, <3>2, <4>2, Zenon DEF comproc_recvComplete, Goto, Labels
    <3> QED
      BY <1>11, <3>1, <3>2, Zenon DEF comproc_recvComplete
  <2> QED
    BY <1>7, <1>11, <2>2, <2>3 DEF comproc_recvComplete
<1>12. ASSUME NEW s \in Sessions, comproc_close(w, s) PROVE TypeOK' /\ Kinds'
  <2>1. queue' \in [Comms -> Seq(Message)]
    BY <1>12, TakeCells, CommsAssumption, Zenon DEF comproc_close
  <2>2. Effect
    BY <1>3, <1>12, Zenon DEF comproc_close, Goto, Labels
  <2> QED
    BY <1>7, <1>12, <2>1, <2>2, Zenon DEF comproc_close
<1>13. CASE bindRecv(w)
  <2>1. Effect
    <3>1. CASE pc[w] = "bind" /\ Goto(w, "add") /\ UNCHANGED ses
      BY <1>3, <1>5, <1>13, <3>1 DEF bindRecv, Goto, Labels
    <3>2. CASE Return(w)
      BY <1>4, <1>13, <3>2 DEF bindRecv
    <3> QED
      BY <1>13, <3>1, <3>2, Zenon DEF bindRecv
  <2> QED
    BY <1>7, <1>8, <1>13, <2>1, Zenon DEF bindRecv
<1>14. CASE RecvRefused(w)
  <2>1. Effect
    <3>1. \E n \in 1 .. 2 : left' = [left EXCEPT ![w] = n]
      <4>1. left' = [left EXCEPT ![w] = 2] \/ left' = [left EXCEPT ![w] = 1]
        BY <1>14, Zenon DEF RecvRefused
      <4>2. 1 \in 1 .. 2 /\ 2 \in 1 .. 2
        OBVIOUS
      <4> QED
        BY <4>1, <4>2, Zenon
    <3> QED
      BY <1>3, <1>5, <1>14, <3>1, Zenon DEF RecvRefused, Goto, Labels
  <2> QED
    BY <1>7, <1>8, <1>14, <2>1 DEF RecvRefused
<1>15. CASE AddSession(w)
  <2>1. Effect
    <3>1. CASE Return(w) /\ UNCHANGED left
      BY <1>4, <3>1, Zenon
    <3>2. CASE left' = [left EXCEPT ![w] = 1] /\ Goto(w, "test") /\ UNCHANGED ses
      BY <1>3, <1>5, <1>15, <3>2 DEF AddSession, Goto, Labels
    <3> QED
      BY <1>15, <3>1, <3>2 DEF AddSession
  <2>2. PICK s \in Sessions : s = ses[w]
    BY <1>1, <1>15, Zenon DEF AddSession, Kinds
  <2>3. list' \in [Comms -> List]
    BY <1>15, <2>2, AddEffect, Zenon
  <2>4. UNCHANGED <<queue, useCnt, events, tmp>>
    BY <1>15 DEF AddSession
  <2> QED
    BY <1>6, <2>1, <2>3, <2>4, Zenon DEF Effect, TypeOK, Labels, Socket, List
<1>16. CASE CloseDel(w)
  <2>1. Effect
    BY <1>3, <1>5, <1>16 DEF CloseDel, Goto, Labels
  <2>2. PICK s \in Sessions : s = ses[w]
    BY <1>1, <1>16, Zenon DEF CloseDel, Kinds
  <2>3. list' \in [Comms -> List]
    <3>1. Serves[w] \in Comms /\ list \in [Comms -> List]
      BY CommsAssumption, ListTyped, Zenon
    <3>2. Deleted(list[Serves[w]], s) \in List
      BY <3>1, DeletedList, Zenon DEF Lists
    <3> QED
      BY <1>16, <2>2, <3>1, <3>2 DEF CloseDel
  <2>4. UNCHANGED <<queue, useCnt, events, tmp>>
    BY <1>16, Zenon DEF CloseDel
  <2> QED
    BY <1>6, <2>1, <2>3, <2>4, Zenon DEF Effect, TypeOK, Labels, Socket, List
<1>17. CASE CloseSock(w)
  <2>1. Effect
    BY <1>3, <1>5, <1>17 DEF CloseSock, Goto, Labels
  <2> QED
    BY <1>7, <1>8, <1>17, <2>1, Zenon DEF CloseSock
<1>18. CASE delSocket(w)
  <2>1. Effect
    BY <1>3, <1>5, <1>18 DEF delSocket, Goto, Labels
  <2>2. useCnt' \in Int /\ UNCHANGED <<queue, list, events, tmp>>
    BY <1>18 DEF delSocket, TypeOK
  <2> QED
    BY <1>6, <2>1, <2>2, Zenon DEF Effect, TypeOK, Labels, Socket
<1>19. CASE bindAccept(w)
  <2>1. Effect
    BY <1>4, <1>19 DEF bindAccept
  <2>2. events.out \in Nat \ {0}
    <3>1. events.out > 0
      BY <1>19, Zenon DEF bindAccept, Room
    <3>2. events.out \in Nat
      BY DEF TypeOK
    <3> QED
      BY <3>1, <3>2
  <2>3. events' \in [out : Nat, lost : Nat]
    <3>1. events' = [events EXCEPT !.out = events.out - 1] /\ events \in [out : Nat, lost : Nat]
      BY <1>19 DEF bindAccept, TypeOK
    <3>2. PICK n \in Nat : n = events.out - 1
      BY <2>2
    <3> QED
      BY <3>1, <3>2
  <2>4. UNCHANGED <<queue, list, useCnt, tmp>>
    BY <1>19 DEF bindAccept
  <2> QED
    BY <1>6, <2>1, <2>3, <2>4, Zenon DEF Effect, TypeOK, Labels, Socket
<1>20. CASE Stop(w)
  BY <1>1, <1>20, StopTyped, Zenon
<1> QED
  BY <1>9, <1>10, <1>11, <1>12, <1>13, <1>14, <1>15, <1>16, <1>17, <1>18, <1>19, <1>20, Zenon DEF Work

\* The operating system and prepareAccept keep types and kinds.
LEMMA PrepareTyped ==
  ASSUME TypeOK, Kinds, S' \in [Sessions -> Socket], Prepare
  PROVE  TypeOK' /\ Kinds'
<1>1. /\ pc[Main] \in {"prepare", "read", "write"} /\ Main \in Threads
      /\ Main \notin Workers /\ Main \notin Closers
      /\ UNCHANGED <<list, events, left>>
  BY ThreadsAssumption, Zenon DEF Prepare, PrepareArm, PrepareRefused, PrepareRead, PrepareWrite, Threads
<1>2. ses[Main] \in Sessions
  BY <1>1 DEF Kinds
<1>3. \A r \in Sessions : r # NoSession
  BY DEF Sessions, NoSession
<1> DEFINE Effect ==
             /\ pc' \in [Threads -> Labels] /\ ses' \in [Threads -> Sessions \cup {NoSession}]
             /\ Others(Main)
             /\ pc'[Main] \in {"idle", "prepare", "read", "write"}
             /\ pc'[Main] = "idle" <=> ses'[Main] = NoSession
<1>4. ASSUME PrepareNext PROVE Effect
  <2>1. /\ Others(Main)
        /\ \/ pc'[Main] = "prepare" /\ ses'[Main] = ses[Main] + 1 /\ ses'[Main] \in Sessions
           \/ pc'[Main] = "idle" /\ ses'[Main] = NoSession
    BY <1>1, <1>4, NextEffect, Zenon
  <2>2. pc' \in [Threads -> Labels] /\ DOMAIN ses' = Threads /\ \A u \in Threads : ses'[u] \in Sessions \cup {NoSession}
    <3>1. pc' \in [Threads -> Labels] /\ DOMAIN ses' = Threads
      BY <1>4, Zenon DEF PrepareNext, Goto, Return, TypeOK, Labels
    <3>2. \A u \in Threads \ {Main} : ses'[u] = ses[u] /\ ses[u] \in Sessions \cup {NoSession}
      BY <2>1 DEF Others, TypeOK
    <3> QED
      BY <2>1, <3>1, <3>2, Zenon
  <2>3. ses' \in [Threads -> Sessions \cup {NoSession}]
    <3>1. CASE ses[Main] < N - 1
      <4>1. ses' = [ses EXCEPT ![Main] = ses[Main] + 1] /\ ses[Main] + 1 \in Sessions
        BY <1>2, <1>4, <3>1 DEF PrepareNext, Sessions
      <4> QED
        BY <4>1, Zenon DEF TypeOK
    <3>2. CASE ~ (ses[Main] < N - 1)
      BY <1>4, <3>2, Zenon DEF PrepareNext, Return, TypeOK
    <3> QED
      BY <3>1, <3>2
  <2> QED
    BY <1>3, <2>1, <2>2, <2>3
<1>5. ASSUME NEW l \in {"read", "write"}, Goto(Main, l), ses' = ses PROVE Effect
  <2>1. l \in Labels
    BY DEF Labels
  <2> QED
    BY <1>1, <1>2, <1>3, <1>5, <2>1, KeepTyped, Zenon DEF Goto
<1>6. Effect
  BY <1>4, <1>5, Zenon DEF Prepare, PrepareArm, PrepareRefused, PrepareRead, PrepareWrite
<1>7. Kinds'
  BY <1>1, <1>6, Moved, Zenon DEF Labels, TypeOK
<1>8. queue' \in [Comms -> Seq(Message)]
  <2>1. CASE PrepareRefused
    <3>1. PICK s \in Sessions : s = ses[Main]
      BY <1>2
    <3>2. Put(Home[s], Done(s, TRUE)) /\ Home[s] \in Comms /\ Done(s, TRUE) \in Message
      BY <2>1, <3>1, CommsAssumption, Zenon DEF PrepareRefused, Done, Message
    <3> QED
      BY <3>2, PutCells, Zenon
  <2>2. CASE ~ PrepareRefused
    BY <2>2, Zenon DEF Prepare, PrepareArm, PrepareRead, PrepareWrite, TypeOK, Message
  <2> QED
    BY <2>1, <2>2
<1>9. tmp' \in [Threads -> BOOLEAN]
  <2>1. CASE PrepareRead
    <3>1. PICK b \in BOOLEAN : b = S[ses[Main]].connected
      BY <1>2, Zenon DEF TypeOK
    <3>2. tmp' = [tmp EXCEPT ![Main] = b]
      BY <2>1, <3>1 DEF PrepareRead
    <3> QED
      BY <3>2, Zenon DEF TypeOK
  <2>2. CASE ~ PrepareRead
    BY <2>2, Zenon DEF Prepare, PrepareArm, PrepareRefused, PrepareWrite, TypeOK
  <2> QED
    BY <2>1, <2>2
<1>10. useCnt' \in Int
  <2>1. useCnt \in Int
    BY DEF TypeOK
  <2>2. useCnt' = useCnt \/ useCnt' = useCnt + 1
    BY Zenon DEF Prepare, PrepareArm, PrepareRefused, PrepareRead, PrepareWrite
  <2> QED
    BY <2>1, <2>2
<1> QED
  BY <1>1, <1>6, <1>7, <1>8, <1>9, <1>10, Zenon DEF TypeOK, Labels, Message, Socket

\* The operating system keeps types and kinds.
LEMMA SystemTyped ==
  ASSUME TypeOK, Kinds, S' \in [Sessions -> Socket], NEW s \in Sessions, System(s)
  PROVE  TypeOK' /\ Kinds'
<1>1. UNCHANGED <<useCnt, list, events, pc, ses, tmp, left>>
  BY Zenon DEF System, Connect, Arrive, Broken
<1>2. PICK ok \in BOOLEAN : Put(Home[s], Done(s, ok))
  BY Zenon DEF System, Connect, Arrive, Broken
<1>3. Home[s] \in Comms /\ Done(s, ok) \in Message
  BY CommsAssumption DEF Done, Message
<1>4. queue' \in [Comms -> Seq(Message)]
  BY <1>2, <1>3, PutCells, Zenon
<1> QED
  BY <1>1, <1>4, Zenon DEF TypeOK, Kinds, Message, Socket

----------------------------------------------------------------------------
(* The lists, and all the steps.                                           *)

\* Only add and del change a list.
LEMMA ListsStep ==
  ASSUME Inv, Room, [Next]_vars
  PROVE  Lists'
<1> USE DEF Inv
<1>1. ASSUME list' = list PROVE Lists'
  BY <1>1 DEF Lists
<1>2. ASSUME NEW w \in Workers, AddSession(w) PROVE Lists'
  BY <1>2, AddOwned, Zenon
<1>3. ASSUME NEW w \in Workers, CloseDel(w) PROVE Lists'
  <2>1. PICK s \in Sessions : s = ses[w]
    BY <1>3 DEF CloseDel, Kinds, Threads
  <2>2. Serves[w] \in Comms /\ list \in [Comms -> List]
    BY CommsAssumption, ListTyped, Zenon
  <2>3. /\ Deleted(list[Serves[w]], s).arr = list[Serves[w]].arr
        /\ Deleted(list[Serves[w]], s).filled \subseteq list[Serves[w]].filled
    BY <2>2, DeletedList, Zenon DEF Lists
  <2>4. \A d \in Comms : list'[d].arr = list[d].arr /\ list'[d].filled \subseteq list[d].filled
    BY <1>3, <2>1, <2>2, <2>3, Zenon DEF CloseDel
  <2> QED
    BY <2>4 DEF Lists
<1>4. ASSUME NEW w \in Workers, Work(w), ~ AddSession(w), ~ CloseDel(w) PROVE list' = list
  BY <1>4, Zenon DEF Work, AcceptFailed, doAccept, comproc_recvComplete, comproc_close, bindRecv,
              RecvRefused, CloseSock, delSocket, bindAccept,
              Stop, ShutdownTest, Shutdown, putRTSQueue, PostFailed
<1>5. ASSUME NEW k \in Closers, CloseWrite(k) \/ Stop(k) \/ \E s \in Sessions : Close(k, s)
      PROVE  list' = list
  BY <1>5 DEF CloseWrite, Close, Stop, ShutdownTest, Shutdown, putRTSQueue, PostFailed
<1>6. CASE Prepare \/ (\E s \in Sessions : System(s)) \/ UNCHANGED vars
  BY <1>1, <1>6, Zenon DEF Prepare, PrepareArm, PrepareRefused, PrepareRead, PrepareWrite,
                    System, Connect, Arrive, Broken, vars
<1> QED
  BY <1>1, <1>2, <1>3, <1>4, <1>5, <1>6, Zenon DEF Next

\* The pool as the server starts.
LEMMA InitOwned ==
  ASSUME Init
  PROVE  /\ TypeOK /\ Kinds /\ Owned /\ Lists
         /\ CloseEvents = {} /\ At(Closing) = {} /\ events.out - events.lost = 0
<1>1. /\ Armed \in Socket /\ Unused \in Socket
      /\ Unused.io = "none" /\ Unused.op = "none" /\ Armed.io = "accept"
  BY ArmedRec, Zenon
<1>2. /\ S \in [Sessions -> Socket]
      /\ \A s \in Sessions : S[s] = IF Prepared THEN Armed ELSE Unused
  BY <1>1 DEF Init
<1>3. \A c \in Comms : \E first \in -1 .. N : list[c] = EmptyList(first)
  <2> DEFINE L == {EmptyList(first) : first \in FirstIdx}
  <2>1. list \in [Comms -> L]
    BY DEF Init
  <2>2. \A l \in L : \E first \in -1 .. N : l = EmptyList(first)
    BY FirstIdxAssumption, Zenon
  <2> HIDE DEF L
  <2> QED
    BY <2>1, <2>2
<1>4. ASSUME NEW first \in -1 .. N PROVE EmptyList(first) \in List
  <2>1. [c \in Cells |-> NoSession] \in [Cells -> Sessions \cup {NoSession}]
    OBVIOUS
  <2> QED
    BY <2>1 DEF EmptyList, List
<1>5. list \in [Comms -> List]
  <2> DEFINE L == {EmptyList(first) : first \in FirstIdx}
  <2>1. list \in [Comms -> L]
    BY DEF Init
  <2>2. \A l \in L : l \in List
    BY <1>4, FirstIdxAssumption
  <2> HIDE DEF L
  <2> QED
    BY <2>1, <2>2
<1>6. ASSUME NEW first
      PROVE  EmptyList(first).arr = [x \in Cells |-> NoSession] /\ EmptyList(first).filled = {}
  BY DEF EmptyList
<1>7. /\ \A c \in Comms : \A k \in Cells : list[c].arr[k] = NoSession
      /\ \A c \in Comms : list[c].filled = {}
  BY <1>3, <1>6, Zenon
<1>8. \A c \in Comms : queue[c] = <<>> /\ DOMAIN queue[c] = {}
  BY DEF Init
<1>9. Main \in Threads /\ 0 \in Sessions /\ NoSession \notin Sessions
  BY DEF Threads, Sessions, NoSession
<1>10. /\ pc \in [Threads -> Labels] /\ ses \in [Threads -> Sessions \cup {NoSession}]
       /\ \A t \in Threads : \/ t = Main /\ ~ Prepared /\ pc[t] = "prepare" /\ ses[t] = 0
                             \/ ~ (t = Main /\ ~ Prepared) /\ pc[t] = "idle" /\ ses[t] = NoSession
  BY <1>9 DEF Init, Labels
<1>11. TypeOK
  <2>1. queue \in [Comms -> Seq(Message)]
    BY DEF Init
  <2>2. useCnt \in Int /\ events \in [out : Nat, lost : Nat]
    BY DEF Init
  <2>3. tmp \in [Threads -> BOOLEAN] /\ left \in [Threads -> 0 .. 2]
    BY DEF Init
  <2> QED
    BY <1>2, <1>5, <1>10, <2>1, <2>2, <2>3, Zenon DEF TypeOK, Socket, List, Message, Labels
<1>12. Kinds
  <2>1. \A k \in Workers \cup Closers : k \in Threads /\ k # Main
    BY ThreadsAssumption, Zenon DEF Threads
  <2> QED
    BY <1>9, <1>10, <2>1 DEF Kinds
<1>13. \A s \in Sessions : ~ About(s) /\ ~ InPort(s) /\ ~ InArr(s)
  BY <1>7, <1>8, <1>9 DEF About, InPort, InArr
<1>14. Owned
  <2>1. Untouched
    BY <1>2, <1>9, <1>10, <1>13, Zenon DEF Untouched, Pending
  <2>2. OneHolder
    BY <1>10, <1>13, Zenon DEF OneHolder, Handles
  <2>3. OneCell
    BY <1>8, Zenon DEF OneCell
  <2>4. NotOpen
    BY <1>10, Zenon DEF NotOpen
  <2>5. OnceListed
    BY <1>10, <1>13, Zenon DEF OnceListed, Begins
  <2> QED
    BY <2>1, <2>2, <2>3, <2>4, <2>5, Zenon DEF Owned
<1>15. Lists
  BY <1>7, Zenon DEF Lists
<1>16. CloseEvents = {} /\ At(Closing) = {}
  BY <1>8, <1>10 DEF CloseEvents, Queued, At, Closing
<1>17. events.out - events.lost = 0
  BY DEF Init
<1> QED
  BY <1>11, <1>12, <1>14, <1>15, <1>16, <1>17

\* Every step keeps the invariant.
LEMMA StepOwned ==
  ASSUME Inv, Room, [Next]_vars
  PROVE  TypeOK' /\ Kinds' /\ Owned' /\ Lists'
<1>1. Lists'
  BY ListsStep, Zenon
<1>2. TypeOK /\ Kinds /\ Owned /\ Lists
  BY DEF Inv
<1>3. ASSUME Prepare PROVE Owned' /\ TypeOK' /\ Kinds'
  BY <1>2, <1>3, PrepareOwned, PrepareTyped, Zenon
<1>4. ASSUME NEW s \in Sessions, System(s) PROVE Owned' /\ TypeOK' /\ Kinds'
  BY <1>2, <1>4, SystemOwned, SystemTyped, Zenon
<1>5. ASSUME NEW w \in Workers, Work(w) PROVE Owned' /\ TypeOK' /\ Kinds'
  BY <1>2, <1>5, WorkOwned, WorkTyped, Zenon
<1>6. ASSUME NEW k \in Closers, Stop(k) PROVE Owned' /\ TypeOK' /\ Kinds'
  <2>1. k \in Threads \ {Main}
    BY ThreadsAssumption DEF Threads
  <2> QED
    BY <1>2, <1>6, <2>1, StopOwned, StopTyped, Zenon
<1>7. ASSUME NEW k \in Closers, CloseWrite(k) \/ \E s \in Sessions : Close(k, s)
      PROVE  Owned' /\ TypeOK' /\ Kinds'
  BY <1>2, <1>7, CloserOwned, CloserTyped, Zenon
<1>8. ASSUME UNCHANGED vars PROVE Owned' /\ TypeOK' /\ Kinds'
  <2>1. TypeOK' /\ Kinds'
    BY <1>2, <1>8, Zenon DEF vars, TypeOK, Kinds
  <2>2. Untouched' /\ OneHolder' /\ OneCell' /\ NotOpen' /\ OnceListed'
    <3>1. Untouched /\ OneHolder /\ OneCell /\ NotOpen /\ OnceListed
      BY <1>2 DEF Owned
    <3>2. Untouched'
      BY <1>8, <3>1, Zenon DEF vars, Untouched, Pending, About, InArr
    <3>3. OneHolder'
      <4>1. \A s \in Sessions : /\ S'[s] = S[s]
                                /\ InPort(s)' <=> InPort(s)
                                /\ \A t \in Threads : Handles(t, s)' <=> Handles(t, s)
        BY <1>8, Zenon DEF vars, InPort, IsIO, Handles
      <4> QED
        BY <3>1, <4>1, Zenon DEF OneHolder
    <3>4. OneCell'
      BY <1>8, <3>1, SameCells, Zenon DEF vars
    <3>5. NotOpen' /\ OnceListed'
      BY <1>8, <3>1, Zenon DEF vars, NotOpen, OnceListed, InArr, Begins, Waiting
    <3> QED
      BY <3>2, <3>3, <3>4, <3>5
  <2> QED
    BY <2>1, <2>2 DEF Owned
<1>9. Owned' /\ TypeOK' /\ Kinds'
  BY <1>3, <1>4, <1>5, <1>6, <1>7, <1>8, Zenon DEF Next
<1> QED
  BY <1>1, <1>9, Zenon
=============================================================================
