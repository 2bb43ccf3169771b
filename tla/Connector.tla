----------------------------- MODULE Connector -----------------------------
(***************************************************************************)
(* A session that connects to another server (network/iocp): the           *)
(* application calls ConnectToServer whenever it finds the session not     *)
(* connected; a worker handles receives and closes on the same session.    *)
(* All receives of the session share one SOCKETDATA, whichever socket they *)
(* were posted on.                                                         *)
(***************************************************************************)
EXTENDS Integers, Sequences, FiniteSets

CONSTANTS Socks,      \* handles the operating system gives out
          Servers,    \* addresses
          NoSock,     \* INVALID_SOCKET
          MaxQueue,   \* completions in the port
          MaxDrops    \* connections the servers drop

VARIABLES
  conn,    \* the CNWSocket: [connected, sock, addr, op]
  sock,    \* state of each handle: "none", "new", "up", "shut"
  recvs,   \* receives in flight on each handle
  port,    \* the completion port
  app,     \* the application's thread: [at, addr]
  wrk,     \* the worker: "idle" or "failed", between two statements
  drops    \* connections dropped so far

Init ==
  /\ conn = [connected |-> FALSE, sock |-> NoSock, addr |-> NoSock, op |-> "none"]
  /\ sock = [h \in Socks |-> "none"]
  /\ recvs = [h \in Socks |-> 0]
  /\ port = <<>>
  /\ app = [at |-> "idle", addr |-> NoSock]
  /\ wrk = "idle"
  /\ drops = 0

Done(ok) == [op |-> "recv", ok |-> ok]
CloseEvent == [op |-> "close", ok |-> TRUE]

\* closeSocket, on session c and handles s.
Closed(c) == [c EXCEPT !.sock = NoSock, !.connected = FALSE,
                       !.addr = IF c.sock = NoSock THEN @ ELSE NoSock]
\* A closeSocket that only shuts the socket down.
FreedShut(c, s) == IF c.sock = NoSock THEN s ELSE [s EXCEPT ![c.sock] = "shut"]

Freed(c, s) == IF c.sock = NoSock THEN s ELSE [s EXCEPT ![c.sock] = "none"]

\* socketShutdown, on session c, handles s and port q.
ShutConn(c) == [c EXCEPT !.connected = FALSE]
ShutSock(c, s) ==
  IF c.connected /\ c.sock # NoSock THEN [s EXCEPT ![c.sock] = "shut"] ELSE s
ShutPort(c, q) == IF c.connected THEN Append(q, CloseEvent) ELSE q

----------------------------------------------------------------------------
(* ConnectTo.                                                              *)

\* createSocket: a handle with no trace of an earlier use.
Fresh == {h \in Socks : sock[h] = "none" /\ recvs[h] = 0}

\* Up to connect(), which a socket that was connected before refuses.
ConnectTo(a) ==
  LET gone == conn.connected
      c == IF gone THEN Closed(conn) ELSE conn
      s == IF gone THEN Freed(conn, sock) ELSE sock
  IN /\ app.at = "idle"
     /\ ~ (conn.connected /\ conn.addr = a)
     /\ \/ /\ c.sock = NoSock
           /\ \E h \in Fresh : /\ conn' = [c EXCEPT !.sock = h]
                               /\ sock' = [s EXCEPT ![h] = "new"]
           /\ app' = [app EXCEPT !.at = "select", !.addr = a]
        \/ /\ c.sock # NoSock /\ sock[c.sock] = "new"
           /\ conn' = c /\ sock' = s
           /\ app' = [app EXCEPT !.at = "select", !.addr = a]
        \/ /\ c.sock # NoSock /\ sock[c.sock] # "new"
           /\ conn' = Closed(c) /\ sock' = Freed(c, s)
           /\ UNCHANGED app
     /\ UNCHANGED <<recvs, port, wrk, drops>>

\* select says that the socket is writable: the session is connected, and
\* registerSocket succeeds.
Select ==
  /\ app.at = "select"
  /\ conn.sock # NoSock /\ sock[conn.sock] = "new"
  /\ conn' = [conn EXCEPT !.connected = TRUE, !.addr = app.addr]
  /\ sock' = [sock EXCEPT ![conn.sock] = "up"]
  /\ app' = [app EXCEPT !.at = "bind"]
  /\ UNCHANGED <<recvs, port, wrk, drops>>

\* A time-out, a refusal, or a socket the worker has closed meanwhile.
SelectFailed ==
  /\ app.at = "select"
  /\ conn' = Closed(conn) /\ sock' = Freed(conn, sock)
  /\ app' = [app EXCEPT !.at = "idle"]
  /\ UNCHANGED <<recvs, port, wrk, drops>>

\* bindRecv and RecvPacket, for the application and for the worker.
Posted(h) == [recvs EXCEPT ![h] = @ + 1]

\* ConnectTo that returns without a receive.
BindUnposted ==
  /\ app.at = "bind"
  /\ conn.sock # NoSock /\ sock[conn.sock] = "up"
  /\ conn' = [conn EXCEPT !.op = "recv"]
  /\ app' = [app EXCEPT !.at = "idle"]
  /\ UNCHANGED <<recvs, sock, port, wrk, drops>>

Bind ==
  /\ app.at = "bind"
  /\ conn.sock # NoSock /\ sock[conn.sock] = "up"
  /\ recvs' = Posted(conn.sock)
  /\ conn' = [conn EXCEPT !.op = "recv"]
  /\ app' = [app EXCEPT !.at = "idle"]
  /\ UNCHANGED <<sock, port, wrk, drops>>

\* WSARecv fails: shut down, then closed.
BindFailed ==
  /\ app.at = "bind"
  /\ Len(port) < MaxQueue
  /\ port' = ShutPort(conn, port)
  /\ conn' = Closed([conn EXCEPT !.op = "recv"])
  /\ sock' = Freed(conn, sock)
  /\ app' = [app EXCEPT !.at = "idle"]
  /\ UNCHANGED <<recvs, wrk, drops>>

----------------------------------------------------------------------------
(* The operating system.                                                   *)

\* Data arrives on a socket.
Data(h) ==
  /\ sock[h] = "up" /\ recvs[h] > 0 /\ Len(port) < MaxQueue
  /\ recvs' = [recvs EXCEPT ![h] = @ - 1]
  /\ port' = Append(port, Done(TRUE))
  /\ UNCHANGED <<conn, sock, app, wrk, drops>>

\* The server drops the connection.
Drop(h) ==
  /\ sock[h] = "up" /\ drops < MaxDrops
  /\ sock' = [sock EXCEPT ![h] = "shut"]
  /\ drops' = drops + 1
  /\ UNCHANGED <<conn, recvs, port, app, wrk>>

\* A receive on a socket that was shut down or closed ends.
Abort(h) ==
  /\ sock[h] # "up" /\ recvs[h] > 0 /\ Len(port) < MaxQueue
  /\ recvs' = [recvs EXCEPT ![h] = @ - 1]
  /\ port' = Append(port, Done(FALSE))
  /\ UNCHANGED <<conn, sock, app, wrk, drops>>

----------------------------------------------------------------------------
(* The worker.                                                             *)

Takes(m) ==
  /\ wrk = "idle" /\ port # <<>> /\ Head(port) = m

\* comproc_recvComplete on data: the application's function posts the next
\* receive on whatever socket the session has now.
RecvData ==
  /\ Takes(Done(TRUE)) /\ conn.op = "recv"
  /\ \/ /\ conn.sock # NoSock /\ sock[conn.sock] = "up"
        /\ recvs' = Posted(conn.sock)
        /\ port' = Tail(port)
        /\ UNCHANGED <<conn, sock>>
     \/ /\ conn.sock # NoSock => sock[conn.sock] # "up"
        /\ port' = ShutPort(conn, Tail(port))
        /\ sock' = ShutSock(conn, sock)
        /\ conn' = ShutConn(conn)
        /\ UNCHANGED recvs
  /\ UNCHANGED <<app, wrk, drops>>

\* comproc_recvComplete on a failure: the opCode, then socketShutdown.
RecvFailed ==
  /\ Takes(Done(FALSE)) /\ conn.op = "recv"
  /\ conn' = [conn EXCEPT !.op = "error"]
  /\ port' = Tail(port)
  /\ wrk' = "failed"
  /\ UNCHANGED <<sock, recvs, app, drops>>

RecvShutdown ==
  /\ wrk = "failed"
  /\ port' = ShutPort(conn, port)
  /\ sock' = ShutSock(conn, sock)
  /\ conn' = ShutConn(conn)
  /\ wrk' = "idle"
  /\ UNCHANGED <<recvs, app, drops>>

\* processLoopLapper knows no OP_ERROR.
RecvIgnored ==
  /\ wrk = "idle" /\ port # <<>> /\ Head(port).op = "recv" /\ conn.op # "recv"
  /\ port' = Tail(port)
  /\ UNCHANGED <<conn, sock, recvs, app, wrk, drops>>

\* comproc_close: a session without SOCK_STATUS_ACCEPTED is closed and kept.
comproc_close ==
  /\ Takes(CloseEvent)
  /\ port' = Tail(port)
  /\ conn' = Closed(conn) /\ sock' = Freed(conn, sock)
  /\ UNCHANGED <<recvs, app, wrk, drops>>

App == (\E a \in Servers : ConnectTo(a)) \/ Select \/ SelectFailed \/ Bind \/ BindFailed

Worker == RecvData \/ RecvFailed \/ RecvShutdown \/ RecvIgnored \/ comproc_close

System(h) == Data(h) \/ Drop(h) \/ Abort(h)

Next == App \/ Worker \/ \E h \in Socks : System(h)

----------------------------------------------------------------------------
\* A session that says it is connected, with nothing left in the port and
\* nobody at work on it, has a receive on its socket that will be handled as a
\* receive: no order of late completions leaves a connection that is deaf.
NoDeafConnection ==
  conn.connected /\ port = <<>> /\ app.at = "idle" /\ wrk = "idle" =>
    /\ conn.sock # NoSock
    /\ recvs[conn.sock] > 0
    /\ conn.op = "recv"

\* Every handle in use is the session's: no reconnection loses a socket.
NoSocketLost == \A h \in Socks : sock[h] # "none" => conn.sock = h
============================================================================
