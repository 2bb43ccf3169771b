------------------------------ MODULE Framing ------------------------------
(***************************************************************************)
(* The packets of comSocket.cpp: recvProc_length cuts the bytes a session  *)
(* receives into packets of a length and a body, keeps an unfinished one   *)
(* at the front of the receive buffer, and posts the next receive behind   *)
(* it (NWSocket.cpp).  A byte in the buffer is its place in the stream the *)
(* client sends, or 0 where the code has cleared it.                       *)
(***************************************************************************)
EXTENDS Integers, Sequences, FiniteSets

CONSTANTS Header,    \* PACKET_HEADER_SIZE
          RecvBuf,   \* g_nRecvBufSize
          Bodies,    \* the bodies a client sends
          MaxPackets \* packets a client sends

VARIABLES
  stream,    \* the bytes the client sends
  arrived,   \* how many of them have arrived
  rbuf,      \* pData of the receive SOCKETDATA
  addLen,    \* m_nAddLen
  want,      \* the size of the receive in flight, 0: the session was shut down
  handed     \* the calls of fpProcess: the places of their bytes

framingVars == <<stream, arrived, rbuf, addLen, want, handed>>

\* MakePacketHeader: the length in Header bytes, low byte first, then the body.
Packet(body) ==
  [i \in 1 .. Header + Len(body) |->
     IF i = 1 THEN Len(body) ELSE IF i <= Header THEN 0 ELSE body[i - Header]]

Streams ==
  LET packets[n \in 0 .. MaxPackets] ==
        IF n = 0 THEN {<<>>}
        ELSE {Packet(b) \o s : b \in Bodies, s \in packets[n - 1]}
  IN UNION {packets[n] : n \in 1 .. MaxPackets}

Zeroes(n) == [i \in 1 .. n |-> 0]

Init ==
  /\ stream \in Streams
  /\ arrived = 0
  /\ rbuf = Zeroes(RecvBuf)
  /\ addLen = 0
  /\ want = RecvBuf
  /\ handed = <<>>

\* nDataSize of a header at an offset of the buffer; bytes past its end are
\* whatever memory holds, which is taken as 0.
DataSize(buf, at) ==
  IF at < Len(buf) /\ buf[at + 1] # 0 THEN stream[buf[at + 1]] ELSE 0

\* The loop over complete packets.  The first header is read from the
\* SOCKETDATA itself, whose first word is the status of the overlapped
\* operation: 0 when it succeeded.
Parse(buf, cur) ==
  LET step[done \in 0 .. cur, size \in Nat] ==
        IF cur < done + Header + size
        THEN [done |-> done, out |-> <<>>]
        ELSE LET next == done + Header + size
                 rest == step[next, DataSize(buf, next)]
             IN [rest EXCEPT !.out = <<SubSeq(buf, done + Header + 1, next)>> \o @]
  IN step[0, 0]

\* SETREMAINDATA that keeps the bytes from the front of the buffer.
RemainFront(buf, done, n) == SubSeq(buf, 1, n) \o Zeroes(Len(buf) - n)

\* SETREMAINDATA: the unfinished bytes move to the front, the rest is cleared.
Remain(buf, done, n) == SubSeq(buf, done + 1, done + n) \o Zeroes(Len(buf) - n)

\* comproc_recvComplete and recvProc_length on n bytes.  nCurLen is set to the
\* bytes of this receive; the poster's nCurLen += m_nAddLen may come later.
recvProc_length(n) ==
  LET buf == SubSeq(rbuf, 1, addLen) \o [i \in 1 .. n |-> arrived + i]
               \o SubSeq(rbuf, addLen + n + 1, Len(rbuf))
  IN /\ n \in 1 .. want /\ arrived + n <= Len(stream)
     /\ arrived' = arrived + n
     /\ \E cur \in {n, n + addLen} :
          LET p == Parse(buf, cur)
              remain == cur - p.done
          IN /\ handed' = handed \o p.out
             /\ addLen' = remain
             /\ rbuf' = IF remain = 0 THEN Zeroes(Len(buf)) ELSE Remain(buf, p.done, remain)
             /\ want' = Len(buf) - remain
     /\ UNCHANGED stream

Next == \E n \in 1 .. RecvBuf : recvProc_length(n)

----------------------------------------------------------------------------
\* The bytes of the stream the application has been given.
Given ==
  LET cat[k \in 0 .. Len(handed)] == IF k = 0 THEN <<>> ELSE cat[k - 1] \o handed[k]
  IN cat[Len(handed)]

\* The application is given bytes that have arrived, in the order of the
\* stream, and no byte twice, however the stream is cut by the receives.
HandedInOrder ==
  /\ \A i \in DOMAIN Given : Given[i] <= arrived
  /\ \A i, j \in DOMAIN Given :
       i < j /\ Given[i] # 0 /\ Given[j] # 0 => Given[i] < Given[j]
============================================================================
