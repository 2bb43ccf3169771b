---------------------------- MODULE RedisClient ----------------------------
(***************************************************************************)
(* The Redis client of network/redis: CRedisList, the argument list of a   *)
(* command (NWSessionManager), and CNWSocket, the connection it is sent on *)
(* (NWSocket).  A list belongs to one thread at a time; an argument is     *)
(* its length.  m_nContentsIdx adds the lengths up until getRedisContents  *)
(* stores the index of the buffer pool in it.                              *)
(***************************************************************************)
EXTENDS Integers, Sequences, FiniteSets

CONSTANTS Lens,      \* lengths of arguments
          FirstArgs, \* cells of a list at first
          MaxArgs,   \* arguments of a command
          Room,      \* the 128 bytes getRedisContents adds
          Class(_),  \* getIndex: the pool of a size
          Hosts,     \* addresses
          NoHost,
          MaxSum,    \* bound of the lengths added up
          Uses       \* "push": push_back after getRedisContents, "again":
                     \* getRedisContents twice, "add": add before it

VARIABLES
  argv,      \* m_pArgv, 0 is NULL
  use, last, \* m_nUse, m_nLast
  idx,       \* m_nContentsIdx
  full,      \* m_pRedisFullContents: [size, text, class], size 0 for NULL
  pushed,    \* the arguments pushed since the last clear
  link,      \* the connection: [ctx, connected, error, addr]
  reports    \* comPutError calls since the last success

NoText == [size |-> 0, text |-> 0, class |-> 0]
NoLink == [ctx |-> FALSE, connected |-> FALSE, error |-> FALSE, addr |-> NoHost]
Nulls(n) == [i \in 1 .. n |-> 0]

Init ==
  /\ argv = Nulls(FirstArgs)
  /\ use = 0 /\ last = 0 /\ idx = 0
  /\ full = NoText
  /\ pushed = <<>>
  /\ link = NoLink
  /\ reports = 0

\* __alloc: a list of twice the size with the old cells at its front.
Grown == argv \o Nulls(Len(argv))

\* push_back and add store in the cell m_nLast, in the next empty one after it
\* (from 0 again at the end), or in the first one of a list that has grown.
Cell ==
  LET empty == {c \in 1 .. Len(argv) : argv[c] = 0}
      dist(c) == (c - 1 - last) % Len(argv)
  IN IF use >= Len(argv) THEN Len(argv) + 1
     ELSE CHOOSE c \in empty : \A d \in empty : dist(c) <= dist(d)

\* push_back and new_push_back; add leaves the sum of the lengths alone.
push_back(n, sums) ==
  /\ Len(pushed) < MaxArgs
  /\ full # NoText /\ sums => "push" \in Uses
  /\ sums => idx + n <= MaxSum
  /\ argv' = [(IF use >= Len(argv) THEN Grown ELSE argv) EXCEPT ![Cell] = n]
  /\ use' = use + 1 /\ last' = last + 1
  /\ idx' = IF sums THEN idx + n ELSE idx
  /\ pushed' = Append(pushed, n)
  /\ UNCHANGED <<full, link, reports>>

Total(s) ==
  LET sum[k \in 0 .. Len(s)] == IF k = 0 THEN 0 ELSE sum[k - 1] + s[k] IN sum[Len(s)]

\* getRedisContents that does not count the separators.
ContentsTight ==
  /\ full # NoText => "again" \in Uses
  /\ full = NoText /\ idx < Total(pushed) => "add" \in Uses
  /\ LET size == (IF full = NoText THEN idx ELSE 0) + Room
     IN /\ full' = [size |-> size, text |-> Total(pushed) + use, class |-> Class(size)]
        /\ idx' = Class(size)
  /\ UNCHANGED <<argv, use, last, pushed, link, reports>>

\* getRedisContents that notes the size of the buffer for its index.
ContentsBySize ==
  /\ full # NoText => "again" \in Uses
  /\ full = NoText /\ idx < Total(pushed) => "add" \in Uses
  /\ LET size == (IF full = NoText THEN idx ELSE 0) + use + Room
     IN /\ full' = [size |-> size, text |-> Total(pushed) + use, class |-> Class(size)]
        /\ idx' = size
  /\ UNCHANGED <<argv, use, last, pushed, link, reports>>

\* getRedisContents: a contents of an earlier call is freed and its lengths
\* forgotten; the text is every argument and a blank.
getRedisContents ==
  /\ full # NoText => "again" \in Uses
  /\ full = NoText /\ idx < Total(pushed) => "add" \in Uses
  /\ LET size == (IF full = NoText THEN idx ELSE 0) + use + Room
     IN /\ full' = [size |-> size, text |-> Total(pushed) + use, class |-> Class(size)]
        /\ idx' = Class(size)
  /\ UNCHANGED <<argv, use, last, pushed, link, reports>>

\* clear that keeps m_nLast.
ClearKeepsLast ==
  /\ argv' = IF use > 0 THEN Nulls(Len(argv)) ELSE argv
  /\ use' = 0
  /\ full' = NoText
  /\ idx' = IF full # NoText THEN 0 ELSE idx
  /\ pushed' = <<>>
  /\ UNCHANGED <<last, link, reports>>

\* returnRedisList: clear.  The lengths are forgotten with the contents only.
clear ==
  /\ argv' = IF use > 0 THEN Nulls(Len(argv)) ELSE argv
  /\ use' = 0 /\ last' = IF use > 0 THEN 0 ELSE last
  /\ full' = NoText
  /\ idx' = IF full # NoText THEN 0 ELSE idx
  /\ pushed' = <<>>
  /\ UNCHANGED <<link, reports>>

listVars == <<argv, use, last, idx, full, pushed>>

\* closeSocket
Dropped(l) == IF l.ctx THEN [NoLink EXCEPT !.error = l.error] ELSE l

\* ConnectTo and ConnectToTimeout: a session connected to the address is kept.
Connect(a) ==
  /\ ~ (link.connected /\ link.addr = a)
  /\ link' = [ctx |-> TRUE, connected |-> TRUE, error |-> FALSE, addr |-> a]
  /\ reports' = 0
  /\ UNCHANGED listVars

\* A connection failure that is reported whenever it happens.
ConnectFailedLoud(a) ==
  /\ ~ (link.connected /\ link.addr = a)
  /\ link' = [Dropped(link) EXCEPT !.error = TRUE]
  /\ reports' = reports + 1
  /\ UNCHANGED listVars

ConnectFailed(a) ==
  /\ ~ (link.connected /\ link.addr = a)
  /\ link' = [Dropped(link) EXCEPT !.error = TRUE]
  /\ reports' = IF link.error THEN reports ELSE reports + 1
  /\ UNCHANGED listVars

\* Send and getString: an error reply or a lost connection closes the socket.
SendFailed ==
  /\ link.ctx
  /\ link' = Dropped(link)
  /\ UNCHANGED <<listVars, reports>>

Next ==
  \/ \E n \in Lens, sums \in BOOLEAN : push_back(n, sums)
  \/ getRedisContents \/ clear
  \/ \E a \in Hosts : Connect(a) \/ ConnectFailed(a)
  \/ SendFailed

----------------------------------------------------------------------------
\* redisCommandArgv is given the arguments in the order they were pushed,
\* whatever the list held before it was cleared and however often it grew.
ArgvInOrder == use = Len(pushed) /\ SubSeq(argv, 1, use) = pushed

\* The text of the command fits the buffer it is printed to, with its end.
ContentsFit == full # NoText => full.text < full.size

\* The buffer of the text goes back to the pool it came from: what clear passes
\* to delBufByIndex is the index newBuf gave.
ContentsGoHome == full # NoText => idx = full.class

\* A lost server is reported once until it is reached again.
ReportedOnce == reports <= 1
============================================================================
