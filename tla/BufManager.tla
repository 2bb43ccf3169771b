----------------------------- MODULE BufManager -----------------------------
(***************************************************************************)
(* CMemManager (common/src/comMemManager.cpp) and the CBufPool of each     *)
(* size class: a buffer has no header, so whoever returns it names the     *)
(* class again, as an index or as a size.  The holders are a CmString, the *)
(* file and line buffers of CFileUtil, the receive buffer of a socket, a   *)
(* message that is being sent and a queued log line.  Text is its length;  *)
(* MemPool has the races of a pool, here taking a cell is one step.        *)
(***************************************************************************)
EXTENDS Integers, FiniteSets

CONSTANTS
    PoolCount,  \* the cells of the pool of each size class that has one
    RecvSize,   \* g_nRecvBufSize
    Slack,      \* the 1024 that getNextLine adds
    NoPtr,      \* the null pointer (a model value)
    Calls,      \* the kinds of calls that go wrong and are made all the same
    MaxHolders, \* bound: holders that share the manager in one behaviour
    MaxLen      \* bound: the longest text

Classes == DOMAIN PoolCount
Holders == {"string", "file", "line", "target", "recv", "send", "log"}

VARIABLES
    used,       \* m_nFlagArray of each class
    hold,       \* each holder: its pointer, the index or size it has noted, the length of its text
    bad,        \* what has gone wrong: overrun, null, wrongclass
    busy        \* the holders of this behaviour

bufVars == <<used, hold, bad, busy>>

HeapBuf(size) == [pool |-> -1, cell |-> size]

\* A class that is one byte short for sizes just over a power of two.
GetIndexLow(s) == CHOOSE m \in 0 .. s : 2^m + 1 >= s /\ \A k \in 0 .. m - 1 : 2^k + 1 < s

\* getIndex: the class of a size
GetIndex(s) == CHOOSE m \in 0 .. s : 2^m >= s /\ \A k \in 0 .. m - 1 : 2^k < s

Capacity(p) == IF p.pool = -1 THEN p.cell ELSE 2^p.pool

\* __newBuf and CBufPool::newMem: a cell of the class, or memory of the heap
NewBuf(u, i, size) ==
    LET free == IF i \in Classes THEN (1 .. PoolCount[i]) \ u[i] ELSE {}
        k    == CHOOSE c \in free : \A d \in free : c <= d
        heap == IF i \in Classes \/ size = 0 THEN 2^i ELSE size
    IN  IF free # {} THEN [used |-> [u EXCEPT ![i] = @ \cup {k}], ptr |-> [pool |-> i, cell |-> k]]
        ELSE [used |-> u, ptr |-> HeapBuf(heap)]

\* delBufByIndex and CBufPool::delMem: a pointer outside the class's pool goes to free()
DelBuf(u, p, i) ==
    IF p # NoPtr /\ i \in Classes /\ p.pool = i THEN [u EXCEPT ![i] = @ \ {p.cell}] ELSE u

WrongClass(p, i) == p # NoPtr /\ p.pool # -1 /\ p.pool # i

Faults(p, n) == IF p = NoPtr THEN {"null"} ELSE IF Capacity(p) < n THEN {"overrun"} ELSE {}

Held(p, tag, len) == [ptr |-> p, tag |-> tag, len |-> len]

Nothing == Held(NoPtr, 0, 0)

Init ==
    /\ used = [i \in Classes |-> {}]
    /\ hold = [h \in Holders |-> Nothing]
    /\ bad = {}
    /\ busy \in {s \in SUBSET Holders : Cardinality(s) = MaxHolders}

-----------------------------------------------------------------------------
\* What the calls are made of: n is the number of bytes written, terminator included

\* the text is written into the holder's buffer
Write(h, n, len) ==
    /\ h \in busy /\ UNCHANGED busy
    /\ hold' = [hold EXCEPT ![h].len = len]
    /\ bad' = bad \cup Faults(hold[h].ptr, n)
    /\ UNCHANGED used

\* a new buffer for the holder, nothing returned
Take(h, i, size, tag, n, len) ==
    LET new == NewBuf(used, i, size)
    IN  /\ h \in busy /\ UNCHANGED busy
        /\ used' = new.used
        /\ hold' = [hold EXCEPT ![h] = Held(new.ptr, tag, len)]
        /\ bad' = bad \cup Faults(new.ptr, n)

\* the old buffer is returned as one of class home, then a new one is taken
Renew(h, home, i, size, tag, n, len) ==
    LET new == NewBuf(DelBuf(used, hold[h].ptr, home), i, size)
    IN  /\ h \in busy /\ UNCHANGED busy
        /\ used' = new.used
        /\ hold' = [hold EXCEPT ![h] = Held(new.ptr, tag, len)]
        /\ bad' = bad \cup Faults(new.ptr, n) \cup IF WrongClass(hold[h].ptr, home) THEN {"wrongclass"} ELSE {}

\* a new buffer is taken and filled from the old one, which is then returned
Move(h, home, i, size, tag, n, len) ==
    LET new == NewBuf(used, i, size)
    IN  /\ h \in busy /\ UNCHANGED busy
        /\ used' = DelBuf(new.used, hold[h].ptr, home)
        /\ hold' = [hold EXCEPT ![h] = Held(new.ptr, tag, len)]
        /\ bad' = bad \cup Faults(new.ptr, n) \cup IF WrongClass(hold[h].ptr, home) THEN {"wrongclass"} ELSE {}

\* the buffer is returned
Release(h, home) ==
    /\ h \in busy /\ UNCHANGED busy
    /\ hold[h].ptr # NoPtr
    /\ used' = DelBuf(used, hold[h].ptr, home)
    /\ hold' = [hold EXCEPT ![h] = Nothing]
    /\ bad' = bad \cup IF WrongClass(hold[h].ptr, home) THEN {"wrongclass"} ELSE {}

-----------------------------------------------------------------------------
\* CmString; tag is m_nSftIdx

Str == hold["string"]

\* operator=; a string of class 0 drops its byte of heap memory
Assign(n) ==
    IF Str.tag = 0 THEN Take("string", GetIndex(n + 1), 0, GetIndex(n + 1), n + 1, n)
    ELSE IF 2^Str.tag > n + 1 THEN Write("string", n + 1, n)
    ELSE Renew("string", Str.tag, GetIndex(n + 1), 0, GetIndex(n + 1), n + 1, n)

AppendText(n) ==
    LET len == Str.len + n
    IN  /\ Str.ptr # NoPtr /\ len <= MaxLen
        /\ IF 2^Str.tag > len + 1 THEN Write("string", len + 1, len)
           ELSE Move("string", Str.tag, GetIndex(len + 1), 0, GetIndex(len + 1), len + 1, len)

\* replace(index, cut, str): the buffer is sized for the exchange of cut characters for n,
\* but cut characters of str and the old tail are copied
ReplaceText(index, cut, n) ==
    /\ Str.ptr # NoPtr /\ index + cut <= Str.len /\ Str.len + n - cut <= MaxLen
    /\ LET i == GetIndex(Str.len + n - cut + 1)
       IN  /\ 2^i < Str.len + 1 => "shrink" \in Calls
           /\ Move("string", Str.tag, i, 0, i, Str.len + 1, IF n < cut THEN index + n ELSE Str.len)

Reserve(n) ==
    /\ 2^Str.tag <= n
    /\ Renew("string", Str.tag, GetIndex(n), 0, GetIndex(n), 1, 0)

-----------------------------------------------------------------------------
\* CFileUtil; the tag of file and line is nIdx, of target aBufSize

\* readNalloc of a file of n bytes
ReadNalloc(n) ==
    LET i == GetIndex(n + 1)
    IN  /\ hold["file"].ptr = NoPtr /\ n = 0 => "empty" \in Calls
        /\ IF hold["file"].tag < i THEN Renew("file", hold["file"].tag, i, 0, i, n + 1, n)
           ELSE Write("file", n + 1, n)

\* getNextLine(STLine *): for the rest of a file without a line end nIdx stays 0
NextLine(n, ended) ==
    LET i   == IF ended THEN 0 ELSE GetIndex(n + 1)
        cur == hold["line"]
    IN  /\ cur.tag >= i /\ (cur.ptr = NoPtr \/ Capacity(cur.ptr) < n + 1) => "lastline" \in Calls
        /\ IF cur.tag < i THEN Renew("line", cur.tag, i + 1, 0, i + 1, n + 1, n)
           ELSE Write("line", n + 1, n)

\* getNextLine(STStrInfo *), which readListNalloc gives a first buffer; the line end is counted
\* and becomes the terminator, the rest of a file has none to count
NextInfo(n, ended) ==
    LET cur  == hold["target"]
        size == IF ended THEN n ELSE n + 1
    IN  /\ cur.ptr # NoPtr
        /\ cur.tag >= size /\ Capacity(cur.ptr) < n + 1 => "lastinfo" \in Calls
        /\ IF cur.tag < size
           THEN Renew("target", GetIndex(cur.tag), GetIndex(size + Slack), size + Slack, size + Slack, n + 1, n)
           ELSE Write("target", n + 1, n)

-----------------------------------------------------------------------------
\* The buffers of a socket (tag is nTotLen) and of a log line

\* bindRecv
BindRecv ==
    /\ hold["recv"].ptr = NoPtr
    /\ Take("recv", GetIndex(RecvSize), RecvSize, RecvSize, RecvSize, 0)

\* A changeRecvBuf that keeps the old buffer.
ChangeRecvBufLeak(n) ==
    /\ hold["recv"].ptr # NoPtr /\ hold["recv"].tag < n
    /\ Take("recv", GetIndex(n), n, n, n, 0)

\* changeRecvBuf for a message of n bytes
ChangeRecvBuf(n) ==
    /\ hold["recv"].ptr # NoPtr /\ hold["recv"].tag < n
    /\ Move("recv", GetIndex(hold["recv"].tag), GetIndex(n), n, n, n, 0)

\* a caller of Send has written a message of n bytes and its terminator
SendMessage(n) ==
    /\ hold["send"].ptr = NoPtr
    /\ Take("send", GetIndex(n + 1), n + 1, n, n + 1, n)

\* A completion that forgets the terminator.
SendCompleteTight == Release("send", GetIndex(hold["send"].tag))

\* comproc_sendComplete
SendComplete == Release("send", GetIndex(hold["send"].tag + 1))

\* clear and ~CNWSocket after a failed send
ClearSend ==
    LET home == GetIndex(hold["send"].tag)
    IN  /\ hold["send"].tag > 0
        /\ WrongClass(hold["send"].ptr, home) => "clear" \in Calls
        /\ Release("send", home)

\* a line of n characters, line end and terminator; PutLogQueue(TCHAR *) adds no line end, but
\* clears the byte after the terminator
PutLine(n, raw) ==
    LET size == IF raw THEN n + 1 ELSE n + 2
    IN  /\ hold["log"].ptr = NoPtr
        /\ Capacity(NewBuf(used, GetIndex(size), size).ptr) < n + 2 => "rawline" \in Calls
        /\ Take("log", GetIndex(size), size, 0, n + 2, size - 1)

\* GetQueue and porcLoggerDisable of the log writer
LineWritten == Release("log", GetIndex(hold["log"].len + 1))

Next ==
    \/ \E n \in 0 .. MaxLen : \/ Assign(n) \/ AppendText(n) \/ ReadNalloc(n) \/ SendMessage(n)
                              \/ n > 0 /\ (Reserve(n) \/ ChangeRecvBuf(n))
    \/ \E index, cut, n \in 0 .. MaxLen : ReplaceText(index, cut, n)
    \/ \E n \in 0 .. MaxLen, b \in BOOLEAN : NextLine(n, b) \/ NextInfo(n, b) \/ PutLine(n, b)
    \/ hold["target"].ptr = NoPtr /\ Take("target", GetIndex(Slack), Slack, Slack, 1, 0)
    \/ BindRecv \/ SendComplete \/ ClearSend \/ LineWritten
    \/ \E h \in {"string", "file", "line"} : Release(h, hold[h].tag)
    \/ \E h \in {"target", "recv"} : Release(h, GetIndex(hold[h].tag))

Spec == Init /\ [][Next]_bufVars

-----------------------------------------------------------------------------
\* Properties

\* No text is written through a null pointer or beyond its buffer: the class
\* a caller asks for always has room for what it writes, whether the buffer
\* comes from the pool or, when the pool is empty, from the heap.
WritesFit == bad \cap {"null", "overrun"} = {}

\* A buffer goes back to the pool it was taken from: the index or size its
\* holder names at the end leads to the class of the size it asked for, so
\* that no memory of a pool is given to free().  comMemManager.h says of the
\* class: "if you want to use it, you must know the buf Size".
GoesHome == "wrongclass" \notin bad

\* Every cell marked used in a pool has one holder, and every holder's cell is
\* marked: no cell is lost and none is handed out twice.
CellsHaveHolders ==
    /\ \A i \in Classes : used[i] = {hold[h].ptr.cell : h \in {x \in Holders : hold[x].ptr # NoPtr /\ hold[x].ptr.pool = i}}
    /\ \A g, h \in Holders : g # h /\ hold[g].ptr # NoPtr /\ hold[g].ptr = hold[h].ptr => hold[g].ptr.pool = -1
=============================================================================
