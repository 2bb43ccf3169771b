---------------------------- MODULE SessionProofs ---------------------------
(***************************************************************************)
(* Who owns what in the IOCP server, for any number of sessions, workers,  *)
(* closers and communicators: the receive structure of a session is in one *)
(* place and every event block is accounted for.  With one worker, whose   *)
(* sessions were prepared before it ran, the connection list holds only    *)
(* sessions in use, and the buffer under the parser stays with its session.*)
(* The steps are in SessionSteps and SessionWorkerSteps; here are the      *)
(* counts, which need the theorems on finite sets.                         *)
(***************************************************************************)
EXTENDS SessionWorkerSteps, FiniteSetTheorems, WellFoundedInduction

USE SMTT(30)

----------------------------------------------------------------------------
(* A connection list has a cell more than there are sessions.              *)

\* Numbers that are not empty have a least one.
LEMMA LeastOf ==
  ASSUME NEW D \in SUBSET Nat, D # {}
  PROVE  \E x \in D : \A y \in D : x <= y
<1> DEFINE less == {ss \in Nat \X Nat : ss[1] < ss[2]}
<1>1. IsWellFoundedOn(less, Nat)
  BY NatLessThanWellFounded, Zenon DEF OpToRel
<1>2. PICK x \in D : \A y \in D : ~ (<<y, x>> \in less)
  <2> HIDE DEF less
  <2> QED
    BY <1>1, WFMin, Zenon
<1>3. ASSUME NEW y \in D, y < x PROVE FALSE
  <2>1. <<y, x>> \in Nat \X Nat /\ <<y, x>>[1] = y /\ <<y, x>>[2] = x
    OBVIOUS
  <2> QED
    BY <1>2, <1>3, <2>1, Zenon
<1> QED
  BY <1>3

\* A remainder is smaller than the divisor.
LEMMA ModRange ==
  ASSUME NEW a \in Int, NEW n \in Nat \ {0}
  PROVE  a % n \in Nat
OBVIOUS

\* A list that holds each session in one cell has a free cell.
LEMMA NeverFull ==
  ASSUME NEW l \in List, \A k \in l.filled : l.arr[k] \in Sessions,
         \A k, j \in Cells : l.arr[k] = l.arr[j] /\ l.arr[k] # NoSession => k = j
  PROVE  Cells \ l.filled # {}
<1> SUFFICES ASSUME Cells \ l.filled = {} PROVE FALSE
  OBVIOUS
<1> DEFINE f == [k \in Cells |-> l.arr[k]]
<1>1. l.filled = Cells
  BY DEF List
<1>2. f \in [Cells -> Sessions]
  BY <1>1
<1>3. \A s \in Sessions : s # NoSession
  BY DEF Sessions, NoSession
<1>4. IsFiniteSet(Cells) /\ Cardinality(Cells) = N + 1
  BY SessionsAssumption, FS_Interval DEF Cells
<1>5. IsFiniteSet(Sessions) /\ Cardinality(Sessions) = N
  BY SessionsAssumption, FS_Interval DEF Sessions
<1>6. Cardinality(Sessions) < Cardinality(Cells)
  BY SessionsAssumption, <1>4, <1>5
<1>7. PICK x, y \in Cells : x # y /\ f[x] = f[y]
  <2> HIDE DEF f
  <2> QED
    BY <1>2, <1>4, <1>5, <1>6, FS_PigeonHole
<1>8. l.arr[x] = l.arr[y] /\ l.arr[x] # NoSession
  BY <1>1, <1>3, <1>7, Zenon
<1> QED
  BY <1>7, <1>8

\* add takes a free cell.
LEMMA FreeCell ==
  ASSUME NEW l \in List, Cells \ l.filled # {}
  PROVE  AddCell(l) \in Cells /\ AddCell(l) \notin l.filled
<1>1. CASE l.first >= 0 /\ l.first \notin l.filled
  BY <1>1 DEF AddCell, List, Cells
<1>2. CASE ~ (l.first >= 0 /\ l.first \notin l.filled)
  <2> DEFINE free == Cells \ l.filled
             dist(c) == (c - l.cur) % (N + 1)
             D == {dist(c) : c \in free}
  <2>1. \A c \in free : dist(c) \in Nat
    <3>1. \A c \in free : c - l.cur \in Int /\ N + 1 \in Nat \ {0}
      BY SessionsAssumption DEF List, Cells
    <3> QED
      BY <3>1, ModRange, Zenon
  <2>2. D \in SUBSET Nat /\ D # {}
    BY <2>1
  <2>3. PICK d \in D : \A e \in D : d <= e
    <3> HIDE DEF D
    <3> QED
      BY <2>2, LeastOf, Zenon
  <2>4. \E c \in free : \A e \in free : dist(c) <= dist(e)
    <3> HIDE DEF dist
    <3> QED
      BY <2>3
  <2>5. AddCell(l) = CHOOSE c \in free : \A e \in free : dist(c) <= dist(e)
    BY <1>2, Zenon DEF AddCell
  <2>6. AddCell(l) \in free
    <3> HIDE DEF dist, free
    <3> QED
      BY <2>4, <2>5, Zenon
  <2> QED
    BY <2>6
<1> QED
  BY <1>1, <1>2

\* The counts make room: a list is never full, and a block is out for every
\* worker that is to return one.
LEMMA HasRoom ==
  ASSUME Inv
  PROVE  Room
<1>1. ASSUME NEW c \in Comms PROVE AddCell(list[c]) \in Cells
  <2>1. list[c] \in List
    BY DEF Inv, TypeOK, List
  <2>2. Cells \ list[c].filled # {}
    BY <2>1, NeverFull, Zenon DEF Inv, Lists
  <2> QED
    BY <2>1, <2>2, FreeCell, Zenon
<1>2. ASSUME NEW w \in Workers, pc[w] = "rearm" PROVE events.out > 0
  <2> DEFINE A == At({"del", "close", "return", "rearm"})
  <2>1. w \in A
    BY <1>2 DEF At, Threads
  <2>2. IsFiniteSet(A) /\ IsFiniteSet(CloseEvents)
    BY DEF Inv, Blocks
  <2>3. events.out - events.lost = Cardinality(CloseEvents) + Cardinality(A)
    BY DEF Inv, Blocks, EventBlocksKept
  <2> HIDE DEF A
  <2>4. Cardinality(A) \in Nat \ {0} /\ Cardinality(CloseEvents) \in Nat
    BY <2>1, <2>2, FS_EmptySet, FS_CardinalityType, Zenon
  <2>5. events.out \in Nat /\ events.lost \in Nat
    BY DEF Inv, TypeOK
  <2> QED
    BY <2>3, <2>4, <2>5
<1> QED
  BY <1>1, <1>2, Zenon DEF Room

----------------------------------------------------------------------------
(* The event blocks.                                                       *)

\* A close event is a cell of a port.
LEMMA CloseCells ==
  ASSUME queue \in [Comms -> Seq(Message)]
  PROVE  \A x : x \in CloseEvents <=>
           \E c \in Comms : \E k \in DOMAIN queue[c] : x = <<c, k>> /\ queue[c][k].op = "close"
<1>1. ASSUME NEW c \in Comms, NEW k \in DOMAIN queue[c] PROVE queue[c][k].s \in Sessions
  <2>1. queue[c] \in Seq(Message)
    OBVIOUS
  <2>2. queue[c][k] \in Message
    BY <2>1
  <2> QED
    BY <2>2 DEF Message
<1> QED
  BY <1>1 DEF CloseEvents, Queued

\* putRTSQueue adds one close event; a completed receive adds none.
LEMMA PutClose ==
  ASSUME TypeOK, IsFiniteSet(CloseEvents), NEW c \in Comms, NEW m \in Message, Put(c, m)
  PROVE  /\ IsFiniteSet(CloseEvents')
         /\ m.op = "io" => Cardinality(CloseEvents') = Cardinality(CloseEvents)
         /\ m.op = "close" => Cardinality(CloseEvents') = Cardinality(CloseEvents) + 1
<1> DEFINE n == Len(queue[c]) + 1
<1>1. /\ queue' \in [Comms -> Seq(Message)]
      /\ \A d \in Comms \ {c} : queue'[d] = queue[d]
      /\ n \notin DOMAIN queue[c]
      /\ DOMAIN queue'[c] = DOMAIN queue[c] \cup {n}
      /\ queue'[c][n] = m
      /\ \A k \in DOMAIN queue[c] : queue'[c][k] = queue[c][k]
  BY PutCells, Zenon
<1> HIDE DEF n
<1>2. queue \in [Comms -> Seq(Message)]
  BY Zenon DEF TypeOK, Message
<1>3. \A x : x \in CloseEvents <=>
        \E d \in Comms : \E k \in DOMAIN queue[d] : x = <<d, k>> /\ queue[d][k].op = "close"
  BY <1>2, CloseCells, Zenon
<1>4. \A x : x \in CloseEvents' <=>
        \E d \in Comms : \E k \in DOMAIN queue'[d] : x = <<d, k>> /\ queue'[d][k].op = "close"
  <2>1. ASSUME NEW d \in Comms, NEW k \in DOMAIN queue'[d] PROVE queue'[d][k].s \in Sessions
    <3>1. queue'[d] \in Seq(Message)
      BY <1>1
    <3>2. queue'[d][k] \in Message
      BY <3>1
    <3> QED
      BY <3>2 DEF Message
  <2> QED
    BY <2>1 DEF CloseEvents, Queued
<1>5. CASE m.op = "io"
  <2>1. ASSUME NEW x \in CloseEvents' PROVE x \in CloseEvents
    <3>1. PICK d \in Comms : \E k \in DOMAIN queue'[d] : x = <<d, k>> /\ queue'[d][k].op = "close"
      BY <1>4, Zenon
    <3>2. PICK k \in DOMAIN queue'[d] : x = <<d, k>> /\ queue'[d][k].op = "close"
      BY <3>1
    <3>3. k \in DOMAIN queue[d] /\ queue'[d][k] = queue[d][k]
      BY <1>1, <1>5, <3>2, Zenon
    <3> QED
      BY <1>3, <3>2, <3>3, Zenon
  <2>2. ASSUME NEW x \in CloseEvents PROVE x \in CloseEvents'
    BY <1>1, <1>3, <1>4, <2>2
  <2>3. CloseEvents' = CloseEvents
    BY <2>1, <2>2, Zenon
  <2> QED
    BY <1>5, <2>3, Zenon
<1>6. CASE m.op = "close"
  <2>1. ASSUME NEW x PROVE x \in CloseEvents' <=> x \in CloseEvents \cup {<<c, n>>}
    <3>1. ASSUME x \in CloseEvents' PROVE x \in CloseEvents \cup {<<c, n>>}
      <4>1. PICK d \in Comms : \E k \in DOMAIN queue'[d] : x = <<d, k>> /\ queue'[d][k].op = "close"
        BY <1>4, <3>1, Zenon
      <4>2. PICK k \in DOMAIN queue'[d] : x = <<d, k>> /\ queue'[d][k].op = "close"
        BY <4>1
      <4>3. CASE d = c /\ k = n
        BY <4>2, <4>3, Zenon
      <4>4. CASE ~ (d = c /\ k = n)
        <5>1. k \in DOMAIN queue[d] /\ queue[d][k] = queue'[d][k]
          BY <1>1, <4>2, <4>4, Zenon
        <5> QED
          BY <1>3, <4>2, <5>1, Zenon
      <4> QED
        BY <4>3, <4>4, Zenon
    <3>2. ASSUME x \in CloseEvents PROVE x \in CloseEvents'
      BY <1>1, <1>3, <1>4, <3>2
    <3>3. <<c, n>> \in CloseEvents'
      BY <1>1, <1>4, <1>6, Zenon
    <3> QED
      BY <3>1, <3>2, <3>3, Zenon
  <2>2. CloseEvents' = CloseEvents \cup {<<c, n>>}
    BY <2>1, Zenon
  <2>3. <<c, n>> \notin CloseEvents
    BY <1>1, <1>3
  <2> QED
    BY <1>6, <2>2, <2>3, FS_AddElement, Zenon
<1> QED
  BY <1>5, <1>6, Zenon DEF Message

\* A worker that dequeues a message moves the ones behind it forward.
LEMMA TakeClose ==
  ASSUME TypeOK, IsFiniteSet(CloseEvents), NEW c \in Comms, queue[c] # <<>>,
         queue' = [queue EXCEPT ![c] = Tail(queue[c])]
  PROVE  /\ IsFiniteSet(CloseEvents')
         /\ Head(queue[c]).op = "io" => Cardinality(CloseEvents') = Cardinality(CloseEvents)
         /\ Head(queue[c]).op = "close" => Cardinality(CloseEvents') = Cardinality(CloseEvents) - 1
<1> DEFINE D == CloseEvents \ {<<c, 1>>}
           E == CloseEvents'
           f == [x \in D |-> IF x[1] = c THEN <<c, x[2] - 1>> ELSE x]
<1>1. /\ queue' \in [Comms -> Seq(Message)]
      /\ \A d \in Comms \ {c} : queue'[d] = queue[d]
      /\ 1 \in DOMAIN queue[c] /\ Head(queue[c]) = queue[c][1]
      /\ \A k \in DOMAIN queue'[c] :
           /\ k \in Int /\ k + 1 # 1
           /\ k + 1 \in DOMAIN queue[c] /\ queue'[c][k] = queue[c][k + 1]
      /\ \A k \in DOMAIN queue[c] :
           k # 1 => /\ k \in Int /\ k - 1 \in DOMAIN queue'[c]
                    /\ queue'[c][k - 1] = queue[c][k]
  BY TakeCells, Zenon
<1>2. queue \in [Comms -> Seq(Message)]
  BY Zenon DEF TypeOK, Message
<1>3. \A x : x \in CloseEvents <=>
        \E d \in Comms : \E k \in DOMAIN queue[d] : x = <<d, k>> /\ queue[d][k].op = "close"
  BY <1>2, CloseCells, Zenon
<1>4. \A x : x \in E <=>
        \E d \in Comms : \E k \in DOMAIN queue'[d] : x = <<d, k>> /\ queue'[d][k].op = "close"
  <2>1. ASSUME NEW d \in Comms, NEW k \in DOMAIN queue'[d] PROVE queue'[d][k].s \in Sessions
    <3>1. queue'[d] \in Seq(Message)
      BY <1>1
    <3>2. queue'[d][k] \in Message
      BY <3>1
    <3> QED
      BY <3>2 DEF Message
  <2> QED
    BY <2>1 DEF CloseEvents, Queued
<1> HIDE DEF E
<1>5. ASSUME NEW x \in D
      PROVE  \E d \in Comms : \E k \in DOMAIN queue[d] :
               /\ x = <<d, k>> /\ queue[d][k].op = "close" /\ ~ (d = c /\ k = 1)
  BY <1>3
<1>6. f \in Injection(D, E)
  <2>1. ASSUME NEW x \in D PROVE f[x] \in E
    <3>1. PICK d \in Comms : \E k \in DOMAIN queue[d] :
               /\ x = <<d, k>> /\ queue[d][k].op = "close" /\ ~ (d = c /\ k = 1)
      BY <1>5
    <3>2. PICK k \in DOMAIN queue[d] :
               /\ x = <<d, k>> /\ queue[d][k].op = "close" /\ ~ (d = c /\ k = 1)
      BY <3>1
    <3>3. CASE d = c
      <4>1. f[x] = <<c, k - 1>>
        BY <3>2, <3>3, Zenon
      <4>2. k - 1 \in DOMAIN queue'[c] /\ queue'[c][k - 1].op = "close"
        BY <1>1, <3>2, <3>3, Zenon
      <4> QED
        BY <1>4, <4>1, <4>2
    <3>4. CASE d # c
      <4>1. f[x] = <<d, k>>
        BY <3>2, <3>4, Zenon
      <4>2. k \in DOMAIN queue'[d] /\ queue'[d][k].op = "close"
        BY <1>1, <3>2, <3>4, Zenon
      <4> QED
        BY <1>4, <4>1, <4>2
    <3> QED
      BY <3>3, <3>4, Zenon
  <2>2. ASSUME NEW x \in D, NEW y \in D, f[x] = f[y] PROVE x = y
    <3>1. /\ \E d \in Comms : \E k \in DOMAIN queue[d] : x = <<d, k>> /\ (d = c => k \in Int)
          /\ \E d \in Comms : \E k \in DOMAIN queue[d] : y = <<d, k>> /\ (d = c => k \in Int)
      BY <1>1, <1>5
    <3> QED
      BY <2>2, <3>1
  <2> QED
    BY <2>1, <2>2, Zenon DEF Injection, IsInjective
<1>7. f \in Surjection(D, E)
  <2>1. ASSUME NEW y \in E PROVE \E x \in D : f[x] = y
    <3>1. PICK d \in Comms : \E k \in DOMAIN queue'[d] : y = <<d, k>> /\ queue'[d][k].op = "close"
      BY <1>4
    <3>2. PICK k \in DOMAIN queue'[d] : y = <<d, k>> /\ queue'[d][k].op = "close"
      BY <3>1
    <3>3. CASE d = c
      <4>1. k \in Int /\ k + 1 # 1 /\ k + 1 \in DOMAIN queue[c] /\ queue[c][k + 1].op = "close"
        BY <1>1, <3>2, <3>3, Zenon
      <4>2. <<c, k + 1>> \in D
        BY <1>3, <4>1, Zenon
      <4>3. f[<<c, k + 1>>] = <<c, k>>
        BY <4>1, <4>2
      <4> QED
        BY <3>2, <3>3, <4>2, <4>3, Zenon
    <3>4. CASE d # c
      <4>1. k \in DOMAIN queue[d] /\ queue[d][k].op = "close"
        BY <1>1, <3>2, <3>4, Zenon
      <4>2. <<d, k>> \in D
        BY <1>3, <3>4, <4>1, Zenon
      <4> QED
        BY <3>2, <3>4, <4>2, Zenon
    <3> QED
      BY <3>3, <3>4, Zenon
  <2>2. f \in [D -> E]
    BY <1>6 DEF Injection
  <2> QED
    BY <2>1, <2>2, Zenon DEF Surjection
<1>8. /\ IsFiniteSet(D)
      /\ Cardinality(D) = IF <<c, 1>> \in CloseEvents THEN Cardinality(CloseEvents) - 1
                          ELSE Cardinality(CloseEvents)
  BY FS_RemoveElement, Zenon
<1>9. <<c, 1>> \in CloseEvents <=> Head(queue[c]).op = "close"
  BY <1>1, <1>3
<1> HIDE DEF f, D
<1>10. IsFiniteSet(E) /\ Cardinality(E) = Cardinality(D)
  BY <1>6, <1>7, <1>8, FS_Surjection, Zenon
<1> QED
  BY <1>8, <1>9, <1>10, Zenon DEF E

\* A step that does not touch the blocks.
LEMMA SameBlocks ==
  ASSUME Blocks, At(Closing)' = At(Closing), events' = events,
         IsFiniteSet(CloseEvents'), Cardinality(CloseEvents') = Cardinality(CloseEvents)
  PROVE  Blocks'
BY DEF Blocks, EventBlocksKept, Closing

\* The workers that handle a close event after a step of one thread.
LEMMA GotoAt ==
  ASSUME TypeOK, NEW t \in Threads, NEW l, Goto(t, l)
  PROVE  /\ l \in Closing => At(Closing)' = At(Closing) \cup {t}
         /\ l \notin Closing => At(Closing)' = At(Closing) \ {t}
         /\ (l \in Closing <=> pc[t] \in Closing) => At(Closing)' = At(Closing)
         /\ t \in At(Closing) <=> pc[t] \in Closing
<1>1. \A u \in Threads : pc'[u] = IF u = t THEN l ELSE pc[u]
  BY DEF Goto, TypeOK
<1> HIDE DEF Closing
<1> QED
  BY <1>1 DEF At

\* socketShutdown accounts for its block.
LEMMA StopBlocks ==
  ASSUME Inv, NEW t \in Threads, Stop(t)
  PROVE  Blocks'
<1> USE DEF Inv
<1>1. pc[t] \in {"test", "shut", "post"} /\ ses[t] \in Sessions
  BY DEF Stop, ShutdownTest, Shutdown, putRTSQueue, PostFailed, Kinds
<1>2. PICK l \in {"test", "shut", "post", "idle"} : Goto(t, l)
  BY DEF Stop, ShutdownTest, Shutdown, putRTSQueue, PostFailed, AfterShutdown, Return
<1>3. At(Closing)' = At(Closing)
  BY <1>1, <1>2, GotoAt, Zenon DEF Closing
<1>4. events.out \in Nat /\ events.lost \in Nat
  BY DEF TypeOK
<1>5. /\ Cardinality(CloseEvents) \in Nat /\ Cardinality(At(Closing)) \in Nat
      /\ events.out - events.lost = Cardinality(CloseEvents) + Cardinality(At(Closing))
      /\ IsFiniteSet(CloseEvents) /\ IsFiniteSet(At(Closing))
  BY FS_CardinalityType DEF Blocks, EventBlocksKept, Closing
<1>6. CASE ShutdownTest(t) \/ Shutdown(t)
  <2>1. queue' = queue /\ events' = events
    BY <1>6, Zenon DEF ShutdownTest, Shutdown
  <2>2. CloseEvents' = CloseEvents
    BY <2>1 DEF CloseEvents, Queued
  <2> QED
    BY <1>3, <1>5, <2>1, <2>2, SameBlocks, Zenon
<1>7. CASE putRTSQueue(t)
  <2> DEFINE m == [op |-> "close", s |-> ses[t], ok |-> TRUE]
  <2>1. m \in Message /\ m.op = "close" /\ Put(ErrComm, m) /\ ErrComm \in Comms
    BY <1>1, <1>7, CommsAssumption, Zenon DEF putRTSQueue, Message
  <2> HIDE DEF m
  <2>2. IsFiniteSet(CloseEvents') /\ Cardinality(CloseEvents') = Cardinality(CloseEvents) + 1
    BY <1>5, <2>1, PutClose, Zenon
  <2>3. events' = [events EXCEPT !.out = events.out + 1]
    BY <1>7 DEF putRTSQueue
  <2>4. events'.out = events.out + 1 /\ events'.lost = events.lost
    <3>1. PICK n \in Nat : n = events.out + 1
      BY <1>4
    <3>2. events' = [events EXCEPT !.out = n]
      BY <2>3, <3>1
    <3> QED
      BY <3>1, <3>2, Zenon DEF TypeOK
  <2>5. events'.out - events'.lost = Cardinality(CloseEvents') + Cardinality(At(Closing)')
    BY <1>3, <1>4, <1>5, <2>2, <2>4
  <2> QED
    BY <1>3, <1>5, <2>2, <2>5, Zenon DEF Blocks, EventBlocksKept, Closing
<1>8. CASE PostFailed(t)
  <2>1. queue' = queue /\ events' \in {events, [out |-> events.out + 1, lost |-> events.lost + 1]}
    BY <1>8 DEF PostFailed
  <2>2. CloseEvents' = CloseEvents
    BY <2>1 DEF CloseEvents, Queued
  <2>3. events'.out - events'.lost = events.out - events.lost
    BY <1>4, <2>1
  <2> QED
    BY <1>3, <1>5, <2>2, <2>3, Zenon DEF Blocks, EventBlocksKept, Closing
<1> QED
  BY <1>6, <1>7, <1>8, Zenon DEF Stop

\* A worker accounts for the block of the close event it takes and returns.
LEMMA WorkBlocks ==
  ASSUME Inv, NEW w \in Workers, Work(w)
  PROVE  Blocks'
<1> USE DEF Inv
<1>1. w \in Threads /\ Serves[w] \in Comms
  BY CommsAssumption, Zenon DEF Threads
<1>2. events.out \in Nat /\ events.lost \in Nat
  BY DEF TypeOK
<1>3. /\ Cardinality(CloseEvents) \in Nat /\ Cardinality(At(Closing)) \in Nat
      /\ events.out - events.lost = Cardinality(CloseEvents) + Cardinality(At(Closing))
      /\ IsFiniteSet(CloseEvents) /\ IsFiniteSet(At(Closing))
  BY FS_CardinalityType DEF Blocks, EventBlocksKept, Closing
<1>4. ASSUME NEW o, NEW s \in Sessions, NEW ok \in BOOLEAN, Takes(w, o, s, ok)
      PROVE  IsFiniteSet(CloseEvents') /\ Cardinality(CloseEvents') = Cardinality(CloseEvents)
  <2>1. /\ queue[Serves[w]] # <<>> /\ Head(queue[Serves[w]]).op = "io"
        /\ queue' = [queue EXCEPT ![Serves[w]] = Tail(queue[Serves[w]])]
    BY <1>4 DEF Takes, Done
  <2> QED
    BY <1>1, <1>3, <2>1, TakeClose, Zenon
<1>5. ASSUME NEW s \in Sessions, AcceptFailed(w, s) \/ doAccept(w, s) \/ comproc_recvComplete(w, s)
      PROVE  Blocks'
  <2>1. \E o : \E ok \in BOOLEAN : Takes(w, o, s, ok)
    BY <1>5, Zenon DEF AcceptFailed, doAccept, comproc_recvComplete
  <2>2. IsFiniteSet(CloseEvents') /\ Cardinality(CloseEvents') = Cardinality(CloseEvents)
    BY <1>4, <2>1, Zenon
  <2>3. pc[w] = "idle" /\ events' = events
    BY <1>5, Zenon DEF AcceptFailed, doAccept, comproc_recvComplete, Takes
  <2>4. At(Closing)' = At(Closing)
    <3>1. CASE AcceptFailed(w, s)
      BY <3>1 DEF AcceptFailed, At
    <3>2. CASE ~ AcceptFailed(w, s)
      <4>1. PICK l \in {"bind", "app", "test"} : Goto(w, l)
        BY <1>5, <3>2, Zenon DEF doAccept, comproc_recvComplete
      <4> QED
        BY <1>1, <2>3, <4>1, GotoAt, Zenon DEF Closing
    <3> QED
      BY <3>1, <3>2, Zenon
  <2> QED
    BY <2>2, <2>3, <2>4, SameBlocks, Zenon
<1>6. ASSUME NEW s \in Sessions, comproc_close(w, s) PROVE Blocks'
  <2>1. /\ queue[Serves[w]] # <<>> /\ Head(queue[Serves[w]]).op = "close"
        /\ queue' = [queue EXCEPT ![Serves[w]] = Tail(queue[Serves[w]])]
        /\ pc[w] = "idle" /\ Goto(w, "del") /\ events' = events
    BY <1>6 DEF comproc_close
  <2>2. IsFiniteSet(CloseEvents') /\ Cardinality(CloseEvents') = Cardinality(CloseEvents) - 1
    BY <1>1, <1>3, <2>1, TakeClose, Zenon
  <2>3. At(Closing)' = At(Closing) \cup {w} /\ w \notin At(Closing)
    BY <1>1, <2>1, GotoAt, Zenon DEF Closing
  <2>4. IsFiniteSet(At(Closing)') /\ Cardinality(At(Closing)') = Cardinality(At(Closing)) + 1
    BY <1>3, <2>3, FS_AddElement
  <2>5. events'.out - events'.lost = Cardinality(CloseEvents') + Cardinality(At(Closing)')
    BY <1>2, <1>3, <2>1, <2>2, <2>4
  <2> QED
    BY <2>2, <2>4, <2>5, Zenon DEF Blocks, EventBlocksKept, Closing
<1>7. CASE bindRecv(w) \/ RecvRefused(w) \/ AddSession(w) \/ CloseDel(w) \/ CloseSock(w) \/ delSocket(w)
  <2>1. queue' = queue /\ events' = events
    BY <1>7 DEF bindRecv, RecvRefused, AddSession, CloseDel, CloseSock, delSocket
  <2>2. CloseEvents' = CloseEvents
    BY <2>1 DEF CloseEvents, Queued
  <2>3. \E l : Goto(w, l) /\ (l \in Closing <=> pc[w] \in Closing)
    BY <1>7 DEF bindRecv, RecvRefused, AddSession, CloseDel, CloseSock, delSocket, Return, Closing
  <2>4. At(Closing)' = At(Closing)
    BY <1>1, <2>3, GotoAt, Zenon
  <2> QED
    BY <1>3, <2>1, <2>2, <2>4, SameBlocks, Zenon
<1>8. CASE bindAccept(w)
  <2>1. /\ queue' = queue /\ events' = [events EXCEPT !.out = events.out - 1]
        /\ pc[w] = "rearm" /\ Goto(w, "idle")
    BY <1>8 DEF bindAccept, Return
  <2>2. CloseEvents' = CloseEvents
    BY <2>1 DEF CloseEvents, Queued
  <2>3. At(Closing)' = At(Closing) \ {w} /\ w \in At(Closing)
    BY <1>1, <2>1, GotoAt DEF Closing
  <2>4. IsFiniteSet(At(Closing)') /\ Cardinality(At(Closing)') = Cardinality(At(Closing)) - 1
    BY <1>3, <2>3, FS_RemoveElement
  <2>5. events'.out = events.out - 1 /\ events'.lost = events.lost
    <3>1. PICK n \in Int : n = events.out - 1
      BY <1>2
    <3>2. events' = [events EXCEPT !.out = n]
      BY <2>1, <3>1, Zenon
    <3> QED
      BY <3>1, <3>2, Zenon DEF TypeOK
  <2>6. events'.out - events'.lost = Cardinality(CloseEvents') + Cardinality(At(Closing)')
    BY <1>2, <1>3, <2>2, <2>4, <2>5
  <2> QED
    BY <1>3, <2>2, <2>4, <2>6, Zenon DEF Blocks, EventBlocksKept, Closing
<1>9. CASE Stop(w)
  BY <1>1, <1>9, StopBlocks, Zenon
<1> QED
  BY <1>5, <1>6, <1>7, <1>8, <1>9, Zenon DEF Work

\* Every step accounts for the event blocks.
LEMMA BlocksStep ==
  ASSUME Inv, [Next]_vars
  PROVE  Blocks'
<1> USE DEF Inv
<1>1. IsFiniteSet(CloseEvents)
  BY DEF Blocks
<1>2. ASSUME NEW s \in Sessions, NEW ok \in BOOLEAN, Put(Home[s], Done(s, ok))
      PROVE  IsFiniteSet(CloseEvents') /\ Cardinality(CloseEvents') = Cardinality(CloseEvents)
  <2>1. Home[s] \in Comms /\ Done(s, ok) \in Message /\ Done(s, ok).op = "io"
    BY CommsAssumption DEF Done, Message
  <2> QED
    BY <1>1, <1>2, <2>1, PutClose, Zenon
<1>3. CASE Prepare
  <2>1. pc[Main] \in {"prepare", "read", "write"} /\ Main \in Threads /\ events' = events
    BY <1>3, Zenon DEF Prepare, PrepareArm, PrepareRefused, PrepareRead, PrepareWrite, Threads
  <2>2. PICK l \in {"prepare", "read", "write", "idle"} : Goto(Main, l)
    BY <1>3, Zenon DEF Prepare, PrepareArm, PrepareRefused, PrepareRead, PrepareWrite, PrepareNext, Return
  <2>3. At(Closing)' = At(Closing)
    BY <2>1, <2>2, GotoAt, Zenon DEF Closing
  <2>4. IsFiniteSet(CloseEvents') /\ Cardinality(CloseEvents') = Cardinality(CloseEvents)
    <3>1. CASE PrepareRefused
      <4>1. ses[Main] \in Sessions /\ Put(Home[ses[Main]], Done(ses[Main], TRUE))
        BY <2>1, <3>1, Zenon DEF PrepareRefused, Kinds
      <4> QED
        BY <1>2, <4>1, Zenon
    <3>2. CASE queue' = queue
      BY <1>1, <3>2 DEF CloseEvents, Queued
    <3> QED
      BY <1>3, <3>1, <3>2, Zenon DEF Prepare, PrepareArm, PrepareRead, PrepareWrite
  <2> QED
    BY <2>1, <2>3, <2>4, SameBlocks, Zenon
<1>4. ASSUME NEW s \in Sessions, System(s) PROVE Blocks'
  <2>1. events' = events /\ pc' = pc /\ \E ok \in BOOLEAN : Put(Home[s], Done(s, ok))
    BY <1>4, Zenon DEF System, Connect, Arrive, Broken
  <2>2. At(Closing)' = At(Closing)
    BY <2>1 DEF At
  <2> QED
    BY <1>2, <2>1, <2>2, SameBlocks, Zenon
<1>5. ASSUME NEW w \in Workers, Work(w) PROVE Blocks'
  BY <1>5, WorkBlocks, Zenon
<1>6. ASSUME NEW k \in Closers, Stop(k) PROVE Blocks'
  BY <1>6, StopBlocks, Zenon DEF Threads
<1>7. ASSUME NEW k \in Closers, CloseWrite(k) \/ \E s \in Sessions : Close(k, s) PROVE Blocks'
  <2>1. PICK l \in {"write", "test"} : Goto(k, l) /\ pc[k] \in {"idle", "write"}
    BY <1>7 DEF CloseWrite, Close
  <2>2. k \in Threads /\ events' = events /\ queue' = queue
    BY <1>7 DEF CloseWrite, Close, Threads
  <2>3. At(Closing)' = At(Closing)
    BY <2>1, <2>2, GotoAt, Zenon DEF Closing
  <2>4. CloseEvents' = CloseEvents
    BY <2>2 DEF CloseEvents, Queued
  <2> QED
    BY <1>1, <2>2, <2>3, <2>4, SameBlocks, Zenon
<1>8. CASE UNCHANGED vars
  BY <1>8 DEF vars, Blocks, EventBlocksKept, CloseEvents, Queued, At
<1> QED
  BY <1>3, <1>4, <1>5, <1>6, <1>7, <1>8, Zenon DEF Next

----------------------------------------------------------------------------
(* The theorem.                                                            *)

----------------------------------------------------------------------------
(* The theorems.                                                           *)

\* The invariant holds as the server starts.
LEMMA InitInv ==
  ASSUME Init
  PROVE  Inv
<1>1. Blocks
  BY InitOwned, FS_EmptySet DEF Blocks, EventBlocksKept, Closing
<1> QED
  BY <1>1, InitOwned, Zenon DEF Inv

\* Every step keeps the invariant.
LEMMA StepInv ==
  ASSUME Inv, [Next]_vars
  PROVE  Inv'
BY HasRoom, StepOwned, BlocksStep, Zenon DEF Inv

\* A set without two elements.
LEMMA AtMostOne ==
  ASSUME NEW A, \A x, y \in A : x = y
  PROVE  Cardinality(A) \in {0, 1} /\ (A = {} => Cardinality(A) = 0)
<1>1. CASE A = {}
  BY <1>1, FS_EmptySet
<1>2. CASE A # {}
  <2>1. PICK x : A = {x}
    BY <1>2
  <2> QED
    BY <1>2, <2>1, FS_Singleton, Zenon
<1> QED
  BY <1>1, <1>2, Zenon

\* One place for a receive structure, as a count.
LEMMA OnePlace ==
  ASSUME Inv
  PROVE  OneReceive
<1> SUFFICES ASSUME NEW s \in Sessions
             PROVE  (IF S[s].io = "none" THEN 0 ELSE 1) + Cardinality(Queued("io", s))
                      + Cardinality(Handling(s)) <= 1
  BY DEF OneReceive
<1> USE DEF Inv, Owned
<1>1. \A x : x \in Queued("io", s) <=>
        \E c \in Comms : \E k \in DOMAIN queue[c] : x = <<c, k>> /\ IsIO(c, k, s)
  BY DEF Queued, IsIO
<1>2. \A x, y \in Queued("io", s) : x = y
  BY <1>1 DEF OneCell
<1>3. \A t : t \in Handling(s) <=> t \in Threads /\ Handles(t, s)
  BY DEF Handling, Handles, At
<1>4. \A x, y \in Handling(s) : x = y
  BY <1>3 DEF OneHolder
<1>5. /\ Cardinality(Queued("io", s)) \in {0, 1}
      /\ Queued("io", s) = {} => Cardinality(Queued("io", s)) = 0
  BY <1>2, AtMostOne, Zenon
<1>6. /\ Cardinality(Handling(s)) \in {0, 1}
      /\ Handling(s) = {} => Cardinality(Handling(s)) = 0
  BY <1>4, AtMostOne, Zenon
<1>7. Queued("io", s) # {} => InPort(s)
  BY <1>1 DEF InPort
<1>8. Handling(s) # {} => \E t \in Threads : Handles(t, s)
  BY <1>3, Zenon
<1>9. /\ S[s].io # "none" => Queued("io", s) = {} /\ Handling(s) = {}
      /\ Queued("io", s) # {} => Handling(s) = {}
  BY <1>7, <1>8, Zenon DEF OneHolder
<1> QED
  BY <1>5, <1>6, <1>9

\* The invariant holds in every behaviour.
LEMMA Invariance == Spec => []Inv
<1>1. Init => Inv
  BY InitInv, Zenon
<1>2. Inv /\ [Next]_vars => Inv'
  BY StepInv, Zenon
<1> QED
  BY <1>1, <1>2, PTL DEF Spec

\* Whatever the order in which workers, closers, the accepting thread and the
\* operating system take their steps, and whichever calls fail, the receive
\* structure of a session (processLoopLapper, bindRecv) is in one place and the
\* event blocks that putRTSQueue takes are the ones queued, in work or lost.
THEOREM OwnershipKept == Spec => []CompletionsOwned
<1>1. Inv => CompletionsOwned
  BY OnePlace, Zenon DEF Inv, Blocks, CompletionsOwned
<1> QED
  BY <1>1, Invariance, PTL

\* With one worker a session on the connection list is in use, also when the
\* closers, a failing recv or a failing post come in between: comproc_accept adds
\* it while it is, and comproc_close takes it off before delSocket returns it.
THEOREM ListKept ==
  ASSUME OneWorker
  PROVE  Spec => []ListedInUse
<1>1. Init => Inv /\ First
  BY InitInv, InitLater, Zenon
<1>2. Inv /\ First /\ [Next]_vars => Inv' /\ First'
  BY HasRoom, StepInv, StepLater, Zenon
<1>3. Inv /\ First => ListedInUse
  <2> SUFFICES ASSUME Inv, First, NEW c \in Comms, NEW s \in Listed(c) PROVE S[s].used
    BY DEF ListedInUse
  <2>1. s \in Sessions
    BY DEF Inv, Lists, Listed
  <2> QED
    BY <2>1 DEF First
<1> QED
  BY <1>1, <1>2, <1>3, PTL DEF Spec

\* With one worker, and posts that do not fail, the receive buffer stays with the
\* session while the application parses it: the close event is behind the data in
\* the port, so that closeSocket and delSocket free the buffer afterwards.
THEOREM BufferStays ==
  ASSUME OneWorker, "post" \notin Faults
  PROVE  Spec => []BufferKept
<1>1. Init => Inv /\ First /\ Later
  BY InitInv, InitLater, Zenon
<1>2. Inv /\ First /\ Later /\ [Next]_vars => Inv' /\ First' /\ Later'
  BY HasRoom, StepInv, StepLater, Zenon
<1>3. Later => BufferKept
  BY DEF Later
<1> QED
  BY <1>1, <1>2, <1>3, PTL DEF Spec
=============================================================================
