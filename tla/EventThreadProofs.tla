------------------------- MODULE EventThreadProofs -------------------------
(***************************************************************************)
(* The event thread keeps its types, keeps every event block in exactly    *)
(* one place, and loses no wake-up before its queue grows, for any number  *)
(* of producers and events.                                                *)
(***************************************************************************)
EXTENDS EventThread, Functions, FiniteSetTheorems, TLAPS

USE SMTT(30)

\* A producer owns a block exactly between newEvent and push, the worker
\* between pop and delEvent; there is no worker before start().
OwnsBlock ==
  /\ \A p \in Producers : event[p] # NULL <=> pc[p] \in {"active", "push"}
  /\ current # NULL <=> worker = "run"
  /\ owner = "new" => worker = "none"

\* The newest ring never becomes smaller, and before the first growth it is the
\* only one.
OneRing == cap >= InitCap /\ (~ Grown => Len(rings) = 1)

\* Before the first growth, a queue that is not empty has its worker awake or
\* about to be woken.
Wake ==
  ~ Grown /\ rings[1] # <<>> =>
    \/ cond
    \/ \E p \in Producers : pc[p] = "signal"
    \/ worker \in {"reset", "pop", "run"}

Inv == TypeOK /\ OwnsBlock /\ OneRing /\ Wake

USE InitCapAssumption

\* The thread before start() satisfies the invariant.
LEMMA InitInv == Init => Inv
<1> SUFFICES ASSUME Init PROVE Inv
  OBVIOUS
<1>1. rings = <<<<>>>> /\ rings \in Seq(Seq(Events)) /\ Len(rings) = 1 /\ rings[1] = <<>>
  <2>1. rings = <<<<>>>> /\ <<>> \in Seq(Events)
    BY DEF Init
  <2> QED
    BY <2>1
<1>2. TypeOK
  <2>1. bActive \in BOOLEAN /\ cond \in BOOLEAN
    BY Zenon DEF Init
  <2>2. rings # <<>>
    BY <1>1
  <2>3. /\ owner = "new" /\ worker = "none" /\ current = NULL /\ cap = InitCap
        /\ free = Events /\ pc = [p \in Producers |-> "idle"]
        /\ event = [p \in Producers |-> NULL]
    BY DEF Init
  <2> QED
    BY <1>1, <2>1, <2>2, <2>3 DEF TypeOK
<1>3. OwnsBlock
  BY DEF Init, OwnsBlock
<1>4. OneRing /\ Wake
  BY <1>1 DEF Init, OneRing, Wake, Grown
<1> QED
  BY <1>2, <1>3, <1>4 DEF Inv

\* The two outcomes of CQueueS::push: a cell of the newest ring, or a new ring.
LEMMA PushShape ==
  ASSUME Inv, NEW p \in Producers, PutPush(p)
  PROVE  /\ rings' \in Seq(Seq(Events)) /\ rings' # <<>>
         /\ cap' \in Nat \ {0}
         /\ OneRing'
<1> USE DEF Inv, TypeOK
<1>1. event[p] \in Events
  BY DEF PutPush, OwnsBlock
<1>2. Len(rings) \in Nat \ {0} /\ rings[Len(rings)] \in Seq(Events)
  OBVIOUS
<1>3. CASE Len(rings[Len(rings)]) < cap
  <2>1. /\ rings' = [rings EXCEPT ![Len(rings)] = Append(rings[Len(rings)], event[p])]
        /\ cap' = cap
    BY <1>2, <1>3 DEF PutPush
  <2>2. Append(rings[Len(rings)], event[p]) \in Seq(Events)
    BY <1>1, <1>2
  <2>3. rings' \in Seq(Seq(Events)) /\ Len(rings') = Len(rings)
    BY <1>2, <2>1, <2>2
  <2> QED
    BY <1>2, <2>1, <2>3 DEF OneRing, Grown
<1>4. CASE Len(rings[Len(rings)]) >= cap
  <2>1. rings' = Append(rings, <<event[p]>>) /\ cap' = 2 * cap
    BY <1>2, <1>4 DEF PutPush
  <2>2. rings' \in Seq(Seq(Events)) /\ Len(rings') = Len(rings) + 1
    <3>1. <<event[p]>> \in Seq(Events)
      BY <1>1
    <3> QED
      BY <2>1, <3>1
  <2>3. cap' >= InitCap /\ cap' # InitCap
    BY <2>1 DEF OneRing
  <2>4. rings' # <<>> /\ cap' \in Nat \ {0}
    BY <1>2, <2>1, <2>2
  <2> QED
    BY <2>2, <2>3, <2>4 DEF OneRing, Grown
<1> QED
  BY <1>2, <1>3, <1>4

\* Every step keeps the types.
LEMMA TypeStep ==
  ASSUME Inv, [Next]_vars
  PROVE  TypeOK' /\ OneRing'
<1> USE DEF Inv, TypeOK, OneRing, Grown
<1>1. CASE StartCreate \/ StartActive \/ quit
  BY <1>1, Zenon DEF StartCreate, StartActive, quit, queue
<1>2. CASE WorkerTest \/ WorkerWake \/ WorkerReset \/ WorkerExit
  BY <1>2, Zenon DEF WorkerTest, WorkerWake, WorkerReset, WorkerExit, queue
<1>3. CASE WorkerRun
  BY <1>3 DEF WorkerRun, queue, OwnsBlock
<1>4. CASE WorkerPop
  <2>1. rings[1] \in Seq(Events) /\ rings[1] # <<>> /\ 1 \in 1 .. Len(rings)
    BY <1>4 DEF WorkerPop
  <2>2. Head(rings[1]) \in Events /\ Tail(rings[1]) \in Seq(Events)
    BY <2>1
  <2>3. rings' \in Seq(Seq(Events)) /\ Len(rings') = Len(rings) /\ rings' # <<>>
    BY <1>4, <2>1, <2>2 DEF WorkerPop
  <2> QED
    BY <1>4, <2>2, <2>3 DEF WorkerPop
<1>5. CASE WorkerEmpty
  <2>1. /\ rings' \in Seq(Seq(Events)) /\ rings' # <<>>
        /\ Len(rings) = 1 => Len(rings') = 1
    <3>1. CASE Len(rings) > 1
      <4>1. rings' = Tail(rings) /\ Tail(rings) \in Seq(Seq(Events))
        BY <1>5, <3>1 DEF WorkerEmpty
      <4>2. Len(Tail(rings)) = Len(rings) - 1
        BY <3>1
      <4> QED
        BY <3>1, <4>1, <4>2
    <3>2. CASE ~ (Len(rings) > 1)
      BY <1>5, <3>2 DEF WorkerEmpty
    <3> QED
      BY <3>1, <3>2
  <2> QED
    BY <1>5, <2>1 DEF WorkerEmpty
<1>6. ASSUME NEW p \in Producers, putEvent(p) PROVE TypeOK' /\ OneRing'
  BY <1>6 DEF putEvent, queue
<1>7. ASSUME NEW p \in Producers, PutRefused(p) PROVE TypeOK' /\ OneRing'
  BY <1>7 DEF PutRefused, queue, OwnsBlock
<1>8. ASSUME NEW p \in Producers, PutAccepted(p) \/ PutSignal(p)
      PROVE  TypeOK' /\ OneRing'
  BY <1>8, ZenonT(60) DEF PutAccepted, PutSignal, queue
<1>9. ASSUME NEW p \in Producers, PutPush(p) PROVE TypeOK' /\ OneRing'
  <2>1. rings' \in Seq(Seq(Events)) /\ rings' # <<>> /\ cap' \in Nat \ {0} /\ OneRing'
    BY <1>9, PushShape, Zenon
  <2> QED
    BY <1>9, <2>1 DEF PutPush
<1>10. CASE UNCHANGED vars
  BY <1>10 DEF vars
<1> QED
  BY <1>1, <1>2, <1>3, <1>4, <1>5, <1>6, <1>7, <1>8, <1>9, <1>10
     DEF Next, Owner, Worker, Put

\* A block changes hands only in newEvent, push, pop and delEvent.
LEMMA OwnsStep ==
  ASSUME Inv, [Next]_vars
  PROVE  OwnsBlock'
<1> USE DEF Inv, TypeOK, OwnsBlock
<1>1. CASE StartCreate \/ StartActive \/ quit
  BY <1>1 DEF StartCreate, StartActive, quit
<1>2. CASE WorkerTest \/ WorkerWake \/ WorkerReset \/ WorkerExit \/ WorkerEmpty
  BY <1>2 DEF WorkerTest, WorkerWake, WorkerReset, WorkerExit, WorkerEmpty
<1>3. CASE WorkerRun
  BY <1>3 DEF WorkerRun
<1>4. CASE WorkerPop
  <2>1. rings[1] \in Seq(Events) /\ rings[1] # <<>>
    BY <1>4 DEF WorkerPop
  <2>2. current' \in Events
    BY <1>4, <2>1 DEF WorkerPop
  <2> QED
    BY <1>4, <2>2, EventsAssumption DEF WorkerPop
<1>5. ASSUME NEW p \in Producers, putEvent(p) PROVE OwnsBlock'
  BY <1>5, EventsAssumption DEF putEvent
<1>6. ASSUME NEW p \in Producers, Put(p) PROVE OwnsBlock'
  BY <1>6, Zenon DEF Put, PutRefused, PutAccepted, PutPush, PutSignal
<1>7. CASE UNCHANGED vars
  BY <1>7 DEF vars
<1> QED
  BY <1>1, <1>2, <1>3, <1>4, <1>5, <1>6, <1>7 DEF Next, Owner, Worker

\* A push leaves its producer about to signal; the worker goes back to its test
\* only from an empty ring.
LEMMA WakeStep ==
  ASSUME Inv, [Next]_vars
  PROVE  Wake'
<1> USE DEF Inv, TypeOK, Wake, Grown
<1>1. CASE StartCreate \/ StartActive \/ quit
  <2>1. /\ UNCHANGED <<rings, cap, cond, pc>>
        /\ worker' = worker \/ worker = "none"
    BY <1>1 DEF StartCreate, StartActive, quit, queue, OwnsBlock
  <2> QED
    BY <2>1
<1>2. CASE WorkerTest \/ WorkerWake \/ WorkerRun \/ WorkerExit
  <2>1. /\ UNCHANGED <<rings, cap, cond, pc>>
        /\ worker' \in {"reset", "pop"} \/ worker \in {"test", "exit"}
    BY <1>2 DEF WorkerTest, WorkerWake, WorkerRun, WorkerExit, queue
  <2> QED
    BY <2>1
<1>3. CASE WorkerReset
  BY <1>3 DEF WorkerReset
<1>4. CASE WorkerPop
  BY <1>4 DEF WorkerPop
<1>5. CASE WorkerEmpty
  BY <1>5 DEF WorkerEmpty, OneRing
<1>6. ASSUME NEW p \in Producers, putEvent(p) \/ PutRefused(p) \/ PutAccepted(p)
      PROVE  Wake'
  <2>1. /\ UNCHANGED <<rings, cap, cond, worker>>
        /\ \A q \in Producers : pc[q] = "signal" => pc'[q] = "signal"
    BY <1>6 DEF putEvent, PutRefused, PutAccepted, queue
  <2> QED
    BY <2>1
<1>7. ASSUME NEW p \in Producers, PutPush(p) PROVE Wake'
  BY <1>7 DEF PutPush
<1>8. ASSUME NEW p \in Producers, PutSignal(p) PROVE Wake'
  BY <1>8 DEF PutSignal
<1>9. CASE UNCHANGED vars
  BY <1>9 DEF vars
<1> QED
  BY <1>1, <1>2, <1>3, <1>4, <1>5, <1>6, <1>7, <1>8, <1>9
     DEF Next, Owner, Worker, Put

\* The invariant holds throughout.
LEMMA Invariance == Spec => []Inv
<1>1. Inv /\ [Next]_vars => Inv'
  BY TypeStep, OwnsStep, WakeStep, Zenon DEF Inv
<1> QED
  BY InitInv, <1>1, PTL DEF Spec

\* Thread, queue and producers keep their types: in particular the queue always
\* has a ring for push to store into and pop to look at.
THEOREM TypeCorrect == Spec => []TypeOK
<1>1. Inv => TypeOK
  BY DEF Inv
<1> QED
  BY Invariance, <1>1, PTL

\* Before CQueueS grows, an event thread never sleeps on a queue that holds an
\* event nobody is about to signal, for any number of producers and events.
THEOREM WakeupNeverLost == Spec => []NoLostWakeup
<1>1. Inv => NoLostWakeup
  <2> SUFFICES ASSUME Inv, worker = "wait", ~ cond, ~ Grown,
                      \A p \in Producers : pc[p] # "signal"
               PROVE  Queued = {}
    BY DEF NoLostWakeup
  <2>1. rings[1] = <<>> /\ Len(rings) = 1
    BY DEF Inv, Wake, OneRing
  <2>2. DOMAIN rings = {1} /\ DOMAIN rings[1] = {}
    BY <2>1 DEF Inv, TypeOK
  <2> QED
    BY <2>2 DEF Queued
<1> QED
  BY Invariance, <1>1, PTL

----------------------------------------------------------------------------
(* Where the event blocks are.                                             *)

\* Two cells of the queue, or two producers, never hold the same block.
Distinct ==
  /\ \A r, s \in DOMAIN rings : \A k \in DOMAIN rings[r], j \in DOMAIN rings[s] :
       rings[r][k] = rings[s][j] => r = s /\ k = j
  /\ \A p, q \in Producers : event[p] = event[q] /\ event[p] # NULL => p = q

\* Pool, producers, queue and worker have no block in common.
Apart ==
  /\ \A r \in DOMAIN rings : \A k \in DOMAIN rings[r] :
       /\ rings[r][k] \notin free
       /\ rings[r][k] # current
       /\ \A p \in Producers : event[p] # rings[r][k]
  /\ \A p \in Producers : event[p] # NULL => event[p] \notin free /\ event[p] # current
  /\ current \notin free

InQueue(e) == \E r \in DOMAIN rings : \E k \in DOMAIN rings[r] : rings[r][k] = e

\* A block is never lost.
Somewhere ==
  \A e \in Events :
    \/ e \in free
    \/ e = current
    \/ \E p \in Producers : event[p] = e
    \/ InQueue(e)

Places == Distinct /\ Apart /\ Somewhere

\* At the start every block is in the pool.
LEMMA InitPlaces == Init => Places
<1> SUFFICES ASSUME Init PROVE Places
  OBVIOUS
<1>1. DOMAIN rings = {1} /\ DOMAIN rings[1] = {}
  BY DEF Init
<1>2. \A p \in Producers : event[p] = NULL
  BY DEF Init
<1> QED
  BY <1>1, <1>2, EventsAssumption DEF Init, Places, Distinct, Apart, Somewhere

\* newEvent takes a block out of the pool.
LEMMA TakePlaces ==
  ASSUME Inv, Places, NEW p \in Producers, putEvent(p)
  PROVE  Places'
<1> USE DEF Inv, TypeOK
<1>1. PICK e \in free : free' = free \ {e} /\ event' = [event EXCEPT ![p] = e]
  BY Zenon DEF putEvent
<1>2. UNCHANGED <<rings, current>>
  BY DEF putEvent, queue
<1>3. event[p] = NULL
  BY DEF putEvent, OwnsBlock
<1>4. event'[p] = e /\ \A q \in Producers \ {p} : event'[q] = event[q]
  BY <1>1
<1>5. Distinct'
  BY <1>1, <1>2, <1>4, EventsAssumption DEF Places, Distinct, Apart
<1>6. Apart'
  BY <1>1, <1>2, <1>4, EventsAssumption DEF Places, Apart
<1>7. Somewhere'
  <2> SUFFICES ASSUME NEW x \in Events
               PROVE  \/ x \in free'
                      \/ x = current'
                      \/ \E q \in Producers : event'[q] = x
                      \/ InQueue(x)'
    BY DEF Somewhere
  <2>1. InQueue(x) => InQueue(x)'
    BY <1>2 DEF InQueue
  <2> QED
    BY <1>1, <1>2, <1>3, <1>4, <2>1, EventsAssumption DEF Places, Somewhere
<1> QED
  BY <1>5, <1>6, <1>7 DEF Places

\* A refused block goes back to the pool.
LEMMA RefusePlaces ==
  ASSUME Inv, Places, NEW p \in Producers, PutRefused(p)
  PROVE  Places'
<1> USE DEF Inv, TypeOK
<1>1. event[p] # NULL
  BY DEF PutRefused, OwnsBlock
<1>2. UNCHANGED <<rings, current>> /\ free' = free \cup {event[p]}
  BY DEF PutRefused, queue
<1>3. event'[p] = NULL /\ \A q \in Producers \ {p} : event'[q] = event[q]
  BY DEF PutRefused
<1>4. Distinct'
  BY <1>2, <1>3 DEF Places, Distinct
<1>5. Apart'
  <2>1. \A r \in DOMAIN rings : \A k \in DOMAIN rings[r] : rings[r][k] \in Events
    OBVIOUS
  <2> QED
    <3>1. \A r \in DOMAIN rings : \A k \in DOMAIN rings[r] :
            /\ rings[r][k] \notin free'
            /\ \A q \in Producers : event'[q] # rings[r][k]
      BY <1>2, <1>3, <2>1, EventsAssumption DEF Places, Apart
    <3>2. \A q \in Producers : event'[q] # NULL => event'[q] \notin free' /\ event'[q] # current
      BY <1>1, <1>2, <1>3 DEF Places, Apart, Distinct
    <3>3. current \notin free'
      BY <1>1, <1>2 DEF Places, Apart
    <3> QED
      BY <1>2, <3>1, <3>2, <3>3 DEF Places, Apart
<1>6. Somewhere'
  <2> SUFFICES ASSUME NEW x \in Events
               PROVE  \/ x \in free'
                      \/ x = current'
                      \/ \E q \in Producers : event'[q] = x
                      \/ InQueue(x)'
    BY DEF Somewhere
  <2>1. InQueue(x) => InQueue(x)'
    BY <1>2 DEF InQueue
  <2> QED
    BY <1>2, <1>3, <2>1, Zenon DEF Places, Somewhere
<1> QED
  BY <1>4, <1>5, <1>6 DEF Places

\* push stores the producer's block in a cell that did not exist: the rings keep
\* the cells they had, and there is one more.
LEMMA PushCells ==
  ASSUME Inv, NEW p \in Producers, PutPush(p)
  PROVE  \E n \in DOMAIN rings' : \E m \in DOMAIN rings'[n] :
           /\ rings'[n][m] = event[p]
           /\ \A r \in DOMAIN rings : r \in DOMAIN rings'
                /\ \A k \in DOMAIN rings[r] :
                      k \in DOMAIN rings'[r] /\ rings'[r][k] = rings[r][k]
           /\ \A r \in DOMAIN rings' : \A k \in DOMAIN rings'[r] :
                (r = n /\ k = m) \/ (r \in DOMAIN rings /\ k \in DOMAIN rings[r])
<1> USE DEF Inv, TypeOK
<1> DEFINE last == Len(rings)
<1>1. event[p] \in Events
  BY DEF PutPush, OwnsBlock
<1>2. last \in 1 .. Len(rings) /\ last \in Nat /\ rings[last] \in Seq(Events)
  OBVIOUS
<1>3. CASE Len(rings[last]) < cap
  <2>1. rings' = [rings EXCEPT ![last] = Append(rings[last], event[p])]
    BY <1>2, <1>3 DEF PutPush
  <2> DEFINE m == Len(rings[last]) + 1
  <2>2. /\ DOMAIN rings' = DOMAIN rings
        /\ rings'[last] = Append(rings[last], event[p])
        /\ \A r \in DOMAIN rings : r # last => rings'[r] = rings[r]
    BY <1>2, <2>1
  <2>3. /\ DOMAIN rings'[last] = 1 .. m /\ DOMAIN rings[last] = 1 .. (m - 1)
        /\ m \in Nat \ {0}
        /\ rings'[last][m] = event[p]
        /\ \A k \in 1 .. (m - 1) : rings'[last][k] = rings[last][k]
    BY <1>1, <1>2, <2>2
  <2>4. last \in DOMAIN rings' /\ m \in DOMAIN rings'[last]
    BY <1>2, <2>2, <2>3
  <2>5. \A k \in 1 .. m : k = m \/ k \in 1 .. (m - 1)
    BY <2>3
  <2>6. 1 .. (m - 1) \subseteq 1 .. m
    BY <2>3
  <2> HIDE DEF m, last
  <2> QED
    BY <2>2, <2>3, <2>4, <2>5, <2>6, ZenonT(60)
<1>4. CASE ~ (Len(rings[last]) < cap)
  <2>1. rings' = Append(rings, <<event[p]>>)
    BY <1>2, <1>4 DEF PutPush
  <2> DEFINE n == last + 1
  <2>2. <<event[p]>> \in Seq(Events)
    BY <1>1
  <2>3. /\ DOMAIN rings' = 1 .. n /\ DOMAIN rings = 1 .. (n - 1)
        /\ n \in Nat \ {0}
        /\ rings'[n] = <<event[p]>>
        /\ \A r \in 1 .. (n - 1) : rings'[r] = rings[r]
    BY <1>2, <2>1, <2>2
  <2>4. DOMAIN rings'[n] = {1} /\ rings'[n][1] = event[p]
    BY <2>3
  <2>5. n \in 1 .. n /\ 1 .. (n - 1) \subseteq 1 .. n
    BY <2>3
  <2>6. \A k \in 1 .. n : k = n \/ k \in 1 .. (n - 1)
    BY <2>3
  <2> HIDE DEF n, last
  <2>7. 1 \in DOMAIN rings'[n] /\ n \in DOMAIN rings'
    BY <2>3, <2>4, <2>5
  <2>8. \A r \in DOMAIN rings : r \in DOMAIN rings'
          /\ \A k \in DOMAIN rings[r] :
                k \in DOMAIN rings'[r] /\ rings'[r][k] = rings[r][k]
    BY <2>3, <2>5
  <2>9. \A r \in DOMAIN rings' : \A k \in DOMAIN rings'[r] :
          (r = n /\ k = 1) \/ (r \in DOMAIN rings /\ k \in DOMAIN rings[r])
    BY <2>3, <2>4, <2>6
  <2>10. \E m \in DOMAIN rings'[n] :
           /\ rings'[n][m] = event[p]
           /\ \A r \in DOMAIN rings' : \A k \in DOMAIN rings'[r] :
                (r = n /\ k = m) \/ (r \in DOMAIN rings /\ k \in DOMAIN rings[r])
    BY <2>4, <2>7, <2>9
  <2> QED
    BY <2>7, <2>8, <2>10
<1> QED
  BY <1>3, <1>4

\* push hands the block from the producer to the queue.
LEMMA PushPlaces ==
  ASSUME Inv, Places, NEW p \in Producers, PutPush(p)
  PROVE  Places'
<1>1. event[p] # NULL /\ event[p] \in Events
  BY DEF PutPush, OwnsBlock, Inv, TypeOK
<1>2. free' = free /\ current' = current
  BY DEF PutPush
<1>3. event'[p] = NULL /\ \A q \in Producers \ {p} : event'[q] = event[q]
  BY DEF PutPush, Inv, TypeOK
<1>4. PICK n \in DOMAIN rings' : \E m \in DOMAIN rings'[n] :
           /\ rings'[n][m] = event[p]
           /\ \A r \in DOMAIN rings : r \in DOMAIN rings'
                /\ \A k \in DOMAIN rings[r] :
                      k \in DOMAIN rings'[r] /\ rings'[r][k] = rings[r][k]
           /\ \A r \in DOMAIN rings' : \A k \in DOMAIN rings'[r] :
                (r = n /\ k = m) \/ (r \in DOMAIN rings /\ k \in DOMAIN rings[r])
  BY PushCells, Zenon
<1>5. PICK m \in DOMAIN rings'[n] :
           /\ rings'[n][m] = event[p]
           /\ \A r \in DOMAIN rings : r \in DOMAIN rings'
                /\ \A k \in DOMAIN rings[r] :
                      k \in DOMAIN rings'[r] /\ rings'[r][k] = rings[r][k]
           /\ \A r \in DOMAIN rings' : \A k \in DOMAIN rings'[r] :
                (r = n /\ k = m) \/ (r \in DOMAIN rings /\ k \in DOMAIN rings[r])
  BY <1>4, Zenon
<1>6. Distinct'
  <2>1. ASSUME NEW r \in DOMAIN rings', NEW s \in DOMAIN rings',
               NEW k \in DOMAIN rings'[r], NEW j \in DOMAIN rings'[s],
               rings'[r][k] = rings'[s][j]
        PROVE  r = s /\ k = j
    BY <1>5, <2>1 DEF Places, Distinct, Apart
  <2>2. \A q, x \in Producers : event'[q] = event'[x] /\ event'[q] # NULL => q = x
    BY <1>3 DEF Places, Distinct
  <2> QED
    BY <2>1, <2>2 DEF Distinct
<1>7. Apart'
  <2>1. ASSUME NEW r \in DOMAIN rings', NEW k \in DOMAIN rings'[r]
        PROVE  /\ rings'[r][k] \notin free
               /\ rings'[r][k] # current
               /\ \A q \in Producers : event'[q] # rings'[r][k]
    <3>1. CASE r = n /\ k = m
      BY <1>1, <1>3, <1>5, <3>1 DEF Places, Distinct, Apart
    <3>2. CASE r \in DOMAIN rings /\ k \in DOMAIN rings[r]
      <4>1. rings'[r][k] = rings[r][k] /\ rings[r][k] # NULL
        BY <1>5, <3>2, EventsAssumption DEF Inv, TypeOK
      <4> QED
        BY <1>3, <3>2, <4>1 DEF Places, Apart
    <3> QED
      BY <1>5, <3>1, <3>2
  <2> QED
    BY <1>2, <1>3, <2>1 DEF Places, Apart
<1>8. Somewhere'
  <2> SUFFICES ASSUME NEW x \in Events
               PROVE  \/ x \in free'
                      \/ x = current'
                      \/ \E q \in Producers : event'[q] = x
                      \/ InQueue(x)'
    BY DEF Somewhere
  <2>1. InQueue(x) => InQueue(x)'
    BY <1>5 DEF InQueue
  <2>2. x = event[p] => InQueue(x)'
    BY <1>5 DEF InQueue
  <2> QED
    BY <1>2, <1>3, <2>1, <2>2 DEF Places, Somewhere
<1> QED
  BY <1>6, <1>7, <1>8 DEF Places

\* pop takes the first cell of the oldest ring and moves the others down.
LEMMA PopCells ==
  ASSUME Inv, WorkerPop
  PROVE  /\ DOMAIN rings' = DOMAIN rings /\ 1 \in DOMAIN rings
         /\ 1 \in DOMAIN rings[1] /\ current' = rings[1][1]
         /\ \A r \in DOMAIN rings \ {1} : rings'[r] = rings[r]
         /\ \A k \in DOMAIN rings'[1] :
              k \in Int /\ k + 1 \in DOMAIN rings[1] /\ rings'[1][k] = rings[1][k + 1] /\ k + 1 # 1
         /\ \A k \in DOMAIN rings[1] :
              k # 1 => k \in Int /\ k - 1 \in DOMAIN rings'[1] /\ rings'[1][k - 1] = rings[1][k]
<1> USE DEF Inv, TypeOK
<1>1. rings[1] \in Seq(Events) /\ rings[1] # <<>> /\ 1 \in 1 .. Len(rings)
  BY DEF WorkerPop
<1>2. Len(rings[1]) \in Nat \ {0} /\ DOMAIN rings[1] = 1 .. Len(rings[1])
  BY <1>1
<1>3. /\ DOMAIN rings' = DOMAIN rings /\ rings'[1] = Tail(rings[1])
      /\ \A r \in DOMAIN rings \ {1} : rings'[r] = rings[r]
  BY <1>1 DEF WorkerPop
<1>4. /\ DOMAIN rings'[1] = 1 .. (Len(rings[1]) - 1)
      /\ \A k \in 1 .. (Len(rings[1]) - 1) : rings'[1][k] = rings[1][k + 1]
  BY <1>1, <1>2, <1>3
<1>5. current' = rings[1][1]
  BY <1>1 DEF WorkerPop
<1>6. \A k \in 1 .. (Len(rings[1]) - 1) : k \in Int /\ k + 1 \in 1 .. Len(rings[1]) /\ k + 1 # 1
  BY <1>2
<1>7. ASSUME NEW k \in 1 .. Len(rings[1]), k # 1
      PROVE  k \in Int /\ k - 1 \in 1 .. (Len(rings[1]) - 1) /\ rings'[1][k - 1] = rings[1][k]
  <2>1. k - 1 \in 1 .. (Len(rings[1]) - 1) /\ (k - 1) + 1 = k
    BY <1>2, <1>7
  <2> QED
    BY <1>4, <2>1
<1> QED
  BY <1>1, <1>2, <1>3, <1>4, <1>5, <1>6, <1>7

\* pop hands the block from the queue to the worker.
LEMMA PopPlaces ==
  ASSUME Inv, Places, WorkerPop
  PROVE  Places'
<1>1. /\ DOMAIN rings' = DOMAIN rings /\ 1 \in DOMAIN rings
      /\ 1 \in DOMAIN rings[1] /\ current' = rings[1][1]
      /\ \A r \in DOMAIN rings \ {1} : rings'[r] = rings[r]
  BY PopCells, Zenon
<1>2. \A k \in DOMAIN rings'[1] :
        k \in Int /\ k + 1 \in DOMAIN rings[1] /\ rings'[1][k] = rings[1][k + 1] /\ k + 1 # 1
  BY PopCells, Zenon
<1>3. \A k \in DOMAIN rings[1] :
        k # 1 => k \in Int /\ k - 1 \in DOMAIN rings'[1] /\ rings'[1][k - 1] = rings[1][k]
  BY PopCells, Zenon
<1>4. free' = free /\ event' = event /\ current = NULL
  BY DEF WorkerPop, Inv, OwnsBlock
<1>5. rings[1][1] \in Events
  BY <1>1 DEF Inv, TypeOK
<1>6. Distinct'
  <2>1. ASSUME NEW r \in DOMAIN rings', NEW s \in DOMAIN rings',
               NEW k \in DOMAIN rings'[r], NEW j \in DOMAIN rings'[s],
               rings'[r][k] = rings'[s][j]
        PROVE  r = s /\ k = j
    <3>1. CASE r = 1 /\ s = 1
      BY <1>1, <1>2, <2>1, <3>1 DEF Places, Distinct
    <3>2. CASE r = 1 /\ s # 1
      BY <1>1, <1>2, <2>1, <3>2 DEF Places, Distinct
    <3>3. CASE r # 1 /\ s = 1
      BY <1>1, <1>2, <2>1, <3>3 DEF Places, Distinct
    <3>4. CASE r # 1 /\ s # 1
      BY <1>1, <2>1, <3>4 DEF Places, Distinct
    <3> QED
      BY <3>1, <3>2, <3>3, <3>4
  <2> QED
    BY <1>4, <2>1 DEF Places, Distinct
<1>7. Apart'
  <2>1. ASSUME NEW r \in DOMAIN rings', NEW k \in DOMAIN rings'[r]
        PROVE  /\ rings'[r][k] \notin free
               /\ rings'[r][k] # rings[1][1]
               /\ \A q \in Producers : event[q] # rings'[r][k]
    <3>1. CASE r = 1
      BY <1>1, <1>2, <3>1 DEF Places, Distinct, Apart
    <3>2. CASE r # 1
      BY <1>1, <3>2 DEF Places, Distinct, Apart
    <3> QED
      BY <3>1, <3>2
  <2>2. rings[1][1] \notin free /\ \A p \in Producers : event[p] # rings[1][1]
    BY <1>1 DEF Places, Apart
  <2> QED
    BY <1>1, <1>4, <2>1, <2>2 DEF Places, Apart
<1>8. Somewhere'
  <2> SUFFICES ASSUME NEW x \in Events
               PROVE  \/ x \in free'
                      \/ x = current'
                      \/ \E q \in Producers : event'[q] = x
                      \/ InQueue(x)'
    BY DEF Somewhere
  <2>1. ASSUME NEW r \in DOMAIN rings, NEW k \in DOMAIN rings[r], rings[r][k] = x
        PROVE  x = current' \/ InQueue(x)'
    <3>1. CASE r = 1 /\ k = 1
      BY <1>1, <2>1, <3>1
    <3>2. CASE r = 1 /\ k # 1
      BY <1>1, <1>3, <2>1, <3>2 DEF InQueue
    <3>3. CASE r # 1
      BY <1>1, <2>1, <3>3 DEF InQueue
    <3> QED
      BY <3>1, <3>2, <3>3
  <2> QED
    BY <1>4, <2>1, EventsAssumption DEF Places, Somewhere, InQueue
<1> QED
  BY <1>6, <1>7, <1>8 DEF Places

\* Dropping the drained oldest ring loses no cell: the others move down by one.
LEMMA DropPlaces ==
  ASSUME Inv, Places, WorkerEmpty
  PROVE  Places'
<1>1. free' = free /\ event' = event /\ current' = current
  BY DEF WorkerEmpty
<1>2. CASE Len(rings) > 1
  <2>1. rings' = Tail(rings) /\ rings \in Seq(Seq(Events)) /\ DOMAIN rings[1] = {}
    BY <1>2 DEF WorkerEmpty, Inv, TypeOK
  <2>2. /\ DOMAIN rings' = 1 .. (Len(rings) - 1)
        /\ \A r \in 1 .. (Len(rings) - 1) : rings'[r] = rings[r + 1]
        /\ DOMAIN rings = 1 .. Len(rings) /\ Len(rings) \in Nat
    BY <1>2, <2>1
  <2>3. \A r \in DOMAIN rings' : r \in Int /\ r + 1 \in DOMAIN rings /\ rings'[r] = rings[r + 1]
    BY <2>2
  <2>4. ASSUME NEW r \in DOMAIN rings, r # 1
        PROVE  r - 1 \in DOMAIN rings' /\ rings'[r - 1] = rings[r]
    <3>1. r - 1 \in 1 .. (Len(rings) - 1) /\ (r - 1) + 1 = r
      BY <2>2, <2>4
    <3> QED
      BY <2>2, <3>1
  <2>5. Distinct'
    <3>1. ASSUME NEW r \in DOMAIN rings', NEW s \in DOMAIN rings',
                 NEW k \in DOMAIN rings'[r], NEW j \in DOMAIN rings'[s],
                 rings'[r][k] = rings'[s][j]
          PROVE  r = s /\ k = j
      <4>1. r + 1 = s + 1 /\ k = j
        BY <2>3, <3>1 DEF Places, Distinct
      <4> QED
        BY <2>3, <4>1
    <3> QED
      BY <1>1, <3>1 DEF Places, Distinct
  <2>6. Apart'
    BY <1>1, <2>3 DEF Places, Apart
  <2>7. ASSUME NEW x \in Events, InQueue(x) PROVE InQueue(x)'
    <3>1. PICK r \in DOMAIN rings : \E k \in DOMAIN rings[r] : rings[r][k] = x
      BY <2>7 DEF InQueue
    <3>2. r # 1
      BY <2>1, <3>1
    <3> QED
      BY <2>4, <3>1, <3>2 DEF InQueue
  <2>8. Somewhere'
    BY <1>1, <2>7 DEF Places, Somewhere
  <2> QED
    BY <2>5, <2>6, <2>8 DEF Places
<1>3. CASE ~ (Len(rings) > 1)
  <2>1. rings' = rings
    BY <1>3 DEF WorkerEmpty
  <2> QED
    BY <1>1, <2>1 DEF Places, Distinct, Apart, Somewhere, InQueue
<1> QED
  BY <1>2, <1>3

\* delEvent gives the block the worker has run back to the pool.
LEMMA RunPlaces ==
  ASSUME Inv, Places, WorkerRun
  PROVE  Places'
<1>1. /\ UNCHANGED <<rings, event>> /\ free' = free \cup {current}
      /\ current' = NULL /\ current \in Events
  BY DEF WorkerRun, queue, Inv, TypeOK, OwnsBlock
<1>2. Distinct'
  BY <1>1 DEF Places, Distinct
<1>3. \A r \in DOMAIN rings : \A k \in DOMAIN rings[r] : rings[r][k] \in Events
  BY DEF Inv, TypeOK
<1>4. NULL \notin free'
  BY <1>1, EventsAssumption DEF Inv, TypeOK
<1>5. Apart'
  BY <1>1, <1>3, <1>4, EventsAssumption DEF Places, Apart
<1>6. \A x \in Events : InQueue(x) => InQueue(x)'
  BY <1>1 DEF InQueue
<1>7. Somewhere'
  BY <1>1, <1>6 DEF Places, Somewhere
<1> QED
  BY <1>2, <1>5, <1>7 DEF Places

\* Every step keeps every block in one place.
LEMMA PlacesStep ==
  ASSUME Inv, Places, [Next]_vars
  PROVE  Places'
<1>1. ASSUME UNCHANGED <<rings, event, free, current>> PROVE Places'
  BY <1>1 DEF Places, Distinct, Apart, Somewhere, InQueue
<1>2. CASE Owner
  BY <1>1, <1>2 DEF Owner, StartCreate, StartActive, quit, queue
<1>3. CASE WorkerTest \/ WorkerWake \/ WorkerReset \/ WorkerExit
  BY <1>1, <1>3 DEF WorkerTest, WorkerWake, WorkerReset, WorkerExit, queue
<1>4. CASE WorkerPop \/ WorkerEmpty \/ WorkerRun
  BY <1>4, PopPlaces, DropPlaces, RunPlaces, Zenon
<1>5. ASSUME NEW p \in Producers, putEvent(p) \/ PutRefused(p) \/ PutPush(p)
      PROVE  Places'
  BY <1>5, TakePlaces, RefusePlaces, PushPlaces, Zenon
<1>6. ASSUME NEW p \in Producers, PutAccepted(p) \/ PutSignal(p)
      PROVE  Places'
  BY <1>1, <1>6 DEF PutAccepted, PutSignal, queue
<1>7. CASE UNCHANGED vars
  BY <1>1, <1>7 DEF vars
<1> QED
  BY <1>2, <1>3, <1>4, <1>5, <1>6, <1>7 DEF Next, Worker, Put

\* The cells of the queue are as many as the blocks in it, and the producers with
\* a block as many as the blocks they hold.
LEMMA Counted ==
  ASSUME Inv, Places
  PROVE  /\ IsFiniteSet(Queued) /\ Cardinality(QueueCells) = Cardinality(Queued)
         /\ IsFiniteSet(Held)
         /\ Cardinality({p \in Producers : event[p] # NULL}) = Cardinality(Held)
<1> DEFINE C == QueueCells
           Q == Queued
           P == {p \in Producers : event[p] # NULL}
           H == Held
           f == [c \in C |-> rings[c[1]][c[2]]]
           g == [p \in P |-> event[p]]
<1>1. \A c \in C : \E r \in DOMAIN rings : \E k \in DOMAIN rings[r] : c = <<r, k>>
  BY DEF QueueCells
<1>2. \A r \in DOMAIN rings : \A k \in DOMAIN rings[r] : <<r, k>> \in C /\ rings[r][k] \in Q
  BY DEF QueueCells, Queued
<1>3. Q \subseteq Events /\ H \subseteq Events
  BY DEF Queued, Held, Inv, TypeOK
<1>4. IsFiniteSet(Q) /\ IsFiniteSet(H)
  BY <1>3, EventsAssumption, FS_Subset
<1>5. \A e \in Q : \E r \in DOMAIN rings : \E k \in DOMAIN rings[r] : rings[r][k] = e
  BY DEF Queued
<1> HIDE DEF C, Q
<1>6. f \in Injection(C, Q)
  <2>1. f \in [C -> Q]
    BY <1>1, <1>2
  <2>2. ASSUME NEW a \in C, NEW b \in C, f[a] = f[b] PROVE a = b
    <3>1. PICK r \in DOMAIN rings : \E k \in DOMAIN rings[r] : a = <<r, k>>
      BY <1>1
    <3>2. PICK k \in DOMAIN rings[r] : a = <<r, k>>
      BY <3>1
    <3>3. PICK s \in DOMAIN rings : \E j \in DOMAIN rings[s] : b = <<s, j>>
      BY <1>1
    <3>4. PICK j \in DOMAIN rings[s] : b = <<s, j>>
      BY <3>3
    <3>5. rings[r][k] = rings[s][j]
      BY <2>2, <3>2, <3>4
    <3>6. r = s /\ k = j
      BY <3>5 DEF Places, Distinct
    <3> QED
      BY <3>2, <3>4, <3>6
  <2> QED
    BY <2>1, <2>2 DEF Injection, IsInjective
<1>7. f \in Surjection(C, Q)
  <2>1. f \in [C -> Q]
    BY <1>1, <1>2
  <2>2. ASSUME NEW e \in Q PROVE \E c \in C : f[c] = e
    <3>1. PICK r \in DOMAIN rings : \E k \in DOMAIN rings[r] : rings[r][k] = e
      BY <1>5
    <3>2. PICK k \in DOMAIN rings[r] : rings[r][k] = e
      BY <3>1
    <3>3. <<r, k>> \in C /\ f[<<r, k>>] = e
      BY <1>2, <3>2
    <3> QED
      BY <3>3
  <2> QED
    BY <2>1, <2>2 DEF Surjection
<1>8. g \in Injection(P, H) /\ g \in Surjection(P, H)
  <2>1. g \in [P -> H]
    BY DEF Held
  <2>2. \A a, b \in P : g[a] = g[b] => a = b
    BY DEF Places, Distinct
  <2>3. \A e \in H : \E p \in P : g[p] = e
    BY DEF Held
  <2> QED
    BY <2>1, <2>2, <2>3 DEF Injection, IsInjective, Surjection
<1> HIDE DEF f, g, P, H
<1>9. Cardinality(C) = Cardinality(Q) /\ Cardinality(P) = Cardinality(H)
  BY <1>4, <1>6, <1>7, <1>8, FS_Injection
<1> QED
  BY <1>4, <1>9 DEF C, Q, P, H

\* The blocks of two places with none in common add up.
LEMMA DisjointSum ==
  ASSUME NEW S, NEW T, IsFiniteSet(S), IsFiniteSet(T), S \cap T = {}
  PROVE  /\ IsFiniteSet(S \cup T)
         /\ Cardinality(S \cup T) = Cardinality(S) + Cardinality(T)
<1>1. Cardinality(S \cap T) = 0
  BY FS_EmptySet
<1>2. Cardinality(S) \in Nat /\ Cardinality(T) \in Nat
  BY FS_CardinalityType
<1>3. /\ IsFiniteSet(S \cup T)
      /\ Cardinality(S \cup T) = Cardinality(S) + Cardinality(T) - Cardinality(S \cap T)
  BY FS_Union
<1> QED
  BY <1>1, <1>2, <1>3

\* With every block in one place, the places add up to the pool's blocks.
LEMMA PlacesAddUp ==
  ASSUME Inv, Places
  PROVE  BlocksConserved
<1> DEFINE W == {current} \ {NULL}
<1>1. Events = free \cup Held \cup Queued \cup W
  <2>1. free \subseteq Events /\ Held \subseteq Events /\ Queued \subseteq Events /\ W \subseteq Events
    BY DEF Inv, TypeOK, Held, Queued
  <2>2. ASSUME NEW e \in Events PROVE e \in free \cup Held \cup Queued \cup W
    <3>1. e # NULL
      BY EventsAssumption
    <3>2. (\E p \in Producers : event[p] = e) => e \in Held
      BY <3>1 DEF Held
    <3>3. InQueue(e) => e \in Queued
      BY DEF InQueue, Queued
    <3>4. e = current => e \in W
      BY <3>1
    <3> HIDE DEF W
    <3> QED
      BY <3>2, <3>3, <3>4 DEF Places, Somewhere
  <2> HIDE DEF W
  <2> QED
    BY <2>1, <2>2
<1>2. free \cap Held = {}
  BY DEF Places, Apart, Held
<1>3. (free \cup Held) \cap Queued = {}
  BY DEF Places, Apart, Held, Queued
<1>4. (free \cup Held \cup Queued) \cap W = {}
  BY DEF Places, Apart, Held, Queued
<1>5. IsFiniteSet(free) /\ IsFiniteSet(W)
  BY EventsAssumption, FS_Subset, FS_Singleton DEF Inv, TypeOK
<1>6. /\ IsFiniteSet(Queued) /\ Cardinality(QueueCells) = Cardinality(Queued)
      /\ IsFiniteSet(Held)
      /\ Cardinality({p \in Producers : event[p] # NULL}) = Cardinality(Held)
  BY Counted, Zenon
<1> HIDE DEF W
<1>7. /\ IsFiniteSet(free \cup Held)
      /\ Cardinality(free \cup Held) = Cardinality(free) + Cardinality(Held)
  BY <1>2, <1>5, <1>6, DisjointSum, Zenon
<1>8. /\ IsFiniteSet(free \cup Held \cup Queued)
      /\ Cardinality(free \cup Held \cup Queued)
           = Cardinality(free \cup Held) + Cardinality(Queued)
  BY <1>3, <1>6, <1>7, DisjointSum, Zenon
<1>9. Cardinality(Events) = Cardinality(free \cup Held \cup Queued) + Cardinality(W)
  <2>1. Cardinality((free \cup Held \cup Queued) \cup W)
          = Cardinality(free \cup Held \cup Queued) + Cardinality(W)
    BY <1>4, <1>5, <1>8, DisjointSum, Zenon
  <2> QED
    BY <1>1, <2>1
<1> QED
  BY <1>1, <1>6, <1>7, <1>8, <1>9, <1>5, FS_CardinalityType DEF BlocksConserved, W

\* newEvent, putQueue, getEvent and delEvent neither lose an event block nor
\* duplicate one: it is in the pool, with one producer, in one cell of the queue
\* or with the worker, also while the queue grows and drops its drained rings.
THEOREM BlocksKept == Spec => []BlocksConserved
<1>1. Init => Places
  BY InitPlaces, Zenon
<1>2. Inv /\ Places /\ [Next]_vars => Places'
  BY PlacesStep, Zenon
<1>3. Inv /\ Places => BlocksConserved
  BY PlacesAddUp, Zenon
<1> QED
  BY Invariance, <1>1, <1>2, <1>3, PTL DEF Spec
============================================================================
