---------------------------- MODULE EventThread ----------------------------
(***************************************************************************)
(* An event thread of the core: CComThread (start, quit, ProcThread) with  *)
(* the queue of CComQueueThread and the putEvent of CCoreList              *)
(* (common/src/comCore.cpp, common/include/comCore.h).  Producers take an  *)
(* event block from the pool, queue it and signal; the thread sleeps on a  *)
(* manual-reset event, resets it, and drains the queue.                    *)
(*                                                                         *)
(* The queue is CQueueS with one atomic step per call (its races are the   *)
(* subject of QueueS): a list of rings, each twice as large as the one     *)
(* before, in which pop answers NULL when it drops a drained ring.  The    *)
(* ring made by alloc, which pop never sees, is full already.              *)
(***************************************************************************)
EXTENDS Integers, Sequences, FiniteSets

CONSTANTS Producers,  \* threads that call putEvent
          Events,     \* blocks of the event pool
          NULL,       \* no event
          InitCap     \* capacity of the first ring that is listed

ASSUME InitCapAssumption == InitCap \in Nat \ {0}
ASSUME EventsAssumption == IsFiniteSet(Events) /\ NULL \notin Events

VARIABLES
  bActive,   \* m_stInfo.bActive
  cond,      \* m_stInfo.cThreadCond, a manual-reset event
  owner,     \* next step of the thread that starts and quits the worker
  worker,    \* next step of ProcThread
  current,   \* event the worker runs, or NULL
  rings,     \* m_sEventQueue: the listed rings, oldest first
  cap,       \* capacity of the newest ring
  pc,        \* next step of each producer
  event,     \* event a producer works on, or NULL
  free       \* blocks in the event pool

queue == <<rings, cap>>
vars == <<bActive, cond, owner, worker, current, rings, cap, pc, event, free>>

Init ==
  /\ bActive = FALSE
  /\ owner = "new"
  /\ worker = "none"
  /\ cond = FALSE
  /\ current = NULL
  /\ rings = <<<<>>>>
  /\ cap = InitCap
  /\ pc = [p \in Producers |-> "idle"]
  /\ event = [p \in Producers |-> NULL]
  /\ free = Events

----------------------------------------------------------------------------
(* The owner: CComThread::start() and quit().                              *)

\* THREAD_CREATE: the new thread runs at once.
StartCreate ==
  /\ owner = "new"
  /\ ~ bActive
  /\ worker' = "test"
  /\ owner' = "created"
  /\ UNCHANGED <<bActive, cond, current, queue, pc, event, free>>

StartActive ==
  /\ owner = "created"
  /\ bActive' = TRUE
  /\ owner' = "started"
  /\ UNCHANGED <<cond, worker, current, queue, pc, event, free>>

\* quit() clears the flag and closes the handle; it neither signals nor waits.
quit ==
  /\ owner = "started"
  /\ bActive' = FALSE
  /\ owner' = "quit"
  /\ UNCHANGED <<cond, worker, current, queue, pc, event, free>>

----------------------------------------------------------------------------
(* ProcThread and eventThreadLoop.                                         *)

\* eventThreadLoop with ResetEvent just before the wait.
WorkerTestReset ==
  /\ worker = "test"
  /\ worker' = IF bActive THEN "wait" ELSE "exit"
  /\ cond' = FALSE
  /\ UNCHANGED <<bActive, owner, current, queue, pc, event, free>>

WorkerTest ==
  /\ worker = "test"
  /\ worker' = IF bActive THEN "wait" ELSE "exit"
  /\ UNCHANGED <<bActive, cond, owner, current, queue, pc, event, free>>

\* WaitForSingleObject returns, then ResetEvent.
WorkerWake ==
  /\ worker = "wait"
  /\ cond
  /\ worker' = "reset"
  /\ UNCHANGED <<bActive, cond, owner, current, queue, pc, event, free>>

WorkerReset ==
  /\ worker = "reset"
  /\ cond' = FALSE
  /\ worker' = "pop"
  /\ UNCHANGED <<bActive, owner, current, queue, pc, event, free>>

\* getEvent that takes the newest event.
WorkerPopNewest ==
  /\ worker = "pop"
  /\ rings[1] # <<>>
  /\ current' = rings[1][Len(rings[1])]
  /\ rings' = [rings EXCEPT ![1] = SubSeq(@, 1, Len(@) - 1)]
  /\ worker' = "run"
  /\ UNCHANGED <<bActive, cond, owner, cap, pc, event, free>>

\* getEvent finds an event at the front of the oldest ring.
WorkerPop ==
  /\ worker = "pop"
  /\ rings[1] # <<>>
  /\ current' = Head(rings[1])
  /\ rings' = [rings EXCEPT ![1] = Tail(rings[1])]
  /\ worker' = "run"
  /\ UNCHANGED <<bActive, cond, owner, cap, pc, event, free>>

\* The oldest ring is empty: it is dropped when there is a later one, and
\* getEvent returns NULL in both cases, which ends eventThreadLoop.
WorkerEmpty ==
  /\ worker = "pop"
  /\ rings[1] = <<>>
  /\ rings' = IF Len(rings) > 1 THEN Tail(rings) ELSE rings
  /\ worker' = "test"
  /\ UNCHANGED <<bActive, cond, owner, current, cap, pc, event, free>>

\* fpProc, then delEvent.
WorkerRun ==
  /\ worker = "run"
  /\ free' = free \cup {current}
  /\ current' = NULL
  /\ worker' = "pop"
  /\ UNCHANGED <<bActive, cond, owner, queue, pc, event>>

\* The thread leaves its loop and calls quit() on itself.
WorkerExit ==
  /\ worker = "exit"
  /\ bActive' = FALSE
  /\ worker' = "done"
  /\ UNCHANGED <<cond, owner, current, queue, pc, event, free>>

----------------------------------------------------------------------------
(* A producer in putEvent.                                                 *)

putEvent(p) ==
  /\ pc[p] = "idle"
  /\ \E e \in free :
       /\ free' = free \ {e}
       /\ event' = [event EXCEPT ![p] = e]
  /\ pc' = [pc EXCEPT ![p] = "active"]
  /\ UNCHANGED <<bActive, cond, owner, worker, current, queue>>

\* putEvent without delEvent on failure.
PutRefusedKept(p) ==
  /\ pc[p] = "active"
  /\ ~ bActive
  /\ free' = free
  /\ event' = [event EXCEPT ![p] = NULL]
  /\ pc' = [pc EXCEPT ![p] = "idle"]
  /\ UNCHANGED <<bActive, cond, owner, worker, current, queue>>

\* putQueue refuses while the thread is not active; the block goes back.
PutRefused(p) ==
  /\ pc[p] = "active"
  /\ ~ bActive
  /\ free' = free \cup {event[p]}
  /\ event' = [event EXCEPT ![p] = NULL]
  /\ pc' = [pc EXCEPT ![p] = "idle"]
  /\ UNCHANGED <<bActive, cond, owner, worker, current, queue>>

PutAccepted(p) ==
  /\ pc[p] = "active"
  /\ bActive
  /\ pc' = [pc EXCEPT ![p] = "push"]
  /\ UNCHANGED <<bActive, cond, owner, worker, current, queue, event, free>>

\* CQueueS::push: into the newest ring, or into a new one of twice its size.
PutPush(p) ==
  LET last == Len(rings)
  IN /\ pc[p] = "push"
     /\ \/ /\ Len(rings[last]) < cap
           /\ rings' = [rings EXCEPT ![last] = Append(rings[last], event[p])]
           /\ UNCHANGED cap
        \/ /\ Len(rings[last]) >= cap
           /\ rings' = Append(rings, <<event[p]>>)
           /\ cap' = 2 * cap
     /\ event' = [event EXCEPT ![p] = NULL]
     /\ pc' = [pc EXCEPT ![p] = "signal"]
     /\ UNCHANGED <<bActive, cond, owner, worker, current, free>>

PutSignal(p) ==
  /\ pc[p] = "signal"
  /\ cond' = TRUE
  /\ pc' = [pc EXCEPT ![p] = "idle"]
  /\ UNCHANGED <<bActive, owner, worker, current, queue, event, free>>

----------------------------------------------------------------------------
Owner == StartCreate \/ StartActive \/ quit
Worker == \/ WorkerTest \/ WorkerWake \/ WorkerReset \/ WorkerPop
          \/ WorkerEmpty \/ WorkerRun \/ WorkerExit
Put(p) == PutRefused(p) \/ PutAccepted(p) \/ PutPush(p) \/ PutSignal(p)

Next == Owner \/ Worker \/ \E p \in Producers : putEvent(p) \/ Put(p)

Spec == Init /\ [][Next]_vars

\* The operating system schedules every thread that can run; start() returns.
Fairness ==
  /\ WF_vars(StartCreate \/ StartActive)
  /\ WF_vars(Worker)
  /\ \A p \in Producers : WF_vars(Put(p))

FairSpec == Spec /\ Fairness

----------------------------------------------------------------------------
Queued == UNION {{rings[r][k] : k \in DOMAIN rings[r]} : r \in DOMAIN rings}
QueueCells == UNION {{<<r, k>> : k \in DOMAIN rings[r]} : r \in DOMAIN rings}
Held == {event[p] : p \in Producers} \ {NULL}

\* The variables have their types.
TypeOK ==
  /\ bActive \in BOOLEAN
  /\ cond \in BOOLEAN
  /\ owner \in {"new", "created", "started", "quit"}
  /\ worker \in {"none", "test", "wait", "reset", "pop", "run", "exit", "done"}
  /\ current \in Events \cup {NULL}
  /\ rings \in Seq(Seq(Events)) /\ rings # <<>>
  /\ cap \in Nat \ {0}
  /\ pc \in [Producers -> {"idle", "active", "push", "signal"}]
  /\ event \in [Producers -> Events \cup {NULL}]
  /\ free \in SUBSET Events

\* An event block is in one place: the pool, one producer, one cell of the
\* queue, or the worker.  None is lost, queued twice or run while in the pool.
BlocksConserved ==
  /\ Events = free \cup Held \cup Queued \cup ({current} \ {NULL})
  /\ Cardinality(free) + Cardinality({p \in Producers : event[p] # NULL})
       + Cardinality(QueueCells)
       + Cardinality({current} \ {NULL}) = Cardinality(Events)

Grown == cap # InitCap

\* A worker asleep on an unsignalled condition has an empty queue, unless the
\* producer that filled it is about to signal: no wake-up is lost between
\* WaitForSingleObject, ResetEvent and the last pop, as long as the queue has
\* not grown.
NoLostWakeup ==
  worker = "wait" /\ ~ cond /\ (\A p \in Producers : pc[p] # "signal") =>
    Queued = {} \/ Grown

\* An event that putQueue accepted is run, unless the thread ends, and as long
\* as the queue has not grown.
AcceptedRuns ==
  \A e \in Events : e \in Queued ~> current = e \/ worker = "done" \/ Grown

============================================================================
