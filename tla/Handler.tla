------------------------------ MODULE Handler ------------------------------
(***************************************************************************)
(* The worker threads of CNWHandler (network/iocp NWHandler.cpp): start    *)
(* creates them one after the other and waits for each to say that it      *)
(* runs; destroyWorkerThread takes their records away.                     *)
(***************************************************************************)
EXTENDS Integers, FiniteSets, Sequences

CONSTANTS ThreadCount   \* getThreadCount()

Seqs == 1 .. ThreadCount

VARIABLES
  starter,   \* the caller of start: [at, i]; i is the loop variable
  hCreate,   \* the auto-reset event m_hCreateThread
  vec,       \* m_WorkerThreadVector
  info,      \* STNWThreadInfo of each thread: "none", "active", "inactive", "freed"
  work       \* what each worker does

handlerVars == <<starter, hCreate, vec, info, work>>

Init ==
  /\ starter = [at |-> "idle", i |-> 1]
  /\ hCreate = "none"
  /\ vec = <<>>
  /\ info = [n \in Seqs |-> "none"]
  /\ work = [n \in Seqs |-> "none"]

start ==
  /\ starter.at = "idle"
  /\ starter' = [at |-> "create", i |-> 1]
  /\ hCreate' = "reset"
  /\ UNCHANGED <<vec, info, work>>

Create ==
  /\ starter.at = "create"
  /\ info' = [info EXCEPT ![starter.i] = "active"]
  /\ work' = [work EXCEPT ![starter.i] = "begin"]
  /\ starter' = [starter EXCEPT !.at = "wait"]
  /\ UNCHANGED <<hCreate, vec>>

\* THREAD_CREATE fails: the threads made so far are destroyed.
CreateFailed ==
  /\ starter.at = "create"
  /\ hCreate' = "closed"
  /\ starter' = [starter EXCEPT !.at = "destroy"]
  /\ UNCHANGED <<vec, info, work>>

\* A wait that forgets to reset what it took.
WaitedManual ==
  /\ starter.at = "wait"
  /\ hCreate = "set"
  /\ vec' = Append(vec, starter.i)
  /\ IF starter.i < ThreadCount
     THEN /\ starter' = [at |-> "create", i |-> starter.i + 1]
          /\ UNCHANGED hCreate
     ELSE /\ starter' = [starter EXCEPT !.at = "started"]
          /\ hCreate' = "closed"
  /\ UNCHANGED <<info, work>>

\* WaitForSingleObject, ResetEvent and push_back; CloseHandle at the end.
Waited ==
  /\ starter.at = "wait"
  /\ hCreate = "set"
  /\ vec' = Append(vec, starter.i)
  /\ IF starter.i < ThreadCount
     THEN /\ starter' = [at |-> "create", i |-> starter.i + 1]
          /\ hCreate' = "reset"
     ELSE /\ starter' = [starter EXCEPT !.at = "started"]
          /\ hCreate' = "closed"
  /\ UNCHANGED <<info, work>>

\* ~CNWHandler
Destroy ==
  /\ starter.at = "started"
  /\ starter' = [starter EXCEPT !.at = "destroy"]
  /\ UNCHANGED <<hCreate, vec, info, work>>

\* destroyWorkerThread(NULL), for each record: bActive is cleared, then the
\* record is deleted.  The thread is not waited for.
destroyWorkerThread ==
  /\ starter.at = "destroy"
  /\ IF vec = <<>>
     THEN /\ starter' = [starter EXCEPT !.at = "destroyed"]
          /\ UNCHANGED <<vec, info>>
     ELSE /\ info' = [info EXCEPT ![Head(vec)] = IF @ = "active" THEN "inactive" ELSE "freed"]
          /\ vec' = IF info[Head(vec)] = "active" THEN vec ELSE Tail(vec)
          /\ UNCHANGED starter
  /\ UNCHANGED <<hCreate, work>>

\* A worker that enters its loop without a word.
BeginSilent(n) ==
  /\ work[n] = "begin"
  /\ work' = [work EXCEPT ![n] = "test"]
  /\ UNCHANGED <<starter, hCreate, vec, info>>

\* WorkerThread: SetEvent
Begin(n) ==
  /\ work[n] = "begin"
  /\ hCreate' = IF hCreate = "closed" THEN "closed" ELSE "set"
  /\ work' = [work EXCEPT ![n] = "test"]
  /\ UNCHANGED <<starter, vec, info>>

\* while (pthInfo->bActive): memory that was freed may hold anything.
Test(n) ==
  /\ work[n] = "test"
  /\ work' = [work EXCEPT ![n] = IF info[n] = "inactive" THEN "gone" ELSE "wait"]
  /\ UNCHANGED <<starter, hCreate, vec, info>>

TestFreed(n) ==
  /\ work[n] = "test" /\ info[n] = "freed"
  /\ work' = [work EXCEPT ![n] = "gone"]
  /\ UNCHANGED <<starter, hCreate, vec, info>>

\* A completion is dequeued and processed, or a null one is logged.
Process(n) ==
  /\ work[n] = "wait"
  /\ work' = [work EXCEPT ![n] = "test"]
  /\ UNCHANGED <<starter, hCreate, vec, info>>

Worker(n) == Begin(n) \/ Test(n) \/ TestFreed(n) \/ Process(n)

Starter == start \/ Create \/ CreateFailed \/ Waited \/ Destroy \/ destroyWorkerThread

Next == Starter \/ \E n \in Seqs : Worker(n)

----------------------------------------------------------------------------
\* The record of the thread being created is not in the vector yet, every
\* other one is: start waits for one thread at a time, so when it goes on to
\* the next all threads before it have passed SetEvent and reached their loop.
StartedInTurn ==
  starter.at \in {"create", "wait", "started"} =>
    \A n \in Seqs : (\E k \in DOMAIN vec : vec[k] = n) =>
      work[n] \notin {"none", "begin"}

\* start returns: the signal of the thread it waits for is never lost.
StartReturns == starter.at = "wait" ~> starter.at \in {"create", "started"}
============================================================================
