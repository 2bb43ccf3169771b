------------------------------ MODULE MemPool ------------------------------
(***************************************************************************)
(* CMemPool (common/include/comMemPool.h), the pool "FOR THREAD SAFTY"     *)
(* under sockets, overlapped events, timers and queue events.  A block has *)
(* a flag taken by compare-and-swap; a counter of used blocks and a hint   *)
(* where to start scanning are kept beside the flags, each updated in a    *)
(* step of its own.  One action is one atomic access to shared memory.     *)
(*                                                                         *)
(* The clients obey the pool's contract: a block is given to delMem once,  *)
(* by whichever thread holds the pointer then.                             *)
(***************************************************************************)
EXTENDS Integers, FiniteSets

CONSTANTS Threads,     \* threads that share the pool
          AllocCount,  \* m_nAllocCount
          MaxHeap      \* bound on the blocks outstanding from the heap

ASSUME ThreadsAssumption    == IsFiniteSet(Threads)
ASSUME AllocCountAssumption == AllocCount \in Nat
ASSUME MaxHeapAssumption    == MaxHeap \in Nat

Slots == 0 .. AllocCount - 1

VARIABLES
  flag,       \* m_nFlagArray
  useCnt,     \* m_nUseCnt
  lastCount,  \* m_nLastCount
  held,       \* blocks whose pointer some client holds
  heap,       \* number of heap blocks clients hold
  pc,         \* next step of each thread
  op,         \* the overload of newMem a thread runs
  idx,        \* local i of newMem, nIdx of delMem
  cnt         \* local j of newMem

vars == <<flag, useCnt, lastCount, held, heap, pc, op, idx, cnt>>

Ops == {"newMem", "newMemKey"}
PCs == {"idle", "full", "scan", "cas", "inc", "last", "clear", "dec"}

\* The pool after alloc(nMaxCount), which ends in clear().
Init ==
  /\ flag = [s \in Slots |-> 0]
  /\ useCnt = 0
  /\ lastCount = 0
  /\ held = {}
  /\ heap = 0
  /\ pc = [t \in Threads |-> "idle"]
  /\ op = [t \in Threads |-> "newMem"]
  /\ idx = [t \in Threads |-> 0]
  /\ cnt = [t \in Threads |-> 0]

----------------------------------------------------------------------------
(* newMem() and newMem(int *nKey) differ in what they do when they find    *)
(* the pool full: the first takes a block from the heap, the second only   *)
(* marks its key and, when its scan finds nothing, returns NULL.           *)

\* Both overloads start by reading the hint.
newMem(t, o) ==
  /\ pc[t] = "idle"
  /\ op' = [op EXCEPT ![t] = o]
  /\ idx' = [idx EXCEPT ![t] = lastCount]
  /\ cnt' = [cnt EXCEPT ![t] = 0]
  /\ pc' = [pc EXCEPT ![t] = "full"]
  /\ UNCHANGED <<flag, useCnt, lastCount, held, heap>>

\* new (std::nothrow) or calloc: a block, or NULL.
unit_alloc(t) ==
  /\ heap' = heap \/ (heap < MaxHeap /\ heap' = heap + 1)
  /\ pc' = [pc EXCEPT ![t] = "idle"]
  /\ UNCHANGED <<flag, useCnt, lastCount, held, op, idx, cnt>>

FullFallback(t) ==
  /\ pc[t] = "full"
  /\ op[t] = "newMem"
  /\ useCnt = AllocCount
  /\ unit_alloc(t)

FullPassed(t) ==
  /\ pc[t] = "full"
  /\ op[t] = "newMem" => useCnt # AllocCount
  /\ pc' = [pc EXCEPT ![t] = "scan"]
  /\ UNCHANGED <<flag, useCnt, lastCount, held, heap, op, idx, cnt>>

\* i++ and j++ of the loop, with i at index s.
Advance(t, s) ==
  /\ idx' = [idx EXCEPT ![t] = s + 1]
  /\ cnt' = [cnt EXCEPT ![t] = @ + 1]

Scan(t) ==
  LET s == IF idx[t] >= AllocCount THEN 0 ELSE idx[t]
  IN /\ pc[t] = "scan"
     /\ cnt[t] < AllocCount
     /\ \/ /\ flag[s] = 0
           /\ idx' = [idx EXCEPT ![t] = s]
           /\ pc' = [pc EXCEPT ![t] = "cas"]
           /\ UNCHANGED cnt
        \/ /\ flag[s] # 0
           /\ Advance(t, s)
           /\ UNCHANGED pc
     /\ UNCHANGED <<flag, useCnt, lastCount, held, heap, op>>

ScanEnd(t) ==
  /\ pc[t] = "scan"
  /\ cnt[t] >= AllocCount
  /\ \/ /\ op[t] = "newMem"
        /\ unit_alloc(t)
     \/ /\ op[t] = "newMemKey"
        /\ pc' = [pc EXCEPT ![t] = "idle"]
        /\ UNCHANGED <<flag, useCnt, lastCount, held, heap, op, idx, cnt>>

\* Cas as a plain store after the test.
CasBlind(t) ==
  /\ pc[t] = "cas"
  /\ flag' = [flag EXCEPT ![idx[t]] = 1]
  /\ pc' = [pc EXCEPT ![t] = "inc"]
  /\ UNCHANGED <<useCnt, lastCount, held, heap, op, idx, cnt>>

\* Cas that tries the same cell again without counting.
CasRetry(t) ==
  /\ pc[t] = "cas"
  /\ \/ /\ flag[idx[t]] = 0
        /\ flag' = [flag EXCEPT ![idx[t]] = 1]
        /\ pc' = [pc EXCEPT ![t] = "inc"]
        /\ UNCHANGED <<idx, cnt>>
     \/ /\ flag[idx[t]] # 0
        /\ pc' = [pc EXCEPT ![t] = "scan"]
        /\ UNCHANGED <<flag, idx, cnt>>
  /\ UNCHANGED <<useCnt, lastCount, held, heap, op>>

Cas(t) ==
  /\ pc[t] = "cas"
  /\ \/ /\ flag[idx[t]] = 0
        /\ flag' = [flag EXCEPT ![idx[t]] = 1]
        /\ pc' = [pc EXCEPT ![t] = "inc"]
        /\ UNCHANGED <<idx, cnt>>
     \/ /\ flag[idx[t]] # 0
        /\ Advance(t, idx[t])
        /\ pc' = [pc EXCEPT ![t] = "scan"]
        /\ UNCHANGED flag
  /\ UNCHANGED <<useCnt, lastCount, held, heap, op>>

\* newMem without atomic_increment.
IncrementDropped(t) ==
  /\ pc[t] = "inc"
  /\ useCnt' = useCnt
  /\ pc' = [pc EXCEPT ![t] = "last"]
  /\ UNCHANGED <<flag, lastCount, held, heap, op, idx, cnt>>

Increment(t) ==
  /\ pc[t] = "inc"
  /\ useCnt' = useCnt + 1
  /\ pc' = [pc EXCEPT ![t] = "last"]
  /\ UNCHANGED <<flag, lastCount, held, heap, op, idx, cnt>>

\* The hint is stored and the block returned to the caller.
SetLast(t) ==
  /\ pc[t] = "last"
  /\ lastCount' = idx[t]
  /\ held' = held \cup {idx[t]}
  /\ pc' = [pc EXCEPT ![t] = "idle"]
  /\ UNCHANGED <<flag, useCnt, heap, op, idx, cnt>>

----------------------------------------------------------------------------
\* delMem of a block of the chunk: its holder gives the pointer up.
delMem(t) ==
  /\ pc[t] = "idle"
  /\ \E s \in held :
       /\ held' = held \ {s}
       /\ idx' = [idx EXCEPT ![t] = s]
  /\ pc' = [pc EXCEPT ![t] = "clear"]
  /\ UNCHANGED <<flag, useCnt, lastCount, heap, op, cnt>>

\* delMem of a heap block frees it.
delMemHeap(t) ==
  /\ pc[t] = "idle"
  /\ heap > 0
  /\ heap' = heap - 1
  /\ UNCHANGED <<flag, useCnt, lastCount, held, pc, op, idx, cnt>>

ClearFlag(t) ==
  /\ pc[t] = "clear"
  /\ flag' = [flag EXCEPT ![idx[t]] = 0]
  /\ pc' = [pc EXCEPT ![t] = "dec"]
  /\ UNCHANGED <<useCnt, lastCount, held, heap, op, idx, cnt>>

Decrement(t) ==
  /\ pc[t] = "dec"
  /\ useCnt' = useCnt - 1
  /\ pc' = [pc EXCEPT ![t] = "idle"]
  /\ UNCHANGED <<flag, lastCount, held, heap, op, idx, cnt>>

----------------------------------------------------------------------------
Call(t) == (\E o \in Ops : newMem(t, o)) \/ delMem(t) \/ delMemHeap(t)

Step(t) ==
  \/ FullFallback(t) \/ FullPassed(t)
  \/ Scan(t) \/ ScanEnd(t) \/ Cas(t) \/ Increment(t) \/ SetLast(t)
  \/ ClearFlag(t) \/ Decrement(t)

Next == \E t \in Threads : Call(t) \/ Step(t)

Spec == Init /\ [][Next]_vars

\* A thread inside a pool operation keeps running; no one has to call.
FairSpec == Spec /\ \A t \in Threads : WF_vars(Step(t))

----------------------------------------------------------------------------
\* Threads between the compare-and-swap and the return, or between entering
\* delMem and clearing the flag: they own a block that no client holds.
InFlight == {t \in Threads : pc[t] \in {"inc", "last", "clear"}}

UsedSlots == {s \in Slots : flag[s] = 1}
AtInc == {t \in Threads : pc[t] = "inc"}
AtDec == {t \in Threads : pc[t] = "dec"}

GETREMAINCOUNT == AllocCount - useCnt

\* The variables of the pool and of the threads in it have their types.
TypeOK ==
  /\ flag \in [Slots -> {0, 1}]
  /\ useCnt \in Int
  /\ lastCount \in 0 .. AllocCount
  /\ held \in SUBSET Slots
  /\ heap \in 0 .. MaxHeap
  /\ pc \in [Threads -> PCs]
  /\ op \in [Threads -> Ops]
  /\ idx \in [Threads -> 0 .. AllocCount]
  /\ cnt \in [Threads -> 0 .. AllocCount]

\* A block belongs to one party at a time: the block a newMem has won, or a
\* delMem is returning, is held by no client and by no other thread.
Exclusive ==
  /\ \A t \in InFlight : idx[t] \in Slots \ held
  /\ \A t, u \in InFlight : idx[t] = idx[u] => t = u

\* A flag is set exactly while somebody owns its block: nothing leaks and
\* nothing in use looks free, whatever the order of newMem and delMem.
FlagsMatchOwners ==
  \A s \in Slots : flag[s] = 1 <=> s \in held \/ \E t \in InFlight : idx[t] = s

\* The use counter trails the flags by the calls caught between the flag and
\* the counter, and by nothing else (newMem 165-167, delMem 211-212).
UseCountExact ==
  useCnt = Cardinality(UsedSlots) - Cardinality(AtInc) + Cardinality(AtDec)

\* GETREMAINCOUNT, from which the session manager decides how many accepts to
\* post, may fall below zero, but by no more than the delMem calls in progress.
RemainBounds ==
  GETREMAINCOUNT \in - Cardinality(AtDec) .. AllocCount

\* newMem and delMem are bounded scans: a call returns whatever others do.
CallsReturn == \A t \in Threads : pc[t] # "idle" ~> pc[t] = "idle"

\* The block of the call a thread is in: from the compare-and-swap of newMem
\* to its return, and from the call of delMem to the flag.
Claim == [t \in Threads |-> IF t \in InFlight THEN idx[t] ELSE AllocCount]

Abs == INSTANCE PoolAbs WITH Clients <- Threads, Blocks <- Slots,
                             NoBlock <- AllocCount, HeapMax <- MaxHeap,
                             out <- held, claim <- Claim, extra <- heap

\* The pool implements the allocator its clients rely on: the successful
\* compare-and-swap takes a free block, clearing the flag frees it, and no
\* other step of newMem or delMem moves a block.
ImplementsPool == Abs!Spec
============================================================================
