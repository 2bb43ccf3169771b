------------------------------ MODULE MemList ------------------------------
(***************************************************************************)
(* CMemList (common/include/comTList.h 22-305), the "thread safty list"    *)
(* with "multiple add, multiple pop" that keeps the connected sockets, the *)
(* timers of a scheduler and the free command lists of the redis client.   *)
(* A cell has a flag: 0 empty, 1 being filled or emptied, 2 filled.  One   *)
(* action is one access to memory the threads share.                       *)
(***************************************************************************)
EXTENDS Integers, FiniteSets

CONSTANTS Threads,    \* threads that use the list
          Objs,       \* objects that are put into it
          NULL,       \* the null pointer
          MaxCount,   \* m_nMaxCount
          Uses,       \* ways to use a list: which threads, objects and calls, and
                      \* the objects that setObj puts into the first cells
          FirstIdx    \* what the memory of m_nEmptyFirstIdx may hold at first

Cells == 0 .. MaxCount - 1

\* add may store one cell past the arrays: that memory is cell MaxCount.
Memory == 0 .. MaxCount

VARIABLES
  arr,         \* m_pArray
  flag,        \* m_nFlagArray
  cur,         \* m_nCurCount
  emptyFirst,  \* m_nEmptyFirstIdx
  pc,          \* next step of each thread
  obj,         \* argument of add and del, result of pop
  idx,         \* nAddIdx of add, i of pop, del and _del
  i,           \* loop counter of add
  st,          \* where an object is for its users: out, adding, in, leaving
  use          \* how this list is used

\* What a step of a local variable leaves alone.
shared == <<arr, flag, cur, emptyFirst, use>>
vars == <<arr, flag, cur, emptyFirst, pc, obj, idx, i, st, use>>

\* The list after alloc, and after setObj of the prefilled objects in order.
\* alloc does not initialise m_nEmptyFirstIdx.
Init ==
  /\ use \in Uses
  /\ flag = [c \in Memory |-> IF c < Cardinality(use.first) THEN 2 ELSE 0]
  /\ arr \in [Memory -> use.first \cup {NULL}]
  /\ \A c \in Memory : arr[c] = NULL <=> flag[c] = 0
  /\ \A c, d \in Memory : flag[c] = 2 /\ arr[c] = arr[d] => c = d
  /\ cur = Cardinality(use.first)
  /\ emptyFirst \in FirstIdx
  /\ pc = [t \in Threads |-> "idle"]
  /\ obj = [t \in Threads |-> NULL]
  /\ idx = [t \in Threads |-> 0]
  /\ i = [t \in Threads |-> 0]
  /\ st = [o \in Objs |-> IF o \in use.first THEN "in" ELSE "out"]

MayCall(t, op) == pc[t] = "idle" /\ t \in use.threads /\ op \in use.calls

Goto(t, label) == pc' = [pc EXCEPT ![t] = label]

\* The call is over; the locals no longer matter.
Return(t) ==
  /\ Goto(t, "idle")
  /\ obj' = [obj EXCEPT ![t] = NULL]
  /\ idx' = [idx EXCEPT ![t] = 0]
  /\ i' = [i EXCEPT ![t] = 0]

----------------------------------------------------------------------------
(* add: try the cell of the hint, then scan from m_nCurCount.              *)

add(t, o) ==
  /\ MayCall(t, "add")
  /\ o \in use.objs
  /\ st[o] = "out"
  /\ st' = [st EXCEPT ![o] = "adding"]
  /\ obj' = [obj EXCEPT ![t] = o]
  /\ idx' = [idx EXCEPT ![t] = emptyFirst]
  /\ Goto(t, IF 0 <= emptyFirst THEN "hint" ELSE "start")
  /\ UNCHANGED <<shared, i>>

AddHint(t) ==
  /\ pc[t] = "hint"
  /\ Goto(t, IF flag[idx[t]] = 0 THEN "hintcas" ELSE "start")
  /\ UNCHANGED <<shared, obj, idx, i, st>>

\* atomic_compare_exchange as a plain store.
ClaimBlind(t, won, lost) ==
  /\ \/ flag' = [flag EXCEPT ![idx[t]] = 1] /\ won
     \/ flag[idx[t]] # 0 /\ UNCHANGED flag /\ lost
  /\ UNCHANGED <<arr, cur, emptyFirst, obj, st, use>>

\* atomic_compare_exchange(1, 0) on the thread's cell.
Claim(t, won, lost) ==
  /\ \/ flag[idx[t]] = 0 /\ flag' = [flag EXCEPT ![idx[t]] = 1] /\ won
     \/ flag[idx[t]] # 0 /\ UNCHANGED flag /\ lost
  /\ UNCHANGED <<arr, cur, emptyFirst, obj, st, use>>

AddHintCas(t) ==
  /\ pc[t] = "hintcas"
  /\ Claim(t, Goto(t, "hintset"), Goto(t, "start"))
  /\ UNCHANGED <<idx, i>>

AddHintSet(t) ==
  /\ pc[t] = "hintset"
  /\ emptyFirst' = -1
  /\ Goto(t, "store")
  /\ UNCHANGED <<arr, flag, cur, obj, idx, i, st, use>>

AddStart(t) ==
  /\ pc[t] = "start"
  /\ idx' = [idx EXCEPT ![t] = cur]
  /\ i' = [i EXCEPT ![t] = 0]
  /\ Goto(t, "loop")
  /\ UNCHANGED <<shared, obj, st>>

\* A full list is an error; a loop that ends falls into ADD_SUCCESS.
AddLoop(t) ==
  /\ pc[t] = "loop"
  /\ i[t] < MaxCount => cur < MaxCount
  /\ IF i[t] < MaxCount
     THEN /\ Goto(t, "test")
          /\ idx' = [idx EXCEPT ![t] = IF @ = MaxCount THEN 0 ELSE @]
     ELSE Goto(t, "store") /\ UNCHANGED idx
  /\ UNCHANGED <<shared, obj, i, st>>

AddFull(t) ==
  /\ pc[t] = "loop"
  /\ i[t] < MaxCount
  /\ MaxCount <= cur
  /\ st' = [st EXCEPT ![obj[t]] = "out"]
  /\ Return(t)
  /\ UNCHANGED shared

AddNextCell(t) ==
  /\ idx' = [idx EXCEPT ![t] = @ + 1]
  /\ i' = [i EXCEPT ![t] = @ + 1]
  /\ Goto(t, "loop")

AddTest(t) ==
  /\ pc[t] = "test"
  /\ IF flag[idx[t]] = 0
     THEN Goto(t, "cas") /\ UNCHANGED <<idx, i>>
     ELSE AddNextCell(t)
  /\ UNCHANGED <<shared, obj, st>>

AddCas(t) ==
  /\ pc[t] = "cas"
  /\ Claim(t, Goto(t, "store") /\ UNCHANGED <<idx, i>>, AddNextCell(t))

AddStore(t) ==
  /\ pc[t] = "store"
  /\ arr' = [arr EXCEPT ![idx[t]] = obj[t]]
  /\ Goto(t, "publish")
  /\ UNCHANGED <<flag, cur, emptyFirst, obj, idx, i, st, use>>

AddPublish(t) ==
  /\ pc[t] = "publish"
  /\ flag' = [flag EXCEPT ![idx[t]] = 2]
  /\ Goto(t, "count")
  /\ UNCHANGED <<arr, cur, emptyFirst, obj, idx, i, st, use>>

\* The object may have been popped already, between its flag and its count.
AddCount(t) ==
  /\ pc[t] = "count"
  /\ cur' = cur + 1
  /\ st' = [st EXCEPT ![obj[t]] = IF @ = "adding" THEN "in" ELSE @]
  /\ Return(t)
  /\ UNCHANGED <<arr, flag, emptyFirst, use>>

----------------------------------------------------------------------------
pop(t) ==
  /\ MayCall(t, "pop")
  /\ Goto(t, "popscan")
  /\ idx' = [idx EXCEPT ![t] = 0]
  /\ UNCHANGED <<shared, obj, i, st>>

PopScan(t) ==
  /\ pc[t] = "popscan"
  /\ \/ /\ idx[t] = MaxCount
        /\ Return(t)
     \/ /\ idx[t] < MaxCount
        /\ IF flag[idx[t]] = 2
           THEN Goto(t, "popcas") /\ UNCHANGED idx
           ELSE idx' = [idx EXCEPT ![t] = @ + 1] /\ UNCHANGED pc
        /\ UNCHANGED <<obj, i>>
  /\ UNCHANGED <<shared, st>>

PopCas(t) ==
  /\ pc[t] = "popcas"
  /\ IF flag[idx[t]] = 2
     THEN /\ flag' = [flag EXCEPT ![idx[t]] = 1]
          /\ st' = [st EXCEPT ![arr[idx[t]]] = "leaving"]
          /\ Goto(t, "popread")
          /\ UNCHANGED idx
     ELSE /\ idx' = [idx EXCEPT ![t] = @ + 1]
          /\ Goto(t, "popscan")
          /\ UNCHANGED <<flag, st>>
  /\ UNCHANGED <<arr, cur, emptyFirst, obj, i, use>>

PopRead(t) ==
  /\ pc[t] = "popread"
  /\ obj' = [obj EXCEPT ![t] = arr[idx[t]]]
  /\ Goto(t, "mark")
  /\ UNCHANGED <<shared, idx, i, st>>

----------------------------------------------------------------------------
\* del(T*): a user takes an object off the list once, or asks for an object
\* that was never on it.  An emptied cell keeps its pointer and del does not
\* look at the flag, so users have to wait until no such cell holds the object.
del(t, o) ==
  /\ MayCall(t, "del")
  /\ o \in use.objs
  /\ st[o] \in {"in", "out"}
  /\ \A c \in Memory : arr[c] = o => flag[c] = 2
  /\ st' = [st EXCEPT ![o] = "leaving"]
  /\ obj' = [obj EXCEPT ![t] = o]
  /\ idx' = [idx EXCEPT ![t] = 0]
  /\ Goto(t, "find")
  /\ UNCHANGED <<shared, i>>

\* The first cell that holds the pointer, whatever its flag.
DelFind(t) ==
  /\ pc[t] = "find"
  /\ \/ /\ idx[t] = MaxCount
        /\ st' = [st EXCEPT ![obj[t]] = "out"]
        /\ Return(t)
     \/ /\ idx[t] < MaxCount
        /\ IF arr[idx[t]] = obj[t]
           THEN Goto(t, "mark") /\ UNCHANGED idx
           ELSE idx' = [idx EXCEPT ![t] = @ + 1] /\ UNCHANGED pc
        /\ UNCHANGED <<obj, i, st>>
  /\ UNCHANGED shared

----------------------------------------------------------------------------
(* _del, the end of pop and del.  The array keeps the pointer.             *)

Mark(t) ==
  /\ pc[t] = "mark"
  /\ flag' = [flag EXCEPT ![idx[t]] = 1]
  /\ Goto(t, "empty")
  /\ UNCHANGED <<arr, cur, emptyFirst, obj, idx, i, st, use>>

EmptyTest(t) ==
  /\ pc[t] = "empty"
  /\ Goto(t, IF emptyFirst < 0 \/ idx[t] < emptyFirst THEN "emptyset" ELSE "uncount")
  /\ UNCHANGED <<shared, obj, idx, i, st>>

EmptySet(t) ==
  /\ pc[t] = "emptyset"
  /\ emptyFirst' = idx[t]
  /\ Goto(t, "uncount")
  /\ UNCHANGED <<arr, flag, cur, obj, idx, i, st, use>>

\* _del without atomic_decrement.
UncountDropped(t) ==
  /\ pc[t] = "uncount"
  /\ cur' = cur
  /\ Goto(t, "release")
  /\ UNCHANGED <<arr, flag, emptyFirst, obj, idx, i, st, use>>

Uncount(t) ==
  /\ pc[t] = "uncount"
  /\ cur' = cur - 1
  /\ Goto(t, "release")
  /\ UNCHANGED <<arr, flag, emptyFirst, obj, idx, i, st, use>>

\* _del that leaves the flag of a filled cell.
ReleaseFilled(t) ==
  /\ pc[t] = "release"
  /\ flag' = [flag EXCEPT ![idx[t]] = 2]
  /\ st' = [st EXCEPT ![obj[t]] = "out"]
  /\ Return(t)
  /\ UNCHANGED <<arr, cur, emptyFirst, use>>

Release(t) ==
  /\ pc[t] = "release"
  /\ flag' = [flag EXCEPT ![idx[t]] = 0]
  /\ st' = [st EXCEPT ![obj[t]] = "out"]
  /\ Return(t)
  /\ UNCHANGED <<arr, cur, emptyFirst, use>>

----------------------------------------------------------------------------
Call(t) == pop(t) \/ \E o \in Objs : add(t, o) \/ del(t, o)

Step(t) ==
  \/ AddHint(t) \/ AddHintCas(t) \/ AddHintSet(t) \/ AddStart(t) \/ AddLoop(t)
  \/ AddFull(t) \/ AddTest(t) \/ AddCas(t) \/ AddStore(t) \/ AddPublish(t)
  \/ AddCount(t) \/ PopScan(t) \/ PopCas(t) \/ PopRead(t) \/ DelFind(t)
  \/ Mark(t) \/ EmptyTest(t) \/ EmptySet(t) \/ Uncount(t) \/ Release(t)

Next == \E t \in Threads : Call(t) \/ Step(t)

Spec == Init /\ [][Next]_vars

----------------------------------------------------------------------------
Filled == {c \in Cells : flag[c] = 2}
At(labels) == {t \in Threads : pc[t] \in labels}

\* Calls that have taken a cell out of Filled and not yet counted it off.
Emptying ==
  At({"popread", "empty", "emptyset", "uncount"})
    \cup {t \in At({"mark"}) : flag[idx[t]] = 1}

\* add stores an object only into a cell of the array that it has claimed and
\* that no other call is filling or emptying (ADD_SUCCESS, line 239).
AddOwnsCell ==
  \A t \in At({"store", "publish"}) :
    /\ idx[t] \in Cells
    /\ flag[idx[t]] = 1
    /\ \A u \in At({"hintset", "store", "publish", "popread", "mark", "empty",
                    "emptyset", "uncount", "release"}) : idx[u] = idx[t] => u = t

\* A filled cell holds an object that is on the list, and no object is in two
\* filled cells: what was popped or deleted is not found by getNext again.
ListedOnce ==
  /\ \A c \in Filled : \/ st[arr[c]] \in {"adding", "in"}
                        \/ \E t \in At({"find", "mark"}) : obj[t] = arr[c]
  /\ \A c, d \in Filled : arr[c] = arr[d] => c = d

\* size() differs from the number of filled cells only by the calls that are
\* between a flag and the counter.
SizeExact ==
  cur = Cardinality(Filled) - Cardinality(At({"count"})) + Cardinality(Emptying)
============================================================================
