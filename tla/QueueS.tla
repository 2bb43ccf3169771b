------------------------------- MODULE QueueS -------------------------------
(***************************************************************************)
(* CQueueS (common/include/comQueue.h, common/src/comQueue.cpp): the event *)
(* queue of the worker threads and of the log writers.  Many threads push, *)
(* one thread pops.  A ring that is full is followed by a ring of twice    *)
(* its size; the consumer drops a ring it finds empty when there is a      *)
(* later one.  The rings are kept on a CSList, which has no lock, and a    *)
(* ring counts its items in a plain int that both sides update.            *)
(***************************************************************************)
EXTENDS Integers, Sequences, FiniteSets

CONSTANTS Pushers,     \* threads that push
          Consumer,    \* the one thread that pops
          NULL,        \* no item, no ring
          Cap,         \* nMaxCount given to alloc
          MaxRings,    \* bound: calloc of a later ring fails
          MaxPush      \* bound on the number of pushes, by whether calls overlap

Threads == Pushers \cup {Consumer}

VARIABLES
  rings,    \* the rings made so far, the first by alloc
  pq,       \* m_pQueue: number of a ring, or NULL
  qlist,    \* m_pQueueList: the rings the consumer walks, oldest first
  listUse,  \* m_nUse of m_pQueueList
  realloc,  \* m_nRealloc
  cs,       \* holder of m_CS, or NULL
  lock,     \* holder of the spin lock m_cLockPush, or NULL
  pc,       \* next step of each thread
  ring,     \* the ring a thread works on
  item,     \* argument of push
  tmp,      \* value of a counter read and not yet written back
  pushed,   \* number of push calls
  popped,   \* what pop returned, NULL results left out
  overlap   \* FALSE: the calls of this queue are made one after the other

qvars == <<rings, pq, qlist, listUse, realloc>>
vars == <<rings, pq, qlist, listUse, realloc, cs, lock, pc, ring, item, tmp,
          pushed, popped, overlap>>

\* __realloc: a new ring with calloc'ed cells.
NewRing(n) ==
  [nMax |-> n, nFront |-> 0, nLast |-> 0, nUse |-> 0, live |-> TRUE,
   pList |-> [k \in 0 .. n - 1 |-> NULL]]

\* The queue after alloc(Cap), which makes m_pQueue but does not list it.
Init ==
  /\ rings = <<NewRing(Cap)>>
  /\ pq = 1
  /\ qlist = <<>>
  /\ listUse = 0
  /\ realloc = 0
  /\ cs = NULL
  /\ lock = NULL
  /\ pc = [t \in Threads |-> "idle"]
  /\ ring = [t \in Threads |-> NULL]
  /\ item = [t \in Pushers |-> NULL]
  /\ tmp = [t \in Threads |-> 0]
  /\ pushed = 0
  /\ popped = <<>>
  /\ overlap \in BOOLEAN

Goto(t, label) == pc' = [pc EXCEPT ![t] = label]

\* STCOMQueue: an index goes from the last cell to the first.
Wrap(n, max) == IF n = max THEN 0 ELSE n

MayCall(t) == /\ pc[t] = "idle"
              /\ overlap \/ \A u \in Threads : pc[u] = "idle"

----------------------------------------------------------------------------
(* push.  A null m_pQueue, left by a ring that could not be made, would be *)
(* dereferenced by the next push: the program is over then.                *)

push(t) ==
  /\ MayCall(t)
  /\ pushed < MaxPush[overlap]
  /\ pq # NULL
  /\ pushed' = pushed + 1
  /\ item' = [item EXCEPT ![t] = pushed + 1]
  /\ Goto(t, "chk")
  /\ UNCHANGED <<qvars, cs, lock, ring, tmp, popped, overlap>>

PushCheck(t) ==
  /\ pc[t] = "chk"
  /\ Goto(t, IF realloc # 0 THEN "wait" ELSE "full")
  /\ UNCHANGED <<qvars, cs, lock, ring, item, tmp, pushed, popped, overlap>>

isFull(r) == r.nMax = r.nUse

PushFull(t) ==
  /\ pc[t] = "full"
  /\ pq # NULL
  /\ Goto(t, IF isFull(rings[pq]) THEN "cas" ELSE "spin")
  /\ UNCHANGED <<qvars, cs, lock, ring, item, tmp, pushed, popped, overlap>>

PushCas(t) ==
  /\ pc[t] = "cas"
  /\ realloc' = 1
  /\ Goto(t, IF realloc = 0 THEN "grow" ELSE "wait")
  /\ UNCHANGED <<rings, pq, qlist, listUse, cs, lock, ring, item, tmp, pushed, popped, overlap>>

\* m_CS.enter(); m_CS.leave();
PushWait(t) ==
  /\ pc[t] = "wait"
  /\ cs = NULL
  /\ Goto(t, "spin")
  /\ UNCHANGED <<qvars, cs, lock, ring, item, tmp, pushed, popped, overlap>>

\* push that grows without m_CS.
PushEnterOpen(t) ==
  /\ pc[t] = "grow"
  /\ cs' = t
  /\ Goto(t, "alloc")
  /\ UNCHANGED <<qvars, lock, ring, item, tmp, pushed, popped, overlap>>

PushEnter(t) ==
  /\ pc[t] = "grow"
  /\ cs = NULL
  /\ cs' = t
  /\ Goto(t, "alloc")
  /\ UNCHANGED <<qvars, lock, ring, item, tmp, pushed, popped, overlap>>

\* __realloc clears m_nRealloc before the new ring is published.
PushAlloc(t) ==
  /\ pc[t] = "alloc"
  /\ pq # NULL
  /\ Len(rings) < MaxRings
  /\ rings' = Append(rings, NewRing(2 * rings[pq].nMax))
  /\ ring' = [ring EXCEPT ![t] = Len(rings) + 1]
  /\ realloc' = 0
  /\ Goto(t, "assign")
  /\ UNCHANGED <<pq, qlist, listUse, cs, lock, item, tmp, pushed, popped, overlap>>

\* No memory: m_pQueue becomes NULL, m_nRealloc stays set, push fails.
PushNoMemory(t) ==
  /\ pc[t] = "alloc"
  /\ Len(rings) = MaxRings
  /\ pq' = NULL
  /\ cs' = NULL
  /\ Goto(t, "idle")
  /\ UNCHANGED <<rings, qlist, listUse, realloc, lock, ring, item, tmp, pushed, popped, overlap>>

PushAssign(t) ==
  /\ pc[t] = "assign"
  /\ pq' = ring[t]
  /\ Goto(t, "luse")
  /\ UNCHANGED <<rings, qlist, listUse, realloc, cs, lock, ring, item, tmp, pushed, popped, overlap>>

\* CSList::push_back: m_nUse++ reads and writes, then the ring is stored.
PushListUse(t) ==
  /\ pc[t] = "luse"
  /\ tmp' = [tmp EXCEPT ![t] = listUse]
  /\ Goto(t, "ladd")
  /\ UNCHANGED <<qvars, cs, lock, ring, item, pushed, popped, overlap>>

PushListAdd(t) ==
  /\ pc[t] = "ladd"
  /\ listUse' = tmp[t] + 1
  /\ qlist' = Append(qlist, ring[t])
  /\ cs' = NULL
  /\ Goto(t, "spin")
  /\ UNCHANGED <<rings, pq, realloc, lock, ring, item, tmp, pushed, popped, overlap>>

PushLock(t) ==
  /\ pc[t] = "spin"
  /\ lock = NULL
  /\ pq # NULL
  /\ lock' = t
  /\ ring' = [ring EXCEPT ![t] = pq]
  /\ Goto(t, "store")
  /\ UNCHANGED <<qvars, cs, item, tmp, pushed, popped, overlap>>

\* STCOMQueue::push stores, moves nLast and reads nUse.
PushStore(t) ==
  LET r == rings[ring[t]]
  IN /\ pc[t] = "store"
     /\ rings' = [rings EXCEPT ![ring[t]] =
                    [r EXCEPT !.pList[r.nLast] = item[t],
                              !.nLast = Wrap(r.nLast + 1, r.nMax)]]
     /\ tmp' = [tmp EXCEPT ![t] = r.nUse]
     /\ Goto(t, "use")
     /\ UNCHANGED <<pq, qlist, listUse, realloc, cs, lock, ring, item, pushed, popped, overlap>>

PushUse(t) ==
  /\ pc[t] = "use"
  /\ rings' = [rings EXCEPT ![ring[t]].nUse = tmp[t] + 1]
  /\ lock' = NULL
  /\ Goto(t, "idle")
  /\ UNCHANGED <<pq, qlist, listUse, realloc, cs, ring, item, tmp, pushed, popped, overlap>>

----------------------------------------------------------------------------
(* pop, by the consumer alone.                                             *)

pop ==
  /\ MayCall(Consumer)
  /\ \/ /\ qlist = <<>>
        /\ Goto(Consumer, "none")
        /\ UNCHANGED ring
     \/ /\ qlist # <<>>
        /\ ring' = [ring EXCEPT ![Consumer] = Head(qlist)]
        /\ Goto(Consumer, "front")
  /\ UNCHANGED <<qvars, cs, lock, item, tmp, pushed, popped, overlap>>

PopNone ==
  /\ pc[Consumer] = "none"
  /\ Goto(Consumer, "idle")
  /\ UNCHANGED <<qvars, cs, lock, ring, item, tmp, pushed, popped, overlap>>

Mine == rings[ring[Consumer]]
Front(r) == r.pList[r.nFront]

PopFront ==
  /\ pc[Consumer] = "front"
  /\ Goto(Consumer, IF Front(Mine) = NULL THEN "size" ELSE "take")
  /\ UNCHANGED <<qvars, cs, lock, ring, item, tmp, pushed, popped, overlap>>

\* STCOMQueue::pop that leaves the pointer in its cell.
PopTakeKept ==
  LET r == Mine
  IN /\ pc[Consumer] = "take"
     /\ popped' = Append(popped, Front(r))
     /\ rings' = [rings EXCEPT ![ring[Consumer]] =
                    [r EXCEPT !.nFront = Wrap(r.nFront + 1, r.nMax)]]
     /\ tmp' = [tmp EXCEPT ![Consumer] = r.nUse]
     /\ Goto(Consumer, "unuse")
     /\ UNCHANGED <<pq, qlist, listUse, realloc, cs, lock, ring, item, pushed, overlap>>

\* STCOMQueue::pop empties the front cell, moves nFront and reads nUse.
PopTake ==
  LET r == Mine
  IN /\ pc[Consumer] = "take"
     /\ popped' = Append(popped, Front(r))
     /\ rings' = [rings EXCEPT ![ring[Consumer]] =
                    [r EXCEPT !.pList[r.nFront] = NULL,
                              !.nFront = Wrap(r.nFront + 1, r.nMax)]]
     /\ tmp' = [tmp EXCEPT ![Consumer] = r.nUse]
     /\ Goto(Consumer, "unuse")
     /\ UNCHANGED <<pq, qlist, listUse, realloc, cs, lock, ring, item, pushed, overlap>>

PopUnuse ==
  /\ pc[Consumer] = "unuse"
  /\ rings' = [rings EXCEPT ![ring[Consumer]].nUse = tmp[Consumer] - 1]
  /\ Goto(Consumer, "idle")
  /\ UNCHANGED <<pq, qlist, listUse, realloc, cs, lock, ring, item, tmp, pushed, popped, overlap>>

\* pop that drops the last ring too.
PopSizeAny ==
  /\ pc[Consumer] = "size"
  /\ Goto(Consumer, IF 0 < listUse THEN "drop" ELSE "idle")
  /\ UNCHANGED <<qvars, cs, lock, ring, item, tmp, pushed, popped, overlap>>

PopSize ==
  /\ pc[Consumer] = "size"
  /\ Goto(Consumer, IF 1 < listUse THEN "drop" ELSE "idle")
  /\ UNCHANGED <<qvars, cs, lock, ring, item, tmp, pushed, popped, overlap>>

\* CSList::del(nIdx, true) deletes the ring, empties its cell and counts down.
PopDrop ==
  /\ pc[Consumer] = "drop"
  /\ rings' = [rings EXCEPT ![ring[Consumer]].live = FALSE]
  /\ qlist' = Tail(qlist)
  /\ tmp' = [tmp EXCEPT ![Consumer] = listUse]
  /\ Goto(Consumer, "lunuse")
  /\ UNCHANGED <<pq, listUse, realloc, cs, lock, ring, item, pushed, popped, overlap>>

PopListUnuse ==
  /\ pc[Consumer] = "lunuse"
  /\ listUse' = tmp[Consumer] - 1
  /\ Goto(Consumer, "idle")
  /\ UNCHANGED <<rings, pq, qlist, realloc, cs, lock, ring, item, tmp, pushed, popped, overlap>>

----------------------------------------------------------------------------
Push(t) ==
  \/ PushCheck(t) \/ PushFull(t) \/ PushCas(t) \/ PushWait(t) \/ PushEnter(t)
  \/ PushAlloc(t) \/ PushNoMemory(t) \/ PushAssign(t) \/ PushListUse(t)
  \/ PushListAdd(t) \/ PushLock(t) \/ PushStore(t) \/ PushUse(t)

Pop ==
  \/ PopNone \/ PopFront \/ PopTake \/ PopUnuse \/ PopSize \/ PopDrop
  \/ PopListUnuse

Next == \/ \E t \in Pushers : push(t) \/ Push(t)
        \/ pop \/ Pop

Spec == Init /\ [][Next]_vars
----------------------------------------------------------------------------
\* Growth is one at a time however many pushers find the ring full: each ring
\* has twice the cells of the one before, the rings are listed in the order they
\* were made, and pushes go to the newest (push 104-108).
RingsGrowInOrder ==
  /\ \A k \in DOMAIN rings : rings[k].nMax = Cap * 2 ^ (k - 1)
  /\ \A j, k \in DOMAIN qlist : j < k => qlist[j] < qlist[k]
  /\ (\A t \in Pushers : pc[t] # "assign") => pq \in {Len(rings), NULL}

\* No item comes out twice, whatever pushers, growth and consumer do to the
\* rings.
PoppedOnce ==
  \A j, k \in DOMAIN popped : popped[j] = popped[k] => j = k

\* The items of a ring, in the order pop would take them.
Contents(r) == [k \in 1 .. r.nUse |-> r.pList[(r.nFront + k - 1) % r.nMax]]

ListContents ==
  LET f[k \in 0 .. Len(qlist)] ==
        IF k = 0 THEN <<>> ELSE f[k - 1] \o Contents(rings[qlist[k]])
  IN f[Len(qlist)]

\* Calls made one after the other get the items back in order, over
\* wrapping, growing and dropped rings, from the first ring that is listed on:
\* what was popped and what the listed rings hold are the pushes after the
\* first Cap ones.
SoloFifo ==
  ~ overlap /\ (\A t \in Threads : pc[t] = "idle") /\ pq # NULL =>
    LET all == popped \o ListContents
    IN /\ Len(all) = IF pushed > Cap THEN pushed - Cap ELSE 0
       /\ \A k \in DOMAIN all : all[k] = Cap + k
============================================================================
