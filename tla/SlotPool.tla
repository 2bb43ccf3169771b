------------------------------ MODULE SlotPool ------------------------------
(***************************************************************************)
(* CBPoolSlot over CBMemPool (common/include/comBMemPool.h), the single-   *)
(* threaded pool that the tester keeps its events and parameters in: when  *)
(* no pool of the slot list gives memory, a further pool is allocated.  The*)
(* search of CBMemPool::newMem starts at m_nUseCnt and never moves on, so a*)
(* pool may refuse although it has a free cell.                            *)
(***************************************************************************)
EXTENDS Integers, Sequences, FiniteSets

CONSTANTS PerPool,      \* the cells of one CBMemPool
          MaxPools      \* bound: pools

Cell == 0 .. PerPool - 1

VARIABLES slots,        \* m_pList: the flags and m_nUseCnt of each pool
          curSlot,      \* m_nCurIdx
          owned         \* ghost: how often each cell has been given out and not returned

slotVars == <<slots, curSlot, owned>>

NewPool == [flag |-> [c \in Cell |-> FALSE], use |-> 0]

\* CBMemPool::newMem of a pool in a slot list gives the cell m_nUseCnt, or nothing
Gives(p) == p.use < PerPool /\ ~p.flag[p.use]

Taken(p) == [flag |-> [p.flag EXCEPT ![p.use] = TRUE], use |-> p.use + 1]

\* A delMem that does not count.
ReturnedUncounted(p, c) == [p EXCEPT !.flag[c] = FALSE]

\* CBMemPool::delMem of a cell of the pool
Returned(p, c) == [flag |-> [p.flag EXCEPT ![c] = FALSE], use |-> p.use - 1]

Init ==
    /\ slots = <<NewPool>> /\ curSlot = 1
    /\ owned = [s \in 1 .. MaxPools |-> [c \in Cell |-> 0]]

Give(list, s) ==
    /\ slots' = [list EXCEPT ![s] = Taken(list[s])]
    /\ owned' = [owned EXCEPT ![s][list[s].use] = @ + 1]

\* CBPoolSlot::newMem: the current pool, the first one that gives, or a new one
NewMem ==
    LET giving == {s \in DOMAIN slots : Gives(slots[s])}
        first  == CHOOSE s \in giving : \A t \in giving : s <= t
    IN  IF Gives(slots[curSlot]) THEN Give(slots, curSlot) /\ UNCHANGED curSlot
        ELSE IF giving # {} THEN Give(slots, first) /\ curSlot' = first
        ELSE /\ Len(slots) < MaxPools
             /\ Give(Append(slots, NewPool), Len(slots) + 1)
             /\ UNCHANGED curSlot

\* CBPoolSlot::delMem of memory that is in use
DelMem(s, c) ==
    /\ owned[s][c] > 0
    /\ slots' = [slots EXCEPT ![s] = Returned(@, c)]
    /\ owned' = [owned EXCEPT ![s][c] = @ - 1]
    /\ curSlot' = s

Next == NewMem \/ \E s \in DOMAIN slots : \E c \in Cell : DelMem(s, c)

Spec == Init /\ [][Next]_slotVars

-----------------------------------------------------------------------------
\* Properties

\* Whatever is returned in whatever order, newMem gives no cell out twice, and
\* m_nUseCnt, where the search starts, is the number of cells in use: the
\* count and the flags of a pool never drift apart.
SlotMemoryIsOwnedOnce ==
    \A s \in DOMAIN slots :
        /\ \A c \in Cell : owned[s][c] = IF slots[s].flag[c] THEN 1 ELSE 0
        /\ slots[s].use = Cardinality({c \in Cell : owned[s][c] > 0})
=============================================================================
