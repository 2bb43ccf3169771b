---------------------------- MODULE MCComponents ----------------------------
(* The instance of Components for TLC. *)
EXTENDS Components, TLC

CONSTANTS lt1, lt2, l1, l2, l3, l4, OverlapPush, TurnPush

\* six keys, the first with two values
TwoValues == [k \in Keys |-> IF k <= 1 THEN {1, 2} ELSE {1}]

\* classes of 2, 4 and 8 bytes, with few cells
FewCells == (1 :> 1) @@ (2 :> 2) @@ (3 :> 1)

\* packets whose bytes look like lengths
SmallBodies == {<<1>>, <<6, 1>>, <<>>}

\* pools of 4, 8 and more bytes
ByFour(n) == IF n <= 4 THEN 1 ELSE IF n <= 8 THEN 2 ELSE 3

TwoThreads == {lt1, lt2}
FourObjs == {l1, l2, l3, l4}

\* CMemList: two threads that add and pop (the timers) or add and delete (the
\* sessions) fewer objects than there are cells, one thread that fills the list,
\* and one that starts with a filled one (the free lists of the redis client)
Shares(calls) == [threads |-> TwoThreads, objs |-> {l1, l2}, calls |-> calls, first |-> {}]
RoomyUses ==
  {Shares({"add", "pop"}), Shares({"add", "del"}),
   [threads |-> {lt1}, objs |-> FourObjs, calls |-> {"add", "pop", "del"}, first |-> {}],
   [threads |-> {lt1}, objs |-> {l1, l2, l3}, calls |-> {"add", "pop"}, first |-> {l1, l2, l3}]}

\* what alloc may leave in m_nEmptyFirstIdx
AnyIdx == -1 .. MaxCount - 1

\* CQueueS: fewer pushes while calls overlap
PushBounds == (TRUE :> OverlapPush) @@ (FALSE :> TurnPush)
=============================================================================
