--------------------------- MODULE MCRedisServer ---------------------------
(* The instance of RedisServer for TLC. *)
EXTENDS RedisServer, TLC

CONSTANTS ka, kb

Push(k, v) == [op |-> "push", k |-> k, v |-> v, where |-> "tail"]

\* Transactions that push to several keys, take a push back, move an element,
\* block inside MULTI, and empty a list on the way.
SmallTransactions ==
  {<<Push(ka, 1), Push(kb, 2)>>,
   <<Push(ka, 1), [op |-> "del", k |-> ka]>>,
   <<Push(kb, 1), [op |-> "rpoplpush", k |-> kb, dst |-> ka]>>,
   <<[op |-> "bpop", keys |-> <<ka, kb>>, where |-> "head"], [op |-> "set", k |-> ka]>>,
   <<Push(ka, 2), [op |-> "pop", k |-> ka, where |-> "head"], Push(ka, 1)>>,
   <<[op |-> "brpoplpush", k |-> ka, dst |-> kb], [op |-> "flushdb"]>>}

Symmetry == Permutations(Blockers)
=============================================================================
