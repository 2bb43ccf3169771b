------------------------------ MODULE PoolAbs ------------------------------
(***************************************************************************)
(* What a pool of fixed blocks promises its clients: from the moment a     *)
(* request is given a block until the block is free again, it belongs to   *)
(* that request, then to the clients, then to the call that returns it,    *)
(* and nobody else can be given it; a request that gets no block is served *)
(* from the heap or fails.  The pool of the library (CMemPool) is shown to *)
(* implement it.                                                           *)
(***************************************************************************)
EXTENDS Naturals

CONSTANTS Clients,  \* threads that call the pool
          Blocks,   \* the blocks of the pool
          NoBlock,  \* not a block
          HeapMax   \* bound on the heap blocks outstanding

VARIABLES out,      \* the blocks that clients hold
          claim,    \* the block each call in progress takes or gives back
          extra     \* number of heap blocks that clients hold

vars == <<out, claim, extra>>

Init ==
  /\ out = {}
  /\ claim = [c \in Clients |-> NoBlock]
  /\ extra = 0

\* A request is given a block that is free: held by no client and claimed by
\* no call.
Take(c, b) ==
  /\ claim[c] = NoBlock
  /\ b \notin out
  /\ \A d \in Clients : claim[d] # b
  /\ claim' = [claim EXCEPT ![c] = b]
  /\ UNCHANGED <<out, extra>>

Deliver(c) ==
  /\ claim[c] # NoBlock
  /\ out' = out \cup {claim[c]}
  /\ claim' = [claim EXCEPT ![c] = NoBlock]
  /\ UNCHANGED extra

GiveBack(c, b) ==
  /\ claim[c] = NoBlock
  /\ b \in out
  /\ out' = out \ {b}
  /\ claim' = [claim EXCEPT ![c] = b]
  /\ UNCHANGED extra

Free(c) ==
  /\ claim[c] # NoBlock
  /\ claim' = [claim EXCEPT ![c] = NoBlock]
  /\ UNCHANGED <<out, extra>>

TakeHeap ==
  /\ extra < HeapMax
  /\ extra' = extra + 1
  /\ UNCHANGED <<out, claim>>

GiveBackHeap ==
  /\ extra > 0
  /\ extra' = extra - 1
  /\ UNCHANGED <<out, claim>>

Next ==
  \/ \E c \in Clients :
       \/ \E b \in Blocks : Take(c, b) \/ GiveBack(c, b)
       \/ Deliver(c)
       \/ Free(c)
  \/ TakeHeap
  \/ GiveBackHeap

Spec == Init /\ [][Next]_vars
============================================================================
