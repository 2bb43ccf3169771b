----------------------------- MODULE MCSession -----------------------------
(* Instances of Session for TLC. *)
EXTENDS Session

CONSTANTS w1, w2, k1, c1

OneWorker == {w1}
TwoWorkers == {w1, w2}
OneCloser == {k1}

OneComm == {c1}
AtFirst == [s \in Sessions |-> c1]
ServeFirst == [w \in Workers |-> c1]

NoFaults == {}
RecvFaults == {"recv"}
AllFaults == {"acceptNow", "accept", "recv", "post"}

\* What alloc may leave in m_nEmptyFirstIdx, and some cases of it.
AnyIdx == -1 .. N
NoIdx == {-1}
LastIdx == {N}
============================================================================
