---------------------------- MODULE MCLogWriter -----------------------------
(* Instances of LogWriter for TLC. *)
EXTENDS LogWriter

CONSTANTS w1, w2, l1, l2

OneWriter == [l \in Loggers |-> w1]
=============================================================================
