----------------------------- MODULE MCMemPool -----------------------------
(* An instance of MemPool for TLC. *)
EXTENDS MemPool

CONSTANTS t1, t2

TwoThreads == {t1, t2}
============================================================================
