--------------------------- MODULE MCEventThread ---------------------------
(* An instance of EventThread for TLC. *)
EXTENDS EventThread

CONSTANTS p1, p2, e1, e2, e3

TwoProducers == {p1, p2}
ThreeEvents == {e1, e2, e3}
============================================================================
