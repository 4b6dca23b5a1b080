------------------------------ MODULE MCThread ------------------------------
(* Three callers that share one thread; no wait sets. *)
EXTENDS Thread

CONSTANTS p1, p2, p3, t1

ThreeCallers == {p1, p2, p3}
OneThread    == {t1}
NoWaitSet    == {}
=============================================================================
