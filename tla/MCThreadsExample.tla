-------------------------- MODULE MCThreadsExample --------------------------
(* Three threads, and wait() reporting one event at a time. *)
EXTENDS ThreadsExample

ThreeThreads == 1 .. 3
MainOnly     == {Main}
=============================================================================
