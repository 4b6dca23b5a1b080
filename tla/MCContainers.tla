---------------------------- MODULE MCContainers ----------------------------
(* Queues of one to four slots, lists of up to four nodes, arrays and maps *)
(* of up to three elements.                                                *)
EXTENDS Containers

OneToThree == 1..3
OneToFour  == 1..4
=============================================================================
