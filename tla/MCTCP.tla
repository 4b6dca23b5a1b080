------------------------------- MODULE MCTCP --------------------------------
(* The client and the server of the example. *)
EXTENDS TCP

CONSTANT c1

OneClient == {c1}
OneOrTwo  == {1, 2}
=============================================================================
