-------------------------- MODULE MCEventGenerator --------------------------
(* Three callers of one generator, and a wait set of each kind. *)
EXTENDS EventGenerator

CONSTANTS c1, c2, c3, g1, level, edge

ThreeCallers == {c1, c2, c3}
OneGenerator == {g1}
BothKinds    == {level, edge}
EdgeOnly     == {edge}
=============================================================================
