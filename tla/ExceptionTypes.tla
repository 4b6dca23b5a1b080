--------------------------- MODULE ExceptionTypes ---------------------------
(***************************************************************************)
(* How the type of a thrown exception is compared with the type that a     *)
(* catch clause names: what genThrowInfo and genCatchInfo put into the     *)
(* constants of the program, and what the runtime makes of it.  An         *)
(* exception type may have a parent, whose clauses catch it as well.       *)
(***************************************************************************)
EXTENDS Integers, Sequences, FiniteSets

CONSTANTS Types, Parent

NoType == "none"

ASSUME ExceptionTypesAssumption ==
    /\ NoType \notin Types /\ IsFiniteSet(Types)
    /\ Parent \in [Types -> Types \cup {NoType}]
    \* No type is its own ancestor: they can be numbered, parents first.
    /\ \E number \in [Types -> 1 .. Cardinality(Types)] :
            \A t \in Types : Parent[t] # NoType => number[Parent[t]] < number[t]

\* genThrowInfo: the names of the type and of its ancestors, the root first.
ThrowInfo[t \in Types] ==
    IF Parent[t] = NoType THEN <<t>> ELSE Append(ThrowInfo[Parent[t]], t)

\* genCatchInfo: where the name of the type would be among them.
CatchOffset[t \in Types] == IF Parent[t] = NoType THEN 0 ELSE CatchOffset[Parent[t]] + 1

\* canCatch
CanCatch(c, t) ==
    /\ CatchOffset[c] < Len(ThrowInfo[t])
    /\ ThrowInfo[t][CatchOffset[c] + 1] = c

\* handleAction: the first of a landing pad's clauses that can catch, or 0.
HandleAction(clauses, t) ==
    LET can == {i \in DOMAIN clauses : CanCatch(clauses[i].type, t)}
    IN  IF can = {} THEN 0 ELSE clauses[CHOOSE i \in can : \A j \in can : i <= j].id

\* What the language means by it: t is c, or a descendant of c.
Ancestors[t \in Types] == IF Parent[t] = NoType THEN {} ELSE {Parent[t]} \cup Ancestors[Parent[t]]
IsA(t, c) == c = t \/ c \in Ancestors[t]
=============================================================================
