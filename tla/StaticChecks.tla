---------------------------- MODULE StaticChecks ----------------------------
(***************************************************************************)
(* Three computations of the compiler on which the meaning of a program    *)
(* depends: the exit states of its scopes, which of its types may be used  *)
(* as which interfaces, and where the parts of its objects are.  They      *)
(* share nothing: a behaviour looks at one of them.                        *)
(***************************************************************************)
EXTENDS ExitStates, SatisfyChecker, Layout

CONSTANT Tables     \* the tables of types that are laid out

ASSUME StaticChecksAssumption == \A T \in Tables : IsTable(T)

VARIABLES
    checking,
    laidOut     \* a table of types, and how the modules see them; <<>> before

staticVars == <<vars, satisfyVars, checking, laidOut>>

StaticInit ==
    /\ checking \in {"exits", "interfaces", "layout"}
    /\ Init /\ SatisfyInit /\ laidOut = <<>>

\* Every module asks for the size, the alignment and the offsets of every type.
LayOut ==
    /\ laidOut = <<>>
    /\ \E T \in Tables : laidOut' = [table |-> T, view |-> View(T)]

StaticNext ==
    /\ UNCHANGED checking
    /\ \/ checking = "exits" /\ Next /\ UNCHANGED <<satisfyVars, laidOut>>
       \/ checking = "interfaces" /\ SatisfyNext /\ UNCHANGED <<vars, laidOut>>
       \/ checking = "layout" /\ LayOut /\ UNCHANGED <<vars, satisfyVars>>

StaticSpec == StaticInit /\ [][StaticNext]_staticVars

-----------------------------------------------------------------------------
\* The byte that tells whether an object is live is not a byte of a member.  It is
\* a byte of the object unless the code puts it after padding.
LivenessBytesFree ==
    laidOut # <<>> =>
        \A t \in DOMAIN laidOut.table :
            laidOut.table[t].kind = "class" => LivenessByteFree(laidOut.table, laidOut.view, t)

\* Modules that share a type agree on where its parts are, whether they know it and
\* lay it out themselves or ask its methods; but for types with such a byte.
ModulesAgreeOnTypes ==
    laidOut # <<>> =>
        LET T == laidOut.table
            v == laidOut.view
        IN  (\A t \in DOMAIN T : T[t].kind = "class" /\ v[t, T[t].home].known => ~SuffixWithPadding(T, v, t))
                => ModulesAgree(T, v)
=============================================================================
