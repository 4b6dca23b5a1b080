-------------------------- MODULE MCObjectLifetime --------------------------
(***************************************************************************)
(* The types of the runs of ObjectLifetime: a class C of up to three       *)
(* members with a destructor, and a type D of which a C is a part.         *)
(***************************************************************************)
EXTENDS ObjectLifetime

CONSTANTS A, B  \* two modules

Simples == {"i8", "i16", "ref"}

Prim(k, n) == [kind |-> k, size |-> n, align |-> n, members |-> <<>>, destroy |-> FALSE,
               move |-> FALSE, custom |-> FALSE, home |-> A]
Object(k, members, destroy, move, custom, home) ==
    [kind |-> k, size |-> 0, align |-> 1, members |-> members, destroy |-> destroy,
     move |-> move, custom |-> custom, home |-> home]

Table(c, d) ==
    [t \in Simples \cup {"C", "D"} |->
        CASE t = "i8" -> Prim("prim", 1) [] t = "i16" -> Prim("prim", 2) [] t = "ref" -> Prim("ref", 4)
          [] t = "C" -> c [] t = "D" -> d]

\* One of each way to show that an object is live: by a reference, a byte in a
\* gap, a byte at the end, a method of the class.
MemberLists ==
    {<<"i8">>, <<"i16">>, <<"ref">>, <<"i8", "i8">>, <<"i8", "i16">>, <<"i16", "i16">>,
     <<"i8", "ref">>, <<"ref", "i8">>, <<"i8", "i16", "i8">>, <<"i16", "i8", "i16">>}

Cs == {Object("class", m, TRUE, FALSE, FALSE, h) : m \in MemberLists, h \in Modules}
      \cup {Object("class", <<"i8", "i16">>, TRUE, FALSE, TRUE, A)}

Ds == {Object("datatype", <<"C", "i8">>, FALSE, FALSE, FALSE, A),
       Object("datatype", <<"i8", "C">>, FALSE, FALSE, FALSE, A),
       Object("class", <<"i8", "C">>, TRUE, FALSE, FALSE, A),
       Object("class", <<"C", "C">>, FALSE, TRUE, FALSE, A),
       Object("variant", <<"C", "i16">>, FALSE, FALSE, FALSE, A)}

\* A suffix byte that the ABI type has in the padding at its end.
SuffixInPadding(T, t) ==
    LET v == View(T)[t, T[t].home]
    IN  v.liveness.kind = "suffix" /\ v.liveness.at >= v.size

AllTables == {Table(c, d) : c \in Cs, d \in Ds}

PassingTables == {T \in AllTables : ~SuffixInPadding(T, "C") /\ ~SuffixInPadding(T, "D")}
=============================================================================
