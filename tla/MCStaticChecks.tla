--------------------------- MODULE MCStaticChecks ---------------------------
(* Functions that never throw, may throw, and do unless a predicate is true. *)
(* A class C, an empty class D and two interfaces, in programs of four       *)
(* families: methods that return or take interfaces, that return classes or  *)
(* interfaces, and two methods of each const and noexcept, or none.  A class *)
(* of up to three members, and a type of which it is a part, as two modules  *)
(* lay them out.                                                             *)
EXTENDS StaticChecks

CONSTANTS C, D, I, J, m, n, A, B

TwoAssignments == {TRUE, FALSE}
CallPredicates == {{}, {TRUE}}

Ref(names, consts) == [name : names, const : consts]

Returning(rets, consts) ==
    [const : consts, noexcept : {FALSE}, params : {<<>>}, ret : rets]
Taking(params, consts) ==
    {[const |-> c, noexcept |-> FALSE, params |-> <<p>>, ret |-> Void]
        : c \in consts, p \in params}

\* One method in C, I and J each.
OneMethod(elements) ==
    {(C :> (m :> c) @@ D :> <<>> @@ I :> (m :> i) @@ J :> (m :> j))
        : c \in elements, i \in elements, j \in elements}

\* What has methods of no parameters, of either const and noexcept.
Plains == [const : BOOLEAN, noexcept : BOOLEAN, params : {<<>>}, ret : {Void}]
PlainMethods == UNION {[names -> Plains] : names \in SUBSET {m, n}}

MCPrograms ==
    OneMethod(Returning(Ref({I, J}, {"no", "self", "yes"}), {TRUE}))
    \cup OneMethod(Taking(Ref({I, J}, {"no", "self", "yes"}), BOOLEAN))
    \cup OneMethod(Returning(Ref({C, I}, {"no", "self"}), BOOLEAN))
    \cup {(C :> c @@ D :> <<>> @@ I :> i @@ J :> <<>>) : c \in PlainMethods, i \in PlainMethods}

-----------------------------------------------------------------------------
Simples == {"i8", "i16", "ref"}

Simple(k, size) ==
    [kind |-> k, size |-> size, align |-> size, members |-> <<>>, destroy |-> FALSE,
     move |-> FALSE, custom |-> FALSE, home |-> A]
Object(k, members, destroy, home) ==
    [kind |-> k, size |-> 0, align |-> 1, members |-> members, destroy |-> destroy,
     move |-> FALSE, custom |-> FALSE, home |-> home]

Lists(names, lengths) == UNION {[1 .. l -> names] : l \in lengths}

Inners == {Object("class", list, TRUE, h) : list \in Lists(Simples, 0 .. 3), h \in Modules}
Outers ==
    {Object(k, list, k = "class", A) : k \in {"class", "datatype", "variant"},
        list \in {l \in Lists({"i8", "ref", "inner"}, 1 .. 2) : "inner" \in {l[i] : i \in DOMAIN l}}}

MCTables ==
    {("i8" :> Simple("prim", 1) @@ "i16" :> Simple("prim", 2) @@ "ref" :> Simple("ref", 4)
        @@ "inner" :> inner @@ "outer" :> outer) : inner \in Inners, outer \in Outers}
=============================================================================
