------------------------------- MODULE Layout -------------------------------
(***************************************************************************)
(* Where the parts of an object are: the sizes, alignments and offsets of  *)
(* lib/CodeGen, and the indicator that tells a live object from a dead     *)
(* one.                                                                    *)
(*                                                                         *)
(* A module knows the size of a class only if the class is defined in it.  *)
(* What it knows is laid out by the ABI, as a structure type; for the rest *)
(* it calls the method __sizeof that the defining module emitted, and adds *)
(* up offsets when the program runs.                                       *)
(*                                                                         *)
(* Types are given by a table T from names to records:                     *)
(*                                                                         *)
(*   kind     "prim", "ref" (has an invalid state: null), "datatype",      *)
(*            "class" or "variant"                                         *)
(*   size, align   of a prim or ref                                        *)
(*   members  the names of the types of the members, or of the variants    *)
(*   destroy, move   whether it is a class with such a method of its own   *)
(*   custom   whether it has its own __islive and __setdead; they use the  *)
(*            first member                                                 *)
(*   home     the module that defines it                                   *)
(*                                                                         *)
(* What is known of such a table is IsTable, at the end.                   *)
(***************************************************************************)
EXTENDS Integers, Sequences, SequencesExt, FiniteSetsExt

CONSTANT Modules

\* makeAligned and roundUpToAlign: the next multiple of a.
RoundUp(n, a) == ((n + a - 1) \div a) * a

\* Fields one after the other, from offset start: where each one ends.
Ends(fields, start) ==
    LET end[i \in 0 .. Len(fields)] ==
            IF i = 0 THEN start ELSE RoundUp(end[i - 1], fields[i].align) + fields[i].size
    IN  end

\* Where each one is, where the first gap between two of them begins (-1 if there is
\* none), and where they end.
Place(fields, start) ==
    LET end == Ends(fields, start)
        Offset(i) == RoundUp(end[i - 1], fields[i].align)
        gaps == {i \in DOMAIN fields : Offset(i) # end[i - 1]}
    IN  [offsets |-> [i \in DOMAIN fields |-> Offset(i)],
         end     |-> end[Len(fields)],
         gap     |-> IF gaps = {} THEN -1 ELSE end[Min(gaps) - 1]]

\* An alignment mask is one less than a power of two: their disjunction is that
\* of the largest alignment.
MaxAlign(fields) == Max({1} \cup {fields[i].align : i \in DOMAIN fields})

\* The fields before the first one of unknown size.
KnownPrefix(fields) ==
    LET unknown == {i \in DOMAIN fields : ~fields[i].known}
    IN  IF unknown = {} THEN fields ELSE SubSeq(fields, 1, Min(unknown) - 1)

-----------------------------------------------------------------------------
\* genSuffixByteOffset: the end of the members, aligned as the class is.
SuffixByteOffset(fields) == RoundUp(Place(fields, 0).end, MaxAlign(fields))

\* Mutant of GapByteOffset: one byte further.
GapByteInField(fields) ==
    LET gap == Place(KnownPrefix(fields), 0).gap IN IF gap = -1 THEN -1 ELSE gap + 1

\* getGapByteLivenessIndicator: the first byte of padding between members.
GapByteOffset(fields) == Place(KnownPrefix(fields), 0).gap

\* getLivenessIndicator: how to tell whether an object of type t is live, the
\* fields being its members as its own module sees them.
LivenessIndicator(T, t, fields) ==
    LET needed  == T[t].destroy \/ T[t].move
        valid   == {i \in DOMAIN fields : T[T[t].members[i]].kind = "ref"}
        gap     == GapByteOffset(fields)
        Is(k, at) == [kind |-> k, at |-> at]
    IN  CASE ~needed -> Is("none", 0)
          [] needed /\ T[t].custom -> Is("custom", 0)
          [] needed /\ ~T[t].custom /\ valid # {} ->
                Is("member", Place(fields, 0).offsets[Min(valid)])
          [] needed /\ ~T[t].custom /\ valid = {} /\ gap # -1 -> Is("gap", gap)
          [] OTHER -> Is("suffix", SuffixByteOffset(fields))

Byte == [known |-> TRUE, size |-> 1, align |-> 1]

AtLeastOneByte(fields) == IF fields = <<>> THEN <<Byte>> ELSE fields

\* The structure type that genABIObjectType makes for a class or datatype.
ABIFields(fields, liveness) ==
    AtLeastOneByte(IF liveness.kind = "suffix" THEN Append(fields, Byte) ELSE fields)

\* Mutant of EmittedSizeOf: the suffix byte is not counted.
EmittedSizeOfMembers(fields, liveness) ==
    RoundUp(Max({1, Place(fields, 0).end}), MaxAlign(fields))

\* emitSizeOf: the members come after the suffix byte, if there is one.
EmittedSizeOf(fields, liveness) ==
    LET start == IF liveness.kind = "suffix" THEN 1 ELSE 0
    IN  RoundUp(Max({1, Place(fields, start).end}), MaxAlign(fields))

MaxSize(fields) == Max({fields[i].size : i \in DOMAIN fields})

\* A variant is its tag and a union of the variants.  Its value is aligned for each.
UnionOf(fields) == [align |-> MaxAlign(fields), size |-> RoundUp(MaxSize(fields), MaxAlign(fields))]

ValueOffset(fields) == RoundUp(1, MaxAlign(fields))

\* emitSizeOf of a variant: the size of the union is not rounded up.
EmittedVariantSize(fields) == RoundUp(ValueOffset(fields) + MaxSize(fields), MaxAlign(fields))

-----------------------------------------------------------------------------
\* The module whose view of the members counts where m lays out type t: a class is
\* laid out by the module that defines it.
LaidOutBy(T, t, m) == IF T[t].kind = "class" THEN T[t].home ELSE m

\* Type t as module m sees it, the fields being its members.
ViewOf(T, t, m, fields) ==
    LET d        == T[t]
        known    == (\A i \in DOMAIN fields : fields[i].known) /\ (d.kind = "class" => m = d.home)
        liveness == LivenessIndicator(T, t, fields)
        abi      == ABIFields(fields, liveness)
        union    == UnionOf(fields)
        Seen(size, align, offsets) ==
            [known |-> known, size |-> size, align |-> align, offsets |-> offsets,
             liveness |-> liveness]
    IN  CASE d.kind \in {"prim", "ref"} ->
                [known |-> TRUE, size |-> d.size, align |-> d.align, offsets |-> <<>>,
                 liveness |-> [kind |-> "none", at |-> 0]]
          [] d.kind = "variant" /\ known ->
                Seen(RoundUp(RoundUp(1, union.align) + union.size, union.align),
                     union.align, <<RoundUp(1, union.align)>>)
          [] d.kind = "variant" /\ ~known ->
                Seen(EmittedVariantSize(fields), MaxAlign(fields), <<ValueOffset(fields)>>)
          [] d.kind \in {"class", "datatype"} /\ known ->
                Seen(RoundUp(Place(abi, 0).end, MaxAlign(abi)), MaxAlign(abi),
                     Place(fields, 0).offsets)
          [] d.kind \in {"class", "datatype"} /\ ~known ->
                Seen(EmittedSizeOf(fields, liveness), MaxAlign(fields),
                     Place(fields, 0).offsets)

\* Every type as every module sees it.
View(T) ==
    LET view[x \in (DOMAIN T) \X Modules] ==
            ViewOf(T, x[1], x[2],
                   [i \in DOMAIN T[x[1]].members |-> view[T[x[1]].members[i], LaidOutBy(T, x[1], x[2])]])
    IN  view

-----------------------------------------------------------------------------
\* The bytes that member i of an object of type t occupies, in the view v of the
\* module that defines t.
MemberBytes(T, v, t, i) ==
    LET o == v[t, T[t].home].offsets[i]
    IN  o .. o + v[T[t].members[i], T[t].home].size - 1

\* A class whose liveness is in a byte at its end, though its members leave padding:
\* after the last of them, or after one whose size its module does not know.
SuffixWithPadding(T, v, t) ==
    LET fields == [i \in DOMAIN T[t].members |-> v[T[t].members[i], T[t].home]]
        placed == Place(fields, 0)
    IN  /\ v[t, T[t].home].liveness.kind = "suffix"
        /\ placed.gap # -1 \/ RoundUp(placed.end, MaxAlign(fields)) # placed.end

\* The byte that says whether an object of t is live is a byte of none of its
\* members; and of the object, unless it is at the end and there is padding.
LivenessByteFree(T, v, t) ==
    LET own == v[t, T[t].home]
    IN  own.liveness.kind \in {"gap", "suffix"} =>
            /\ \A i \in DOMAIN own.offsets : own.liveness.at \notin MemberBytes(T, v, t, i)
            /\ ~SuffixWithPadding(T, v, t) => own.liveness.at < own.size

\* Two modules agree on the size and on the members of every type.
ModulesAgree(T, v) ==
    \A t \in DOMAIN T, m, n \in Modules :
        /\ v[t, m].size = v[t, n].size
        /\ v[t, m].align = v[t, n].align
        /\ v[t, m].offsets = v[t, n].offsets

-----------------------------------------------------------------------------
Divides(a, b) == b % a = 0

\* The tables that the compiler has.  Of two alignments one divides the other, as
\* they are powers of two; only classes have methods of their own for destruction
\* and moves; and no type is a part of itself.
IsTable(T) ==
    /\ \A t \in DOMAIN T :
        /\ T[t].kind \in {"prim", "ref", "datatype", "class", "variant"}
        /\ T[t].home \in Modules /\ T[t].members \in Seq(DOMAIN T)
        /\ T[t].kind \in {"prim", "ref"} => {T[t].size, T[t].align} \subseteq Nat \ {0}
        /\ T[t].kind # "class" => ~T[t].destroy /\ ~T[t].move
        /\ T[t].kind = "variant" => T[t].members # <<>>
    /\ \A t, u \in {x \in DOMAIN T : T[x].kind \in {"prim", "ref"}} :
            Divides(T[t].align, T[u].align) \/ Divides(T[u].align, T[t].align)
    /\ \A S \in SUBSET DOMAIN T \ {{}} :
            \E t \in S : \A i \in DOMAIN T[t].members : T[t].members[i] \notin S
=============================================================================
