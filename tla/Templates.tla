----------------------------- MODULE Templates ------------------------------
(***************************************************************************)
(* How generated code knows its template arguments.  A template is         *)
(* compiled once.  Whoever calls it passes a generator: a root function,   *)
(* which knows the arguments of one use that names no template variable,   *)
(* and a path, a word of bits that leads from there through the uses that  *)
(* are made one within the other.  A leading one marks the start of the    *)
(* path; below it each template on the way has as many bits as its number  *)
(* of uses needs.                                                          *)
(*                                                                         *)
(* The generated program is run here from one frame to the next.  A frame  *)
(* has the generator it was passed, and `meant`, the type or function with *)
(* the arguments that the source of the program names.  Types, functions   *)
(* and their uses are one kind of record; a template method is an object   *)
(* with the variables of its type before its own.                          *)
(***************************************************************************)
EXTENDS Integers, Sequences, SequencesExt, FiniteSetsExt

CONSTANTS
    Vars,           \* object -> the number of its template variables
    Primitives,     \* the objects without a template generator
    Bodies,         \* object -> the sequences of uses its code may ask for
    Roots,          \* the uses the program may start with
    Methods,        \* object -> the methods of its vtable, in order
    Hash,           \* method -> the hash of its name
    VTABLE_SIZE,
    WordBits,       \* bits of a path, 64 in the code
    MaxCalls        \* bound on the calls of a behaviour

VARIABLES
    body,           \* object -> its uses, once its code is known
    frame,          \* object, method, generator, meant
    calls,
    overflow        \* a path has lost its leading bit

templateVars == <<body, frame, calls, overflow>>

Object == DOMAIN Vars

Var(i)     == [object |-> "var", index |-> i, args |-> <<>>]
Use(o, as) == [object |-> o, index |-> 0, args |-> as]
IsVar(t)   == t.object = "var"

Unknown == <<Use("unknown", <<>>)>>
Known(o) == body[o] # Unknown

Null     == [root |-> Use("null", <<>>), path |-> 0]
TypeInfo(o, g) == [vtable |-> o, generator |-> g]
Undefined == TypeInfo("undefined", Null)

MaxVars == Max({Vars[o] : o \in Object})
UndefinedArray == [i \in 1..MaxVars |-> Undefined]

RECURSIVE isRootArgumentList(_), Substitute(_, _), addUse(_, _, _)

isRootArgumentList(as) ==
    \A i \in DOMAIN as : ~IsVar(as[i]) /\ isRootArgumentList(as[i].args)

\* The type that the source means by t where the variables stand for as.
Substitute(t, as) ==
    IF IsVar(t) THEN as[t.index]
    ELSE Use(t.object, [i \in DOMAIN t.args |-> Substitute(t.args[i], as)])

-----------------------------------------------------------------------------
(* The template builder of an object: its uses, numbered from zero.        *)

allArgumentsAreSelfTemplateVars(o, use) ==
    use.object = o /\ use.args = [i \in 1..Vars[o] |-> Var(i)]

\* The use, and then the types with arguments of their own among its
\* arguments, unless it is there already.
addUse(o, uses, use) ==
    IF allArgumentsAreSelfTemplateVars(o, use) \/ \E i \in DOMAIN uses : uses[i] = use
    THEN uses
    ELSE FoldLeft(LAMBDA u, a : IF a.args # <<>> THEN addUse(o, u, a) ELSE u,
                  Append(uses, use), use.args)

\* The uses of the whole code of o.
templateUseMap(o) ==
    FoldLeft(LAMBDA u, use : IF use.args = <<>> \/ isRootArgumentList(use.args) THEN u
                             ELSE addUse(o, u, use),
             <<>>, body[o])

\* The number of a use.  The map of the code orders uses whose arguments differ by
\* the hash of the first argument that does: different uses with equal hashes
\* would be one entry.  Here different uses have different hashes.
EntryId(o, use) == (CHOOSE i \in DOMAIN templateUseMap(o) : templateUseMap(o)[i] = use) - 1

getNextPowerOfTwo(n) == CHOOSE p \in 0..n : 2^p >= n /\ \A q \in 0..(p - 1) : 2^q < n

bitsRequired(o) ==
    LET n == Len(templateUseMap(o)) IN
    IF n = 0 THEN 0 ELSE IF n = 1 THEN 1 ELSE getNextPowerOfTwo(n)

-----------------------------------------------------------------------------
(* The generator that the code of a frame passes on for a use.             *)

\* The position of the leading one: 63 - ctlz(path).
StartPosition(path) == CHOOSE p \in 0..WordBits : 2^p <= path /\ path < 2^(p + 1)

\* A shift in a word of WordBits bits, and the number of the use.
LongerPath(o, path, use) ==
    ((path * 2^bitsRequired(o)) % 2^WordBits) + EntryId(o, use)

PathOverflows(o, path) == path * 2^bitsRequired(o) >= 2^WordBits

IsIntermediate(use) == use.args # <<>> /\ ~isRootArgumentList(use.args)

computeTemplateGenerator(o, g, use) ==
    IF use.args = <<>> THEN Null
    ELSE IF isRootArgumentList(use.args) THEN [root |-> use, path |-> 1]
    ELSE IF allArgumentsAreSelfTemplateVars(o, use) THEN g
    ELSE [root |-> g.root, path |-> LongerPath(o, g.path, use)]

-----------------------------------------------------------------------------
(* The functions that a generator calls: the root function and, for each   *)
(* object on the path, its intermediate function.                          *)

\* Mutant: the type itself has the path up to this component.
ArgumentPathUnshifted(o, subPath, type) ==
    IF allArgumentsAreSelfTemplateVars(o, type) THEN subPath
    ELSE (subPath - (subPath % 2^bitsRequired(o))) + EntryId(o, type)

\* The path of a type that is itself an argument of a use: what came before
\* this component with the number of the type in its place, or without any
\* for the type whose code this is.
ArgumentPath(o, subPath, type) ==
    IF allArgumentsAreSelfTemplateVars(o, type) THEN subPath \div 2^bitsRequired(o)
    ELSE (subPath - (subPath % 2^bitsRequired(o))) + EntryId(o, type)

\* TypeArrayMapper: variables are moved, all of them read before any is
\* written, and the others assigned.  What is beyond stays as it was.
MapTypeArray(o, types, root, subPath, use) == [i \in 1..MaxVars |->
    IF i > Len(use.args) THEN types[i]
    ELSE LET arg == use.args[i] IN
         IF IsVar(arg) THEN types[arg.index]
         ELSE TypeInfo(arg.object,
                       IF arg.args = <<>> THEN Null
                       ELSE [root |-> root, path |-> ArgumentPath(o, subPath, arg)])]

RECURSIVE TemplateIntermediate(_, _, _, _, _)

\* The template generator of o.  A component that is no use of it, or a path
\* that ends within one, is undefined behaviour.
TemplateIntermediate(o, types, root, path, parentPosition) ==
    IF parentPosition = 0 \/ (Known(o) /\ templateUseMap(o) = <<>>) THEN types
    ELSE IF ~Known(o) \/ parentPosition < bitsRequired(o) THEN UndefinedArray
    ELSE LET position  == parentPosition - bitsRequired(o)
             subPath   == path \div 2^position
             component == subPath % 2^bitsRequired(o)
         IN  IF component >= Len(templateUseMap(o)) THEN UndefinedArray
             ELSE LET use   == templateUseMap(o)[component + 1]
                      after == MapTypeArray(o, types, root, subPath, use)
                  IN  IF use.object \in Primitives THEN after
                      ELSE TemplateIntermediate(use.object, after, root, path, position)

TemplateRoot(root, path) ==
    LET types == [i \in 1..MaxVars |->
            IF i > Len(root.args) THEN Undefined
            ELSE TypeInfo(root.args[i].object,
                          IF root.args[i].args = <<>> THEN Null
                          ELSE [root |-> root.args[i], path |-> 1])]
    IN  IF root.object \in Primitives THEN types
        ELSE TemplateIntermediate(root.object, types, root, path, StartPosition(path))

computeTemplateArguments(g) ==
    IF g = Null \/ g.path = 0 THEN UndefinedArray ELSE TemplateRoot(g.root, g.path)

-----------------------------------------------------------------------------
(* Virtual calls: the vtable of a type has VTABLE_SIZE slots, and the      *)
(* methods that share one are told apart by their whole hash.              *)

Slot(o, hash) == SelectSeq(Methods[o], LAMBDA m : Hash[m] % VTABLE_SIZE = hash % VTABLE_SIZE)

\* Mutant: a method that is alone in its slot needs no comparison, and no
\* slot is taken to have two.
FirstOfSlot(o, hash) ==
    LET slot == Slot(o, hash) IN IF slot = <<>> THEN "undefined" ELSE slot[1]

\* The stub of a slot compares the hashes in order.
ConflictResolution(o, hash) ==
    LET slot == Slot(o, hash)
        hits == {i \in DOMAIN slot : Hash[slot[i]] = hash}
    IN  IF hits = {} THEN "undefined" ELSE slot[Min(hits)]

-----------------------------------------------------------------------------

\* The code of an object that is entered for the first time is chosen.
Enter(o) ==
    /\ o \in Object
    /\ \/ Known(o) /\ UNCHANGED body
       \/ ~Known(o) /\ \E b \in Bodies[o] : body' = [body EXCEPT ![o] = b]

Init ==
    /\ \E root \in Roots :
          /\ frame = [object |-> root.object, method |-> "none", meant |-> root,
                      called |-> "none", generator |-> [root |-> root, path |-> 1]]
          /\ \E b \in Bodies[root.object] :
                body = [[o \in Object |-> Unknown] EXCEPT ![root.object] = b]
    /\ calls = 0 /\ overflow = FALSE

\* A call of a function, or of a static method of a type, with arguments.
Call(use) ==
    /\ frame' = [object |-> use.object, method |-> "none", called |-> "none",
                 meant |-> Substitute(use, frame.meant.args),
                 generator |-> computeTemplateGenerator(frame.object, frame.generator, use)]
    /\ overflow' = (IsIntermediate(use)
                    /\ ~allArgumentsAreSelfTemplateVars(frame.object, use)
                    /\ PathOverflows(frame.object, frame.generator.path))
    /\ Enter(use.object)

\* A call of a method of the i-th template argument: the stub in the vtable
\* is passed the hash and the generator of the type information.
CallMethod(i, m) ==
    LET type == frame.meant.args[i]
        info == computeTemplateArguments(frame.generator)[i]
    IN  /\ m \in Range(Methods[type.object])
        /\ type.args # <<>>
        /\ frame' = [object |-> info.vtable,
                     method |-> ConflictResolution(info.vtable, Hash[m]),
                     called |-> m, meant |-> type, generator |-> info.generator]
        /\ Enter(info.vtable)
        /\ UNCHANGED overflow

Next ==
    /\ calls < MaxCalls /\ ~overflow
    /\ calls' = calls + 1
    /\ \/ \E k \in DOMAIN body[frame.object] : Call(body[frame.object][k])
       \/ \E i \in 1..Len(frame.meant.args) :
             \E m \in Range(Methods[frame.meant.args[i].object]) : CallMethod(i, m)

Spec == Init /\ [][Next]_templateVars

-----------------------------------------------------------------------------

RECURSIVE Denotes(_, _)

\* The type information stands for the type, with the arguments that its
\* generator computes in turn.
Denotes(info, type) ==
    /\ info.vtable = type.object
    /\ \A i \in DOMAIN type.args :
          Denotes(computeTemplateArguments(info.generator)[i], type.args[i])

\* The arguments that a frame computes from its generator are those that the
\* source means, to any depth, as long as no path has outgrown its word
\* (Template.cpp, computeTemplateGenerator, genTemplateRootFunction,
\* genTemplateIntermediateFunction).
ArgumentsAgree == ~overflow =>
    \A i \in 1..Len(frame.meant.args) :
        Denotes(computeTemplateArguments(frame.generator)[i], frame.meant.args[i])

\* A call arrives at the object and the method that it names
\* (GenericVirtualCallABI.cpp, emitVTableSlot; VTable.cpp).
CallsArrive == frame.object = frame.meant.object /\ frame.method = frame.called
=============================================================================
