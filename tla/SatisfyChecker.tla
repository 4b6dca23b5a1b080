--------------------------- MODULE SatisfyChecker ---------------------------
(***************************************************************************)
(* Which types may be used as which interfaces.  A program declares        *)
(* classes and interfaces, with methods whose parameters and results are   *)
(* references to them.  A class need not name the interfaces it is used    *)
(* as: the compiler compares the methods (SatisfyChecker.cpp), and as      *)
(* these mention other interfaces the comparison may come back to itself.  *)
(*                                                                         *)
(* The program then makes objects, casts references to them, and calls     *)
(* methods through them, wherever the compiler lets it.  A reference has   *)
(* a type, and remembers what it was before it was cast to an interface:   *)
(* whoever looks at the object through its type must not be misled.        *)
(***************************************************************************)
EXTENDS Integers, Sequences, FiniteSets, SequencesExt

CONSTANTS
    Classes, Interfaces, Methods,   \* names
    Programs,                       \* for each type, what its methods are declared as
    MaxDepth,                       \* MAX_STACK_DEPTH
    MaxRefs                         \* bound: references a program holds

TypeNames == Classes \cup Interfaces

\* A declared type may be const, or const if the object is: selfconst(T).
Types    == [name : TypeNames, const : BOOLEAN]
Declared == [name : TypeNames, const : {"no", "self", "yes"}]
Void     == [name |-> "void", const |-> "no"]

MethodSetElements ==
    [const : BOOLEAN, noexcept : BOOLEAN, params : Seq(Declared), ret : Declared \cup {Void}]

ASSUME SatisfyCheckerAssumption ==
    /\ Classes \cap Interfaces = {} /\ "void" \notin TypeNames
    /\ \A p \in Programs :
        /\ DOMAIN p = TypeNames
        /\ \A n \in TypeNames :
            /\ DOMAIN p[n] \subseteq Methods
            /\ \A m \in DOMAIN p[n] : p[n][m] \in MethodSetElements
    /\ {MaxDepth, MaxRefs} \subseteq Nat

ASSUME FinitelyManyTypes == IsFiniteSet(TypeNames)

VARIABLES
    program,    \* <<>> before anything is declared
    satisfied,  \* once it is checked: the pairs of which the first satisfies the second
    refs        \* references, with their types and what they were as class types

satisfyVars == <<program, satisfied, refs>>

IsInterface(t) == t.name \in Interfaces
IsVoid(t)      == t.name = "void"

\* The substitution of a constant for selfconst.
Substitute(t, selfconst) ==
    [name |-> t.name, const |-> t.const = "yes" \/ (t.const = "self" /\ selfconst)]

-----------------------------------------------------------------------------
\* SatisfyChecker::typeSatisfies, in two parts: what it finds out by itself, and the
\* questions that it asks about the types that the methods mention.

\* A mutator of a const type is not required.
Required(require, m) == require.const => program[require.name][m].const

\* What the other requires of a method has to hold of the one that is there.
MethodFits(checkSelf, check, require) ==
    /\ checkSelf => check.const
    /\ require.const => check.const
    /\ require.noexcept => check.noexcept
    /\ Len(check.params) = Len(require.params)

\* Mutant of ParamCast: parameters are compared the way results are.
ParamCastAsReturn(check, require, m, i) ==
    <<Substitute(program[check.name][m].params[i], check.const),
      Substitute(program[require.name][m].params[i], require.const)>>

\* The casts that have to be possible: of an argument to the parameter that is
\* there, and of what is returned to what is expected.
ParamCast(check, require, m, i) ==
    <<Substitute(program[require.name][m].params[i], require.const),
      Substitute(program[check.name][m].params[i], check.const)>>

ReturnCast(check, require, m) ==
    <<Substitute(program[check.name][m].ret, check.const),
      Substitute(program[require.name][m].ret, require.const)>>

MethodCasts(check, require, m) ==
    {ReturnCast(check, require, m)}
    \cup {ParamCast(check, require, m, i) : i \in DOMAIN program[check.name][m].params}

\* CastGenerator::implicitCastNoop: no code can be made for these casts.
MayBeNoop(cast) ==
    LET source == cast[1]
        dest   == cast[2]
    IN  /\ IsVoid(source) <=> IsVoid(dest)
        /\ IsInterface(dest) => IsInterface(source)

MethodsFit(check, require) ==
    \A m \in DOMAIN program[require.name] :
        /\ m \in DOMAIN program[check.name]
        /\ Required(require, m) =>
            /\ MethodFits(check.const, program[check.name][m], program[require.name][m])
            /\ \A cast \in MethodCasts(check, require, m) : MayBeNoop(cast)

TypeFits(check, require) ==
    IF IsInterface(require)
    THEN MethodsFit(check, require)
    ELSE check.name = require.name /\ (check.const => require.const)

\* The casts are possible if the one type satisfies the other.
Questions(check, require) ==
    LET required == {m \in DOMAIN program[require.name] :
                        IsInterface(require) /\ Required(require, m)}
    IN  {cast \in UNION {MethodCasts(check, require, m) : m \in required} : ~IsVoid(cast[1])}

\* Mutant of InProgress: whether the types are const is not looked at.
InProgressByName(stack, check, require) ==
    \E i \in DOMAIN stack : stack[i][1].name = check.name /\ stack[i][2].name = require.name

InProgress(stack, check, require) == Contains(stack, <<check, require>>)

\* satisfies: the last question of the path is asked while those before it are being
\* answered.  One that is being answered already is answered yes.
SatisfiesWithin[path \in Seq(Types \X Types) \ {<<>>}] ==
    LET stack   == Front(path)
        check   == Last(path)[1]
        require == Last(path)[2]
    IN  \/ InProgress(stack, check, require)
        \/ /\ Len(stack) <= MaxDepth
           /\ TypeFits(check, require)
           /\ \A q \in Questions(check, require) : SatisfiesWithin[Append(path, q)]

\* As the program does not change, each question is asked once.
Answers == {p \in Types \X Types : SatisfiesWithin[<<p>>]}

Satisfies(check, require) == <<check, require>> \in satisfied

-----------------------------------------------------------------------------
\* ImplicitCast from a reference to a reference, without a copy.  One that is no
\* noop gives an object the vtable of its class, and keeps const.
CanCast(source, dest) ==
    /\ Satisfies(source, dest)
    /\ \/ MayBeNoop(<<source, dest>>)
       \/ IsInterface(dest) /\ (source.const => dest.const)

\* GetMethod: the type t has a method m that may be called.
Callable(t, m) ==
    /\ m \in DOMAIN program[t.name]
    /\ t.const => program[t.name][m].const

\* What a reference was before it was cast to an interface.
AsClass(ref) == IF IsInterface(ref.type) THEN ref.was ELSE ref.type

Retyped(ref, t) == [type |-> t, was |-> AsClass(ref)]

ClassTypes == {t \in Types : ~IsInterface(t)}

SatisfyInit == program = <<>> /\ satisfied = {} /\ refs = <<>>

Declare ==
    /\ program = <<>>
    /\ program' \in Programs
    /\ UNCHANGED <<satisfied, refs>>

Check ==
    /\ program # <<>> /\ satisfied = {}
    /\ satisfied' = Answers
    /\ UNCHANGED <<program, refs>>

New(t) ==
    /\ satisfied # {} /\ Len(refs) < MaxRefs
    /\ refs' = Append(refs, [type |-> t, was |-> t])
    /\ UNCHANGED <<program, satisfied>>

Cast(i, t) ==
    /\ CanCast(refs[i].type, t)
    /\ refs' = [refs EXCEPT ![i] = Retyped(@, t)]
    /\ UNCHANGED <<program, satisfied>>

\* The method that a call through ref arrives at.
Callee(ref, m) == program[AsClass(ref).name][m]

\* In the call of m through refs[i], refs[j] is the argument: the method that is
\* called takes it for what its own parameter says.
PassArgument(i, j, m) ==
    /\ Callable(refs[i].type, m)
    /\ LET params == program[refs[i].type.name][m].params
           taken  == Callee(refs[i], m).params
       IN  \E k \in DOMAIN params :
            /\ refs[j].type = Substitute(params[k], refs[i].type.const)
            /\ refs' = [refs EXCEPT ![j] =
                            Retyped(@, Substitute(taken[k], AsClass(refs[i]).const))]
    /\ UNCHANGED <<program, satisfied>>

\* It returns an object that its own return type allows, and the caller takes it
\* for what the type of refs[i] says.
CallReturns(i, j, m) ==
    /\ Callable(refs[i].type, m)
    /\ LET ret == program[refs[i].type.name][m].ret
       IN  /\ ret # Void
           /\ \E t \in ClassTypes :
                /\ CanCast(t, Substitute(Callee(refs[i], m).ret, AsClass(refs[i]).const))
                /\ refs' = [refs EXCEPT ![j] =
                                [type |-> Substitute(ret, refs[i].type.const), was |-> t]]
    /\ UNCHANGED <<program, satisfied>>

SatisfyNext ==
    \/ Declare
    \/ Check
    \/ \E t \in ClassTypes : New(t)
    \/ \E i \in DOMAIN refs, t \in Types : Cast(i, t)
    \/ \E i, j \in DOMAIN refs, m \in Methods : PassArgument(i, j, m) \/ CallReturns(i, j, m)

-----------------------------------------------------------------------------
SatisfyTypeOK ==
    /\ program = <<>> \/ DOMAIN program = TypeNames
    /\ satisfied \subseteq Types \X Types
    /\ refs \in Seq([type : Types, was : ClassTypes]) /\ Len(refs) <= MaxRefs

\* A reference whose type is a class refers to an object of that class, and it is
\* const if the object is.
TypeIsTrue(ref) ==
    ~IsInterface(ref.type) =>
        /\ ref.type.name = ref.was.name
        /\ ref.was.const => ref.type.const

\* Every method that may be called through a reference is there, is no mutator of
\* an object that is const, keeps the promise not to throw and takes as many
\* arguments.
CallsAreTrue(ref) ==
    \A m \in Methods :
        Callable(ref.type, m) =>
            LET declared == program[ref.type.name][m]
                was      == AsClass(ref)
            IN  /\ m \in DOMAIN program[was.name]
                /\ was.const => Callee(ref, m).const
                /\ declared.noexcept => Callee(ref, m).noexcept
                /\ Len(declared.params) = Len(Callee(ref, m).params)

\* No sequence of casts, calls and returns that the compiler accepts ends in a
\* reference that says something false of its object.
CastsAreSound == \A i \in DOMAIN refs : TypeIsTrue(refs[i]) /\ CallsAreTrue(refs[i])

\* What a program declares has a selfconst parameter.
TakesSelfConst ==
    \E n \in TypeNames : \E m \in DOMAIN program[n] :
        \E i \in DOMAIN program[n][m].params : program[n][m].params[i].const = "self"

\* The pairs that are left when pairs that fail given the others are removed until
\* there are none.
Consistent[pairs \in SUBSET (Types \X Types)] ==
    LET hold == {p \in pairs : TypeFits(p[1], p[2]) /\ Questions(p[1], p[2]) \subseteq pairs}
    IN  IF hold = pairs THEN pairs ELSE Consistent[hold]

\* An answer yes that was assumed of a question in progress does no harm, and the
\* order of the questions does not matter: the answers are those of the largest
\* relation that the rules allow.  A type satisfies itself, and unless parameters
\* are selfconst, casts in two steps are casts in one.
SatisfiesIsLargest ==
    satisfied # {} /\ refs = <<>> =>
        /\ satisfied = Consistent[Types \X Types]
        /\ \A t \in Types : Satisfies(t, t)
        /\ TakesSelfConst \/
              \A p, q \in satisfied : p[2] = q[1] => Satisfies(p[1], q[2])
=============================================================================
