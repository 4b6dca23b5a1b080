--------------------------- MODULE ObjectLifetime ---------------------------
(***************************************************************************)
(* The life of the objects of one function: its variables are created,     *)
(* copied, moved, assigned to and destroyed by the code that is generated  *)
(* for them (DefaultMethodEmitter, LivenessEmitter and IREmitter).         *)
(*                                                                         *)
(* Memory is an array of bytes.  A variable is moved from without the      *)
(* compiler keeping track of it: its destructor runs in any case, and the  *)
(* liveness indicator in memory decides what it does.  Each object has an  *)
(* identity, which is what the bytes of its own members contain: what a    *)
(* destructor finds in memory tells which object it destroys.              *)
(*                                                                         *)
(* A statement begins when the work of the one before is done.  Its work   *)
(* is a stack of operations; those that a class, datatype or variant has   *)
(* by default are replaced by the operations on its members.               *)
(***************************************************************************)
EXTENDS Layout

CONSTANTS
    Tables,         \* the tables of types
    Here,           \* the module that contains the function
    Garbage,        \* what memory may contain at first
    MemorySize,     \* bound: bytes of memory
    MaxVariables,   \* bound: variables at the same time
    MaxObjects      \* bound: objects created

ASSUME ObjectLifetimeAssumption ==
    /\ Here \in Modules
    /\ Garbage \subseteq {0, 1}
    /\ {MemorySize, MaxVariables, MaxObjects} \subseteq Nat
    /\ \A T \in Tables : IsTable(T)

VARIABLES
    table,      \* the types of the program
    view,       \* and how the modules see them
    mem,        \* the bytes of memory
    variables,  \* the variables in scope whose destructor is scheduled
    work,       \* the operations that are left of the statement
    objects,    \* how many identities were given out
    begun,      \* how many before the statement
    born,       \* the objects with a destructor that were created
    gone,       \* those whose destructor has run
    lost        \* those that were part of an object whose copy threw

vars  == <<table, view, mem, variables, work, objects, begun, born, gone, lost>>
types == <<table, view>>

Addresses == 0 .. MemorySize - 1

\* The contents of bytes: 0 and 1 are indicators and tags, and 0 is null; an
\* object's members contain its identity.
Identity(n) == n + 10

Init ==
    /\ table \in Tables
    /\ view = View(table)
    /\ \E g \in Garbage : mem = [a \in Addresses |-> g]
    /\ variables = <<>> /\ work = <<>>
    /\ objects = 0 /\ begun = 0
    /\ born = {} /\ gone = {} /\ lost = {}

-----------------------------------------------------------------------------
Kind(t)     == table[t].kind
Members(t)  == table[t].members
OwnView(t)  == view[t, IF Kind(t) = "class" THEN table[t].home ELSE Here]
SizeOf(t)   == view[t, Here].size
AlignOf(t)  == view[t, Here].align
Simple(t)   == Kind(t) \in {"prim", "ref"}

\* Where member i of the object of type t at address a is.
MemberPtr(t, a, i) == a + OwnView(t).offsets[IF Kind(t) = "variant" THEN 1 ELSE i]

Liveness(t) == OwnView(t).liveness

\* The byte that shows whether the object of type t at address a is live.  (What
\* the type's own methods look at is the first member.)
LivenessByte(t, a) == a + Liveness(t).at

\* emitIsLive, or the type's own __islive, or __isvalid of a member.
IsLive(t, a) ==
    CASE Liveness(t).kind = "none" -> TRUE
      [] Liveness(t).kind \in {"member", "custom"} -> mem[LivenessByte(t, a)] # 0
      [] Liveness(t).kind \in {"gap", "suffix"} -> mem[LivenessByte(t, a)] = 1

\* The first address after the variables.
Free == IF variables = <<>> THEN 0 ELSE Last(variables).at + SizeOf(Last(variables).type)

\* Room for an object of type t after address a.
Alloca(t, a) == RoundUp(a, AlignOf(t))

\* hasCustomDestructor: whether a destructor call does anything.
HasDestructor ==
    LET has[t \in DOMAIN table] == table[t].destroy \/ \E i \in DOMAIN Members(t) : has[Members(t)[i]]
    IN  has

-----------------------------------------------------------------------------
\* Operations, which are [op, type, from, to, id] records: make (an object with
\* identity id at address to), move and copy (from one address to another),
\* destroy, kill (the class's own destructor), setLive, setDead, and tag (store
\* the tag id of a variant).
Op(op, t, from, to, id) == [op |-> op, type |-> t, from |-> from, to |-> to, id |-> id]

\* One operation for each member, in order.
ForMembers(t, Operation(_)) == [i \in DOMAIN Members(t) |-> Operation(i)]

Do(operations) == work' = operations \o Tail(work)

At(op)   == work # <<>> /\ Head(work).op = op
Type     == Head(work).type
From     == Head(work).from
To       == Head(work).to
Id       == Head(work).id

Fill(t, a, x) == [b \in Addresses |-> IF b \in a .. a + SizeOf(t) - 1 THEN x ELSE mem[b]]

\* Bytes are stored.
Store(m) ==
    /\ mem' = m
    /\ Do(<<>>)
    /\ UNCHANGED <<types, variables, objects, begun, born, gone, lost>>

\* A method does its work by other operations.
Expand(operations) ==
    /\ Do(operations)
    /\ UNCHANGED <<types, mem, variables, objects, begun, born, gone, lost>>

\* emitInternalConstruct: the members are created in place, then the object is
\* set to live.
MakeSimple == At("make") /\ Simple(Type) /\ Store(Fill(Type, To, Identity(Id)))

\* The operations that an object's creation or copy ends with.
SetLive(t, to, id) == <<Op("setLive", t, to, to, id)>>

Make ==
    /\ At("make") /\ ~Simple(Type)
    /\ objects' = objects + 1
    /\ IF Kind(Type) = "variant"
       THEN \E k \in DOMAIN Members(Type) :
                \* emitCast: the value is created elsewhere and moved.
                LET there == Alloca(Members(Type)[k], From)
                IN  Do(<<Op("make", Members(Type)[k], there + SizeOf(Members(Type)[k]), there, objects'),
                         Op("tag", Type, To, To, k),
                         Op("move", Members(Type)[k], there, MemberPtr(Type, To, k), 0)>>)
       ELSE Do(ForMembers(Type, LAMBDA i : Op("make", Members(Type)[i], From, MemberPtr(Type, To, i), objects'))
               \o SetLive(Type, To, objects'))
    /\ UNCHANGED <<types, mem, variables, begun, born, gone, lost>>

\* emitSetOuterLive.  The object is complete.
SetOuterLive ==
    /\ At("setLive")
    /\ mem' = IF Liveness(Type).kind \in {"gap", "suffix"}
              THEN [mem EXCEPT ![LivenessByte(Type, To)] = 1] ELSE mem
    /\ born' = IF table[Type].destroy /\ Id # 0 THEN born \cup {Id} ELSE born
    /\ Do(<<>>)
    /\ UNCHANGED <<types, variables, objects, begun, gone, lost>>

\* emitSetDead, or the type's own __setdead, or __setinvalid of a member.
SetDead ==
    /\ At("setDead")
    /\ LET member == {i \in DOMAIN Members(Type) : MemberPtr(Type, To, i) = LivenessByte(Type, To)}
       IN  CASE Liveness(Type).kind = "none" -> Store(mem)
             [] Liveness(Type).kind \in {"gap", "suffix"} ->
                    Store([mem EXCEPT ![LivenessByte(Type, To)] = 0])
             [] Liveness(Type).kind \in {"member", "custom"} ->
                    Store(Fill(Members(Type)[Min(member)], To + Liveness(Type).at, 0))

-----------------------------------------------------------------------------
\* emitOuterMove and emitInnerMove.
MoveSimple ==
    /\ At("move") /\ Simple(Type)
    /\ Store([b \in Addresses |-> IF b \in To .. To + SizeOf(Type) - 1
                                  THEN mem[From + (b - To)] ELSE mem[b]])

MoveMembers ==
    ForMembers(Type, LAMBDA i : Op("move", Members(Type)[i], MemberPtr(Type, From, i),
                                   MemberPtr(Type, To, i), 0))

\* Mutant of Move: a dead source leaves its destination as it is.
MoveOfDeadDoesNothing ==
    /\ At("move") /\ Kind(Type) \in {"class", "datatype"}
    /\ IF IsLive(Type, From)
       THEN Expand(MoveMembers \o <<Op("setLive", Type, To, To, 0), Op("setDead", Type, From, From, 0)>>)
       ELSE Expand(<<>>)

Move ==
    /\ At("move") /\ Kind(Type) \in {"class", "datatype"}
    /\ IF IsLive(Type, From)
       THEN Expand(MoveMembers \o <<Op("setLive", Type, To, To, 0), Op("setDead", Type, From, From, 0)>>)
       ELSE Expand(<<Op("setDead", Type, To, To, 0)>>)

\* The tag moves with the value: the source is empty after it.
MoveVariant ==
    /\ At("move") /\ Kind(Type) = "variant"
    /\ LET k == mem[From]
       IN  Do(IF k \in DOMAIN Members(Type)
              THEN <<Op("move", Members(Type)[k], MemberPtr(Type, From, k), MemberPtr(Type, To, k), 0)>>
              ELSE <<>>)
    /\ mem' = [mem EXCEPT ![To] = mem[From], ![From] = 0]
    /\ UNCHANGED <<types, variables, objects, begun, born, gone, lost>>

StoreTag == At("tag") /\ Store([mem EXCEPT ![To] = Id])

-----------------------------------------------------------------------------
\* emitCopyMethod.  What is copied is a new object.
CopySimple == At("copy") /\ Simple(Type) /\ Store(Fill(Type, To, Identity(Id)))

Copy ==
    /\ At("copy") /\ Kind(Type) \in {"class", "datatype"}
    /\ objects' = objects + 1
    /\ Do(ForMembers(Type, LAMBDA i : Op("copy", Members(Type)[i], MemberPtr(Type, From, i),
                                        MemberPtr(Type, To, i), objects'))
          \o SetLive(Type, To, objects'))
    /\ UNCHANGED <<types, mem, variables, begun, born, gone, lost>>

CopyVariant ==
    /\ At("copy") /\ Kind(Type) = "variant"
    /\ LET k == mem[From]
       IN  /\ mem' = [mem EXCEPT ![To] = k]
           /\ objects' = objects + 1
           /\ Do(IF k \in DOMAIN Members(Type)
                 THEN <<Op("copy", Members(Type)[k], MemberPtr(Type, From, k),
                           MemberPtr(Type, To, k), objects')>>
                 ELSE <<>>)
    /\ UNCHANGED <<types, variables, begun, born, gone, lost>>

-----------------------------------------------------------------------------
\* emitOuterDestroy: the members are destroyed in reverse order, after the
\* class's own destructor.
DestroySimple == At("destroy") /\ ~HasDestructor[Type] /\ Expand(<<>>)

DestroyMembers ==
    Reverse(ForMembers(Type, LAMBDA i : LET a == MemberPtr(Type, To, i)
                                        IN  Op("destroy", Members(Type)[i], a, a, 0)))

\* Mutant of Destroy: the members come first.
DestroyMembersFirst ==
    /\ At("destroy") /\ HasDestructor[Type] /\ Kind(Type) \in {"class", "datatype"}
    /\ IF IsLive(Type, To)
       THEN Expand(DestroyMembers \o <<Op("kill", Type, To, To, 0), Op("setDead", Type, To, To, 0)>>)
       ELSE Expand(<<>>)

Destroy ==
    /\ At("destroy") /\ HasDestructor[Type] /\ Kind(Type) \in {"class", "datatype"}
    /\ IF IsLive(Type, To)
       THEN Expand(<<Op("kill", Type, To, To, 0)>> \o DestroyMembers \o <<Op("setDead", Type, To, To, 0)>>)
       ELSE Expand(<<>>)

DestroyVariant ==
    /\ At("destroy") /\ HasDestructor[Type] /\ Kind(Type) = "variant"
    /\ LET k == mem[To]
           a == MemberPtr(Type, To, k)
       IN  Expand(IF k \in DOMAIN Members(Type) THEN <<Op("destroy", Members(Type)[k], a, a, 0)>> ELSE <<>>)

\* The bytes of the members of the object of type t at address a that are simple.
OwnBytes(t, a) ==
    UNION {MemberPtr(t, a, i) .. MemberPtr(t, a, i) + SizeOf(Members(t)[i]) - 1 :
              i \in {j \in DOMAIN Members(t) : Simple(Members(t)[j])}}

\* The object that the class's own destructor finds at its address.
Found == {o \in 1 .. objects : \A b \in OwnBytes(Type, To) : mem[b] = Identity(o)}

\* emitInnerDestructorCall: the code of the class.
Kill ==
    /\ At("kill")
    /\ gone' = IF table[Type].destroy THEN gone \cup Found ELSE gone
    /\ Do(<<>>)
    /\ UNCHANGED <<types, mem, variables, objects, begun, born, lost>>

-----------------------------------------------------------------------------
\* The places in the object of type t at address a that have an indicator: the
\* object itself, and its parts.  A variant has the part that its tag names.
Places ==
    LET places[t \in DOMAIN table, a \in Addresses] ==
            (IF Liveness(t).kind # "none" THEN {[type |-> t, at |-> a]} ELSE {})
            \cup UNION {places[Members(t)[i], MemberPtr(t, a, i)] :
                            i \in IF Kind(t) = "variant" THEN (DOMAIN Members(t)) \cap {mem[a]}
                                  ELSE DOMAIN Members(t)}
    IN  places

\* Whether v holds an object that was not moved away.
HasValue(v) == \A p \in Places[v.type, v.at] : IsLive(p.type, p.at)

-----------------------------------------------------------------------------
\* Statements.  New variables, and temporaries, are at the first free address.
NewPtr(t) == Alloca(t, Free)
TempPtr(t) == Alloca(t, NewPtr(t) + SizeOf(t))

\* Begin a statement that creates n objects itself.
Begin(n, operations) ==
    /\ work' = operations
    /\ begun' = objects
    /\ objects' = objects + n
    /\ UNCHANGED <<types, mem, variables, born, gone, lost>>

\* There is room for a new object of type t and its temporaries.
CanBegin(t) ==
    /\ work = <<>>
    /\ objects < MaxObjects
    /\ NewPtr(t) + 4 * SizeOf(t) <= MemorySize

\* emitInitialise: the destructor is scheduled when the variable has its value.
Initialise(t, n, operations) ==
    /\ CanBegin(t)
    /\ Len(variables) < MaxVariables
    /\ Begin(n, operations \o <<Op("schedule", t, NewPtr(t), NewPtr(t), 0)>>)

InitialiseInPlace(t) == Initialise(t, 0, <<Op("make", t, TempPtr(t), NewPtr(t), 0)>>)

\* The default constructor: its arguments are created, and moved to the members.
InitialiseByDefault(t) ==
    /\ Kind(t) \in {"class", "datatype"}
    /\ LET args == Place([i \in DOMAIN Members(t) |-> view[Members(t)[i], Here]], TempPtr(t))
           id   == objects + 1
       IN  Initialise(t, 1,
               ForMembers(t, LAMBDA i : Op("make", Members(t)[i], args.end, args.offsets[i], id))
               \o ForMembers(t, LAMBDA i : Op("move", Members(t)[i], args.offsets[i],
                                              MemberPtr(t, NewPtr(t), i), 0))
               \o SetLive(t, NewPtr(t), id))

InitialiseMove(v) == Initialise(v.type, 0, <<Op("move", v.type, v.at, NewPtr(v.type), 0)>>)

InitialiseCopy(v) ==
    /\ HasValue(v)
    /\ Initialise(v.type, 0, <<Op("copy", v.type, v.at, NewPtr(v.type), 0)>>)

\* emitAssign: the new value is made first.
Assign(v, value) ==
    /\ CanBegin(v.type)
    /\ Begin(0, <<value, Op("destroy", v.type, v.at, v.at, 0),
                  Op("move", v.type, NewPtr(v.type), v.at, 0)>>)

AssignNew(v)     == Assign(v, Op("make", v.type, TempPtr(v.type), NewPtr(v.type), 0))
AssignMove(v, w) == v.type = w.type /\ Assign(v, Op("move", v.type, w.at, NewPtr(v.type), 0))
AssignCopy(v, w) ==
    /\ v.type = w.type /\ HasValue(w)
    /\ Assign(v, Op("copy", v.type, w.at, NewPtr(v.type), 0))

\* scheduleDestructorCall
Scheduled ==
    /\ At("schedule")
    /\ variables' = Append(variables, [type |-> Type, at |-> To])
    /\ Do(<<>>)
    /\ UNCHANGED <<types, mem, objects, begun, born, gone, lost>>

\* The innermost variable goes out of scope.
EndOfScope ==
    /\ work = <<>> /\ variables # <<>>
    /\ variables' = Front(variables)
    /\ work' = LET v == Last(variables) IN <<Op("destroy", v.type, v.at, v.at, 0)>>
    /\ UNCHANGED <<types, mem, objects, begun, born, gone, lost>>

\* The copy method of a class may throw.  What the statement has made so far is
\* not destroyed by anything.
CopyThrows ==
    /\ At("copy") /\ Kind(Type) = "class"
    /\ work' = <<>>
    /\ lost' = lost \cup {o \in born : o > begun}
    /\ UNCHANGED <<types, mem, variables, objects, begun, born, gone>>

Statement ==
    \/ \E t \in DOMAIN table : HasDestructor[t] /\ (InitialiseInPlace(t) \/ InitialiseByDefault(t))
    \/ \E x \in DOMAIN variables :
        LET v == variables[x]
        IN  \/ InitialiseMove(v) \/ InitialiseCopy(v) \/ AssignNew(v)
            \/ \E y \in DOMAIN variables : AssignMove(v, variables[y]) \/ AssignCopy(v, variables[y])
    \/ EndOfScope

Operation ==
    \/ MakeSimple \/ Make \/ SetOuterLive \/ SetDead \/ StoreTag
    \/ MoveSimple \/ Move \/ MoveVariant
    \/ CopySimple \/ Copy \/ CopyVariant \/ CopyThrows
    \/ DestroySimple \/ Destroy \/ DestroyVariant \/ Kill
    \/ Scheduled

Next == Statement \/ Operation

Spec == Init /\ [][Next]_vars

-----------------------------------------------------------------------------
TypeOK ==
    /\ variables \in Seq([type : DOMAIN table, at : Addresses])
    /\ \A i \in DOMAIN work : work[i].to \in Addresses /\ work[i].type \in DOMAIN table
    /\ mem \in [Addresses -> {0, 1, 2} \cup {Identity(o) : o \in 1 .. objects}]
    /\ born \subseteq 1 .. objects /\ gone \subseteq born /\ lost \subseteq born

\* A destructor is run for one object that was created and not destroyed, finds
\* all its members intact, and its parts still live.
DestructorFindsObject ==
    At("kill") /\ table[Type].destroy =>
        /\ \E o \in born \ (gone \cup lost) : Found = {o}
        /\ \A p \in Places[Type, To] : IsLive(p.type, p.at)

\* Between statements every object that was created and not destroyed is in one
\* place of one variable, and a place that shows a live object has one.
\* Therefore nothing is left when no variable is, except what a copy that threw
\* has lost.
ObjectsInOnePlace ==
    work = <<>> =>
        LET places == {p \in UNION {Places[variables[x].type, variables[x].at] : x \in DOMAIN variables} :
                            table[p.type].destroy /\ IsLive(p.type, p.at)}
            Holds(p, o) == \A b \in OwnBytes(p.type, p.at) : mem[b] = Identity(o)
        IN  /\ \A o \in born \ (gone \cup lost) : \E p \in places : Holds(p, o)
            /\ \A p \in places : \E o \in born \ (gone \cup lost) :
                    Holds(p, o) /\ \A q \in places \ {p} : ~Holds(q, o)
=============================================================================
