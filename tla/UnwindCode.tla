----------------------------- MODULE UnwindCode -----------------------------
(***************************************************************************)
(* Code generation for the statements of one function, and the execution   *)
(* of the code that it generates.                                          *)
(*                                                                         *)
(* In the phase "emit" statements are chosen, one after the other, and     *)
(* each is emitted as StatementEmitter does it: it pushes unwind actions,  *)
(* opens or closes a scope, a loop, a try or a catch, or leaves the place  *)
(* it is at.  A statement that leaves is under a condition, unless it is   *)
(* the last of its scope.  In the phase "run" the blocks are executed,     *)
(* with every outcome of every condition.                                  *)
(*                                                                         *)
(* What the language asks for is stated apart from what is generated: when *)
(* control leaves a place, Plan says which actions have to be run, in      *)
(* which order, and where control has to arrive.  It is computed from the  *)
(* constructs that enclose the place, in the variables todo and goal.      *)
(*                                                                         *)
(* Blocks of statements:                                                   *)
(*                                                                         *)
(*   point     ordinary code; any of the blocks in succ may come next      *)
(*   exit      leaves its place in a state other than an exception's       *)
(*   throw     throws an exception into the landing pad pad                *)
(*   rethrow   throws the exception of the innermost catch again           *)
(*   dispatch  where a catch clause compares its selector with that of the *)
(*             exception; those of a try follow one another                *)
(***************************************************************************)
EXTENDS ScopeExitActions, ExceptionTypes

\* What the functions are made of: the kinds of statements and of scope exits (as
\* pairs <<state, body>>), the lists of types that the clauses of a try may name,
\* whether a catch may contain a throw, and the bound on the statements of a
\* function, a catch clause counting as one.  Each function keeps to one profile.
CONSTANT Profiles

ASSUME UnwindCodeAssumption ==
    /\ Profiles \subseteq
            [statements : SUBSET {"var", "scope", "loop", "break", "continue", "return",
                                  "throw", "rethrow"},
             scopeExits : SUBSET (ScopeExitStates \X Bodies),
             tries : SUBSET (Seq(Types) \ {<<>>}),
             throwInHandlers : BOOLEAN,
             maxStatements : Nat]
    /\ \A p \in Profiles, x \in ScopeExitStates \X {"mayThrow"} :
            x \in p.scopeExits => x[1] = "success"

VARIABLES
    profile,
    phase,
    gen,        \* the emitter: stack, code and made
    at,         \* the point that code is added to; 0 after an unconditional exit
    open,       \* the constructs being emitted, the outermost first
    statements, \* how many statements there are
    bodyPlans,  \* what the language asks for when the block of a scope exit throws
    pc,         \* the block being executed
    unwindState,
    exceptionInfo, \* the last exception that reached a landing pad, and its
                   \* selector: the clause that is to catch it, or 0
    held,       \* by catch clause, the exceptions that were caught and not freed
    todo, goal  \* the actions still to be run, and where to go then

emitVars == <<profile, phase, gen, at, open, statements, bodyPlans>>
runVars  == <<pc, unwindState, exceptionInfo, held, todo, goal>>
vars     == <<profile, phase, gen, at, open, statements, bodyPlans,
              pc, unwindState, exceptionInfo, held, todo, goal>>

\* f, with v at x.
Extend(f, x, v) == [y \in DOMAIN f \cup {x} |-> IF y = x THEN v ELSE f[y]]

Point       == [op |-> "point", succ |-> {}]
NoException == [type |-> NoType, selector |-> 0]
Entry == 3

Init ==
    /\ profile \in Profiles
    /\ phase = "emit"
    /\ gen = [stack |-> <<FunctionMarker(Returned, Resumed), ScopeMarker(5), ScopeMarker(4)>>,
              code |-> <<Point, Point, Point, Point, Point>>, made |-> 0]
    /\ at = Entry
    /\ open = <<>>
    /\ statements = 0
    /\ bodyPlans = <<>>
    /\ pc = Entry /\ unwindState = "Normal"
    /\ exceptionInfo = NoException /\ held = <<>>
    /\ todo = <<>> /\ goal = 0

-----------------------------------------------------------------------------
\* What the language asks for.

LastOf(stack, k) == Max({i \in DOMAIN stack : stack[i].kind = k})

\* Where an exit leads: out of the scope, out of the loop's body, out of the
\* function, or to the innermost try with a clause for an exception's type.
Target(stack, s, type) ==
    CASE s = "Normal"                 -> LastOf(stack, "SCOPEMARKER")
      [] s \in {"Break", "Continue"}  -> LastOf(stack, "CONTROLFLOW")
      [] s = "Return"                 -> 1
      [] s \in ExceptionStates        ->
            Max({1} \cup {i \in DOMAIN stack :
                             stack[i].kind = "CATCH" /\ IsA(type, stack[i].type)})

\* Variables are always destroyed, scope exits run on success or on failure as
\* they say, and an exception that replaces another releases it.  Whether an
\* exception is released otherwise is the subject of ExceptionsFreed.
MustRun(stack, i, s) ==
    CASE stack[i].kind = "DESTRUCTOR" -> TRUE
      [] stack[i].kind = "SCOPEEXIT"  ->
            stack[i].when = "exit" \/ (stack[i].when = "failure" <=> s \in ExceptionStates)
      [] stack[i].kind = "DESTROYEXCEPTION" ->
            s = "Throw" \/ (s = "Rethrow" /\ i # LastOf(stack, "DESTROYEXCEPTION"))
      [] OTHER -> FALSE

Plan(stack, s, type) ==
    LET t == Target(stack, s, type)
        from[i \in t .. Len(stack)] ==
            CASE i = t -> <<>>
              [] i > t /\ MustRun(stack, i, s) -> <<stack[i].id>> \o from[i - 1]
              [] OTHER -> from[i - 1]
    IN  [todo |-> from[Len(stack)],
         goal |-> stack[t].to[IF s \in ExceptionStates THEN "Throw" ELSE s]]

ExceptionPlans(stack, s) == [t \in Types |-> Plan(stack, s, t)]

\* The clause of a try that is to handle an exception: the first for its type.
FirstFor(types, t) ==
    LET fit == {i \in DOMAIN types : IsA(t, types[i])} IN IF fit = {} THEN 0 ELSE Min(fit)

-----------------------------------------------------------------------------
\* Emission.

Flow(g, from, to) ==
    IF from = 0 THEN g ELSE [g EXCEPT !.code[from].succ = @ \cup {to}]
Push(g, a)   == [g EXCEPT !.stack = Append(@, a)]
Pop(g)       == [g EXCEPT !.stack = Front(@)]
NewPoints(g, n) == [g EXCEPT !.code = @ \o [i \in 1 .. n |-> Point]]
Nth(g, n)  == Len(g.code) + n     \* the n-th block from now

\* A new scope, whose end is a new block.
OpenScopeOf(g) == Push(NewPoints(g, 1), ScopeMarker(Nth(g, 1)))

\* Go from p to a block that leaves in state s.
EmitExit(g, p, s, next) ==
    Flow(Emit(g, [op |-> "exit", store |-> IF next = Returned THEN Keep ELSE UnwindStore(s),
                  next |-> next, plan |-> Plan(g.stack, s, NoType)]), p, Len(g.code) + 1)

\* genUnwind and emitReturn.
EmitUnwind(g, p, s) ==
    IF s = "Return" /\ ~AnyUnwindActions(g.stack, s)
    THEN EmitExit(g, p, s, Returned)
    ELSE LET h == GenUnwindBlock(g, s) IN EmitExit(h, p, s, h.made)

\* emitThrow, and calls of functions that may throw.
EmitThrow(g, p) ==
    LET h == IF AnyUnwindActions(g.stack, "Throw") THEN GenThrowPad(g) ELSE NoPad(g, 1)
    IN  Flow(Emit(h, [op |-> "throw", pad |-> h.made, plans |-> ExceptionPlans(g.stack, "Throw")]),
             p, Len(h.code) + 1)

\* emitRethrow: of the exception of the innermost catch.
EmitRethrow(g, p) ==
    LET a == g.stack[LastOf(g.stack, "DESTROYEXCEPTION")]
        h == IF AnyUnwindRethrowActions(g.stack) THEN GenRethrowPad(g) ELSE NoPad(g, 1)
    IN  Flow(Emit(h, [op |-> "rethrow", pad |-> h.made, id |-> a.id,
                      plans |-> ExceptionPlans(g.stack, "Rethrow")]), p, Len(h.code) + 1)

\* The end of a scope: its actions are run if the end can be reached, and are
\* popped together with the scope's marker.
EndScope(g, p) ==
    LET m == LastOf(g.stack, "SCOPEMARKER")
        h == CASE p = 0 -> g
               [] p # 0 /\ AnyUnwindCleanupActions(g.stack, "Normal") -> EmitUnwind(g, p, "Normal")
               [] OTHER -> EmitExit(g, p, "Normal", g.stack[m].to["Normal"])
    IN  [h EXCEPT !.stack = SubSeq(@, 1, m - 1)]

ScopeEnd(g, p) == IF p = 0 THEN 0 ELSE g.stack[LastOf(g.stack, "SCOPEMARKER")].to["Normal"]

NewId == statements + 1

\* Add a statement, given the emitter after it and the point it leads to.
Statement(g, p) ==
    /\ gen' = g
    /\ at' = p
    /\ statements' = statements + 1

CanEmit == phase = "emit" /\ at # 0 /\ statements < profile.maxStatements

Construct(k, a, b, d) == [what |-> k, start |-> a, end |-> b, dispatch |-> d]

-----------------------------------------------------------------------------
EmitVar ==
    /\ CanEmit /\ "var" \in profile.statements
    /\ Statement(Push(gen, Destructor(NewId)), at)
    /\ UNCHANGED <<profile, phase, open, bodyPlans, runVars>>

EmitScopeExit(x) ==
    /\ CanEmit
    /\ Statement(Push(gen, ScopeExit(NewId, x[1], x[2])), at)
    /\ bodyPlans' = Extend(bodyPlans, NewId, ExceptionPlans(gen.stack, "Throw"))
    /\ UNCHANGED <<profile, phase, open, runVars>>

EmitScope ==
    /\ CanEmit /\ "scope" \in profile.statements
    /\ Statement(OpenScopeOf(gen), at)
    /\ open' = Append(open, Construct("scope", 0, 0, 0))
    /\ UNCHANGED <<profile, phase, bodyPlans, runVars>>

\* emitLoop up to the iteration scope.  The four points are the condition, the
\* iteration, the advance block and the end.
EmitLoop ==
    /\ CanEmit /\ "loop" \in profile.statements
    /\ LET c == Nth(gen, 1)
           g == Flow(Flow(Flow(NewPoints(gen, 4), at, c), c, c + 1), c, c + 3)
       IN  /\ Statement(OpenScopeOf(Push(g, ControlFlow(c + 3, c + 2))), c + 1)
           /\ open' = Append(open, Construct("loop", c, c + 3, 0))
    /\ UNCHANGED <<profile, phase, bodyPlans, runVars>>

\* TryScope pushes the clauses in reverse order, and pops them again.
PushCatches(g, d, types) ==
    [g EXCEPT !.stack =
        @ \o Reverse([i \in DOMAIN types |-> CatchException(d, statements + i, types[i])])]
PopCatches(g, types) == [g EXCEPT !.stack = SubSeq(@, 1, Len(@) - Len(types))]

\* Where the n-th clause of a try is compared; the first of these is its start.
Dispatch(start, id, types, n) ==
    [op |-> "dispatch", start |-> start, id |-> id, types |-> types, nth |-> n,
     next |-> 0, handler |-> 0]

\* emitTry up to the try scope.  The try is open until its last catch ends.
EmitTry(types) ==
    /\ CanEmit /\ statements + Len(types) <= profile.maxStatements
    /\ LET d == Nth(gen, 1)
           g == NewPoints(Emit(gen, Dispatch(d, NewId, types, 1)), 1)
       IN  /\ gen' = OpenScopeOf(PushCatches(g, d, types))
           /\ open' = Append(open, Construct("try", d, d + 1, d))
    /\ statements' = statements + Len(types)
    /\ UNCHANGED <<profile, phase, at, bodyPlans, runVars>>

\* break, continue and return.
EmitLeave(k, s, last) ==
    /\ CanEmit /\ k \in profile.statements
    /\ s \in {"Break", "Continue"} => \E i \in DOMAIN gen.stack : gen.stack[i].kind = "CONTROLFLOW"
    /\ Statement(EmitUnwind(gen, at, s), IF last THEN 0 ELSE at)
    /\ UNCHANGED <<profile, phase, open, bodyPlans, runVars>>

InHandler == \E i \in DOMAIN gen.stack : gen.stack[i].kind = "DESTROYEXCEPTION"

EmitThrowStatement(last) ==
    /\ CanEmit /\ "throw" \in profile.statements
    /\ profile.throwInHandlers \/ ~InHandler
    /\ Statement(EmitThrow(gen, at), IF last THEN 0 ELSE at)
    /\ UNCHANGED <<profile, phase, open, bodyPlans, runVars>>

\* A rethrow is inside a catch, and in no try inside that catch.
EmitRethrowStatement(last) ==
    /\ CanEmit /\ "rethrow" \in profile.statements
    /\ InHandler
    /\ \A i \in DOMAIN gen.stack :
            gen.stack[i].kind = "CATCH" => i < LastOf(gen.stack, "DESTROYEXCEPTION")
    /\ Statement(EmitRethrow(gen, at), IF last THEN 0 ELSE at)
    /\ UNCHANGED <<profile, phase, open, bodyPlans, runVars>>

-----------------------------------------------------------------------------
\* The end of the innermost construct.
Innermost(k) == phase = "emit" /\ open # <<>> /\ Last(open).what = k

Close == open' = Front(open)

CloseScope ==
    /\ Innermost("scope")
    /\ gen' = EndScope(gen, at)
    /\ at' = ScopeEnd(gen, at)
    /\ Close
    /\ UNCHANGED <<profile, phase, statements, bodyPlans, runVars>>

\* The rest of emitLoop.
CloseLoop ==
    /\ Innermost("loop")
    /\ LET c == Last(open).start
           g == Pop(EndScope(gen, at))
       IN  gen' = Flow(Flow(g, ScopeEnd(gen, at), c + 2), c + 2, c)
    /\ at' = Last(open).end
    /\ Close
    /\ UNCHANGED <<profile, phase, statements, bodyPlans, runVars>>

\* The start of the catch whose clause is compared in block d.
BeginCatch(g, d) ==
    LET h == NewPoints([g EXCEPT !.code[d].handler = Nth(g, 1)], 1)
    IN  OpenScopeOf(Push(Push(OpenScopeOf(h), RethrowScope), DestroyException(g.code[d].id)))

\* The end of a try scope, and the start of its first catch.
CloseTry ==
    /\ Innermost("try")
    /\ LET d == Last(open).start
           g == Flow(PopCatches(EndScope(gen, at), gen.code[d].types), ScopeEnd(gen, at),
                     Last(open).end)
       IN  gen' = BeginCatch(g, d) /\ at' = Nth(g, 1)
    /\ open' = Front(open) \o <<[Last(open) EXCEPT !.what = "catch"]>>
    /\ UNCHANGED <<profile, phase, statements, bodyPlans, runVars>>

\* The end of a catch: of its two scopes.
EndCatch ==
    LET g == EndScope(gen, at)
        p == ScopeEnd(gen, at)
    IN  Flow(EndScope(g, p), ScopeEnd(g, p), Last(open).end)

\* The clause that is being emitted.
Clause == gen.code[Last(open).dispatch]

\* The next clause of the try is compared, and its catch starts.
NextCatch ==
    /\ Innermost("catch")
    /\ Clause.nth < Len(Clause.types)
    /\ \E g \in {Emit(EndCatch, Dispatch(Clause.start, Clause.id + 1, Clause.types,
                                        Clause.nth + 1))} :
       LET d == g.made
       IN  /\ gen' = BeginCatch([g EXCEPT !.code[Last(open).dispatch].next = d], d)
           /\ at' = Nth(g, 1)
           /\ open' = Front(open) \o <<[Last(open) EXCEPT !.dispatch = d]>>
    /\ UNCHANGED <<profile, phase, statements, bodyPlans, runVars>>

\* After the last clause the unwinding goes on; the end of the try can be reached
\* if that of its scope or of a catch can be.
CloseCatch ==
    /\ Innermost("catch")
    /\ Clause.nth = Len(Clause.types)
    /\ \E g \in {EndCatch} :
       LET u == GenUnwindBlock(g, "Throw")
       IN  /\ gen' = [u EXCEPT !.code[Last(open).dispatch].next = u.made]
           /\ at' = IF \E b \in DOMAIN g.code :
                            g.code[b].op = "point" /\ Last(open).end \in g.code[b].succ
                    THEN Last(open).end ELSE 0
    /\ open' = Front(open)
    /\ UNCHANGED <<profile, phase, statements, bodyPlans, runVars>>

\* The end of the function: of the scope of its body, and of its own.
Finish ==
    /\ phase = "emit" /\ open = <<>>
    /\ LET g == EndScope(gen, at)
           p == ScopeEnd(gen, at)
           h == Flow(EndScope(g, p), ScopeEnd(g, p), Returned)
       IN  gen' = [h EXCEPT !.stack = <<>>, !.made = 0]
    /\ phase' = "run"
    /\ UNCHANGED <<profile, at, open, statements, bodyPlans, runVars>>

-----------------------------------------------------------------------------
\* Execution.

Block == gen.code[pc]
At(op) == phase = "run" /\ Block.op = op

Store(s) == unwindState' = IF s = Keep THEN unwindState ELSE s
Follow(plan) == todo' = plan.todo /\ goal' = plan.goal

RunPoint ==
    /\ At("point")
    /\ pc' \in Block.succ
    /\ todo' = <<>> /\ goal' = 0
    /\ UNCHANGED <<emitVars, unwindState, exceptionInfo, held>>

RunExit ==
    /\ At("exit")
    /\ pc' = Block.next
    /\ Store(Block.store)
    /\ Follow(Block.plan)
    /\ UNCHANGED <<emitVars, exceptionInfo, held>>

RunJump ==
    /\ At("jump") \/ At("pad")
    /\ pc' = Block.next
    /\ Store(Block.store)
    /\ UNCHANGED <<emitVars, exceptionInfo, held, todo, goal>>

\* The personality function: an exception enters the landing pad, whether it
\* is to be handled or cleaned up after, or leaves a function that has none.
Raise(type, pad) ==
    IF pad = 0
    THEN pc' = Resumed /\ exceptionInfo' = NoException
    ELSE /\ pc' = pad
         /\ exceptionInfo' = [type |-> type,
                              selector |-> HandleAction(gen.code[pad].clauses, type)]

RunThrow(type) ==
    /\ At("throw")
    /\ Raise(type, Block.pad)
    /\ Follow(Block.plans[type])
    /\ UNCHANGED <<emitVars, unwindState, held>>

Free(id) == held' = Restrict(held, DOMAIN held \ {id})

\* The exception of the innermost catch is thrown again.
RunRethrow ==
    /\ At("rethrow")
    /\ Raise(held[Block.id], Block.pad)
    /\ Follow(Block.plans[held[Block.id]])
    /\ Free(Block.id)
    /\ UNCHANGED <<emitVars, unwindState>>

\* The branch or switch at the end of an action's block.
Successor(b, s) ==
    LET c == {i \in DOMAIN b.cases : b.cases[i].state = s}
    IN  IF c = {} THEN b.next ELSE b.cases[Min(c)].next

\* A loop in the block of a scope exit may leave the state normal, and a try in
\* it leaves an exception of its own, for which the function has no clause.
RunAct ==
    /\ At("act")
    /\ \E s \in {unwindState} \cup (IF Block.body = "loop" THEN {"Normal"} ELSE {}) :
            unwindState' = s /\ pc' = Successor(Block, s)
    /\ exceptionInfo' \in {exceptionInfo} \cup (IF Block.body = "try" THEN {NoException} ELSE {})
    /\ todo' = IF todo = <<>> THEN todo ELSE Tail(todo)
    /\ Free(Block.id)
    /\ UNCHANGED <<emitVars, goal>>

RunBodyThrows(type) ==
    /\ At("act")
    /\ Block.body = "mayThrow"
    /\ Raise(type, Block.pad)
    /\ Follow(bodyPlans[Block.id][type])
    /\ UNCHANGED <<emitVars, unwindState, held>>

Selected == exceptionInfo.selector = Block.id

RunCatch ==
    /\ At("dispatch") /\ Selected
    /\ pc' = Block.handler
    /\ held' = Extend(held, Block.id, exceptionInfo.type)
    /\ todo' = <<>> /\ goal' = 0
    /\ UNCHANGED <<emitVars, unwindState, exceptionInfo>>

RunNoCatch ==
    /\ At("dispatch") /\ ~Selected
    /\ pc' = Block.next
    /\ UNCHANGED <<emitVars, unwindState, exceptionInfo, held, todo, goal>>

\* The function has returned, or has let an exception through.
RunEnded ==
    /\ phase = "run" /\ pc \in {Returned, Resumed}
    /\ UNCHANGED vars
-----------------------------------------------------------------------------
Emission ==
    \/ EmitVar \/ EmitScope \/ EmitLoop
    \/ \E x \in profile.scopeExits : EmitScopeExit(x)
    \/ \E types \in profile.tries : EmitTry(types)
    \/ \E last \in BOOLEAN :
            \/ EmitLeave("break", "Break", last)
            \/ EmitLeave("continue", "Continue", last)
            \/ EmitLeave("return", "Return", last)
            \/ EmitThrowStatement(last)
            \/ EmitRethrowStatement(last)
    \/ CloseScope \/ CloseLoop \/ CloseTry \/ NextCatch \/ CloseCatch \/ Finish

Execution ==
    \/ RunPoint \/ RunExit \/ RunJump \/ RunAct \/ RunRethrow \/ RunCatch \/ RunNoCatch
    \/ \E t \in Types : RunThrow(t) \/ RunBodyThrows(t)
    \/ RunEnded

Next == Emission \/ Execution

Spec == Init /\ [][Next]_vars

-----------------------------------------------------------------------------
\* The blocks that a block may be followed by.
Targets(b) ==
    CASE b.op = "point"                   -> b.succ
      [] b.op \in {"exit", "jump", "pad"} -> {b.next}
      [] b.op = "act"                     ->
            {b.cases[i].next : i \in DOMAIN b.cases} \cup {b.next} \cup ({b.pad} \ {0})
      [] b.op \in {"throw", "rethrow"}    -> {b.pad} \ {0}
      [] b.op = "dispatch"                -> {b.next, b.handler}

\* The finished code is closed, and execution stays in it.
TypeOK ==
    /\ phase \in {"emit", "run"}
    /\ at \in 0 .. Len(gen.code)
    /\ statements \in 0 .. profile.maxStatements
    /\ pc \in DOMAIN gen.code
    /\ unwindState \in States
    /\ exceptionInfo \in [type : Types \cup {NoType}, selector : 0 .. statements]
    /\ DOMAIN held \subseteq 1 .. statements /\ Range(held) \subseteq Types
    /\ todo \in Seq(1 .. statements)
    /\ goal \in 0 .. Len(gen.code)
    /\ phase = "run" => \A n \in DOMAIN gen.code : Targets(gen.code[n]) \subseteq DOMAIN gen.code

\* Every destructor and scope exit that is executed is the one whose turn it
\* is, however many exits of different states share its block.
ActionsInTurn == At("act") => todo # <<>> /\ Head(todo) = Block.id

\* When unwinding is over, control has arrived where the statement that began
\* it leads - the end of its scope or loop, the caller, or the innermost try with
\* a clause for the exception, and there the first such clause and no other - and
\* nothing that had to be run was left out.
ArrivesAtGoal ==
    /\ At("point") /\ goal # 0 => pc = goal /\ todo = <<>>
    /\ At("dispatch") =>
            /\ Selected <=> /\ Block.start = goal
                            /\ Block.nth = FirstFor(Block.types, exceptionInfo.type)
            /\ Selected => todo = <<>>

\* unwindState is zero, "normal execution", whenever ordinary code is executed.
UnwindStateReset ==
    At("point") /\ pc \notin {Returned, Resumed} => unwindState = "Normal"

\* It is in functions that do not rethrow.
RunsInNormalState == "rethrow" \notin profile.statements => UnwindStateReset

\* Every exception that was caught has been freed when the function is left,
\* unless it was thrown again.
ExceptionsFreed == phase = "run" /\ pc \in {Returned, Resumed} => held = <<>>

\* What LLVM asks of a landing pad: a handler, or a cleanup.  (The landing pad of
\* a rethrow may have neither.)
PadsWellFormed ==
    "rethrow" \notin profile.statements =>
        \A n \in DOMAIN gen.code :
            gen.code[n].op = "pad" => gen.code[n].clauses # <<>> \/ gen.code[n].cleanup
=============================================================================
