----------------------------- MODULE ExitStates -----------------------------
(***************************************************************************)
(* The exit states of statements and scopes: the ways in which they may be *)
(* left, as the compiler computes them while it builds the syntax tree     *)
(* (AST::ExitStates, the constructors of AST::Statement, and               *)
(* Scope::exitStates).  A function is rejected if it is declared noexcept  *)
(* and has a throwing exit, or returns a value and has a normal one.       *)
(*                                                                         *)
(* Next to them, computed from what the statements do when they run, are   *)
(* the ways in which they can be left.  The two are compared for every     *)
(* tree that can be built bottom up, a statement at a time.                *)
(*                                                                         *)
(* A throwing exit comes with a predicate on template variables: where it  *)
(* is true nothing is thrown.  Here it is the set of the assignments to    *)
(* the variables that make it true, so that And, Or, True and False are    *)
(* intersection, union, all and none.                                      *)
(***************************************************************************)
EXTENDS Integers, Sequences, SequencesExt

CONSTANTS
    Assignments,    \* to template variables
    Predicates,     \* those of the functions that are called
    MaxStatements,  \* bound: statements of a scope
    MaxParts,       \* bound: scopes that are not part of a statement yet
    MaxBuilt        \* bound: statements that are built

ASSUME ExitStatesAssumption ==
    /\ Predicates \subseteq SUBSET Assignments
    /\ {MaxStatements, MaxParts, MaxBuilt} \subseteq Nat

VARIABLES
    scope,  \* the statements of the scope that is being built
    parts,  \* the scopes that were built and are to be parts of statements
    built   \* how many statements were built

vars == <<scope, parts, built>>

States      == {"normal", "return", "break", "continue", "throw", "rethrow"}
AllThrowing == {"throw", "rethrow"}
NonThrowing == States \ AllThrowing

-----------------------------------------------------------------------------
\* AST::ExitStates
Exits(states)           == [states |-> states, noexcept |-> Assignments]
Throws(predicate)       == [states |-> {"throw"}, noexcept |-> predicate]
None                    == Exits({})
ThrowAlways             == Throws({})

AddExits(e, f) == [states |-> e.states \cup f.states, noexcept |-> e.noexcept \cap f.noexcept]

AddAll(e, exits) ==
    [states   |-> e.states \cup UNION {f.states : f \in exits},
     noexcept |-> {a \in e.noexcept : \A f \in exits : a \in f.noexcept}]

RemoveExits(e, states) ==
    [states |-> e.states \ states,
     noexcept |-> IF "throw" \in e.states \cap states THEN Assignments ELSE e.noexcept]

\* operator& with AllThrowing(), whose predicate is false.
ThrowingStates(e) == [e EXCEPT !.states = @ \cap AllThrowing]

Has(e, state)         == state \in e.states
OnlyHas(e, states)    == e.states \subseteq states

-----------------------------------------------------------------------------
\* Scope::exitStates

\* Mutants of AfterScopeSuccess: a scope(success) that always throws leaves
\* pending what it replaces; one that may throw counts as one that always does.
KeepsPending(x, s) ==
    [x EXCEPT !.always = @ \/ ~Has(s.body.exits, "normal"),
              !.pending = AddExits(@, ThrowingStates(s.body.exits))]
BlocksIfItMayThrow(x, s) ==
    LET throws == s.body.exits.states \cap AllThrowing # {}
    IN  [x EXCEPT !.always = @ \/ throws,
                  !.pending = AddExits(IF throws THEN None ELSE @, ThrowingStates(s.body.exits))]

\* What a scope(success) s changes: from now on an exit that does not throw runs
\* it, and may be replaced by what it throws.
AfterScopeSuccess(x, s) ==
    LET always == ~Has(s.body.exits, "normal")
    IN  [x EXCEPT !.always = @ \/ always,
                  !.pending = AddExits(IF always THEN None ELSE @, ThrowingStates(s.body.exits))]

\* The exits e that a scope(success) above does not prevent.
Unblocked(x, e) == IF x.always THEN RemoveExits(e, NonThrowing) ELSE e

\* One statement: its exits, other than to the next statement, leave the scope.
AfterStatement(x, s) ==
    LET leaving == RemoveExits(s.exits, {"normal"})
        pending == IF OnlyHas(leaving, AllThrowing) THEN None ELSE x.pending
        y == [x EXCEPT !.exits = AddExits(AddExits(@, pending), Unblocked(x, leaving)),
                       !.ended = ~Has(s.exits, "normal"), !.last = s.exits]
    IN  CASE x.ended -> x
          [] ~x.ended /\ s.kind = "success" -> AfterScopeSuccess(y, s)
          [] ~x.ended /\ s.kind # "success" -> y

ScopeExitStates(statements) ==
    LET x == FoldLeft(AfterStatement,
                      [exits |-> None, always |-> FALSE, pending |-> None, ended |-> FALSE,
                       last |-> Exits({"normal"})],
                      statements)
        pending == IF OnlyHas(x.last, AllThrowing) THEN None ELSE x.pending
    IN  AddExits(AddExits(x.exits, pending), Unblocked(x, x.last))

-----------------------------------------------------------------------------
\* What happens: "can" maps an assignment to the ways in which a statement or
\* scope can be left when it is run.

\* Left by any of the outcomes of one, or if it ends normally by those of next.
Then(one, next) ==
    [a \in Assignments |-> (one[a] \ {"normal"}) \cup (IF "normal" \in one[a] THEN next[a] ELSE {})]

Either(one, other) == [a \in Assignments |-> one[a] \cup other[a]]

Always(state) == [a \in Assignments |-> {state}]

\* Whether a scope exit runs when its scope is left in this way.
Runs(s, state) ==
    CASE s.kind = "exit" -> TRUE
      [] s.kind = "success" -> state \in NonThrowing
      [] s.kind = "failure" -> state \in AllThrowing

\* What becomes of the outcomes of the statements after the scope exit s: its
\* body runs, and lets go on what it does not replace.
ThroughScopeExit(s, rest) ==
    [a \in Assignments |->
        {o \in rest[a] : Runs(s, o) => "normal" \in s.body.can[a]}
        \cup (IF \E o \in rest[a] : Runs(s, o) THEN s.body.can[a] \ {"normal"} ELSE {})]

ScopeCan(statements) ==
    FoldRight(LAMBDA s, rest : IF s.kind = "plain" THEN Then(s.can, rest) ELSE ThroughScopeExit(s, rest),
              statements, Always("normal"))

\* Statement i of a scope is run; for a scope exit, its body is.
Reached(statements, a, i) == \A j \in 1 .. i - 1 : "normal" \in statements[j].can[a]

Executed(statements, i) ==
    \E a \in Assignments :
        /\ Reached(statements, a, i)
        /\ statements[i].kind = "plain" \/
           \E o \in ScopeCan(SubSeq(statements, i + 1, Len(statements)))[a] : Runs(statements[i], o)

-----------------------------------------------------------------------------
\* AST::Statement: each constructor with what the statement does.

Plain(exits, can) == [kind |-> "plain", exits |-> exits, can |-> can, body |-> <<>>]

Part(statements) == [exits |-> ScopeExitStates(statements), can |-> ScopeCan(statements)]

\* Values: one that cannot throw, and a call of a function with predicate p.
Call(p) ==
    [exits |-> IF p = Assignments THEN Exits({"normal"}) ELSE AddExits(Exits({"normal"}), Throws(p)),
     can   |-> [a \in Assignments |-> {"normal"} \cup (IF a \in p THEN {} ELSE {"throw"})]]

Values == {Call(p) : p \in Predicates \cup {Assignments}}

ValueStmt(v) == Plain(v.exits, v.can)
Return(v)    == Plain(AddExits(Exits({"return"}), ThrowingStates(v.exits)), Then(v.can, Always("return")))
Assign(l, r) == Plain(AddExits(ThrowingStates(r.exits), l.exits), Then(r.can, l.can))
Throw        == Plain(ThrowAlways, Always("throw"))
Leave(state) == Plain(Exits({state}), Always(state))
Unreachable  == Plain(None, [a \in Assignments |-> {}])
ScopeStmt(p) == Plain(p.exits, p.can)

If(v, then, else) ==
    Plain(AddAll(None, {ThrowingStates(v.exits), then.exits, else.exits}),
          Then(v.can, Either(then.can, else.can)))

Switch(v, one, other) ==
    Plain(AddAll(ThrowingStates(v.exits), {one.exits, other.exits}),
          Then(v.can, Either(one.can, other.can)))

\* Where the iteration leads: a break ends the loop, and the end and a continue
\* go on with advance and the next condition.
Loop(condition, iteration, advance) ==
    LET broken == IF Has(iteration.exits, "break") THEN Exits({"normal"}) ELSE None
        again  == [a \in Assignments |->
                      (iteration.can[a] \ {"normal", "continue", "break"})
                      \cup (IF "break" \in iteration.can[a] THEN {"normal"} ELSE {})
                      \cup (IF iteration.can[a] \cap {"normal", "continue"} # {}
                            THEN advance.can[a] \ {"normal"} ELSE {})]
    IN  Plain(AddAll(condition.exits,
                     {broken, RemoveExits(iteration.exits, {"continue", "break"}),
                      RemoveExits(advance.exits, {"normal"})}),
              Then(condition.can, Either(Always("normal"), again)))

\* An exception is caught if its type is that of the catch clause.
Try(body, catch) ==
    LET rethrown == IF Has(catch.exits, "rethrow") THEN ThrowAlways ELSE None
    IN  Plain(AddAll(body.exits, {rethrown, RemoveExits(catch.exits, {"rethrow"})}),
              [a \in Assignments |->
                  body.can[a] \cup
                  (IF "throw" \in body.can[a]
                   THEN {IF o = "rethrow" THEN "throw" ELSE o : o \in catch.can[a]} ELSE {})])

\* The program is terminated if the body throws.
AssertNoExcept(body) ==
    Plain(RemoveExits(body.exits, AllThrowing), [a \in Assignments |-> body.can[a] \ AllThrowing])

ScopeExit(state, body) ==
    [kind |-> state, exits |-> Exits({"normal"}), can |-> Always("normal"), body |-> body]

-----------------------------------------------------------------------------
\* DeadCodeSearchScope

ScopeExitSeen(w, s, i) ==
    LET never == ~Has(s.body.exits, "normal")
    IN  CASE s.kind = "exit"    -> [w EXCEPT !.exit = {i}]
          [] s.kind = "failure" -> [w EXCEPT !.exit = {}, !.failure = {i}]
          [] s.kind = "success" ->
                [w EXCEPT !.exit = {}, !.success = {i},
                          !.failure = IF never THEN {} ELSE @,
                          !.reported = IF never THEN @ \cup w.success ELSE @]

\* Mutant of LeavingSeen: an exit that throws does not count for scope(failure).
ForgetsFailure(w, s) ==
    LET leaves == s.exits.states \ {"normal"} # {}
    IN  [w EXCEPT !.ended = ~Has(s.exits, "normal"),
                  !.exit    = IF leaves THEN {} ELSE @,
                  !.success = IF leaves /\ ~OnlyHas(s.exits, AllThrowing) THEN {} ELSE @]

\* A statement that may leave the scope may run the scope exits above it.
LeavingSeen(w, s) ==
    LET leaves == s.exits.states \ {"normal"} # {}
    IN  [w EXCEPT !.ended = ~Has(s.exits, "normal"),
                  !.exit    = IF leaves THEN {} ELSE @,
                  !.success = IF leaves /\ ~OnlyHas(s.exits, AllThrowing) THEN {} ELSE @,
                  !.failure = IF s.exits.states \cap AllThrowing # {} THEN {} ELSE @]

\* Statement i.
See(statements, w, i) ==
    LET s == statements[i]
    IN  IF w.ended THEN [w EXCEPT !.reported = @ \cup {i}]
        ELSE LeavingSeen(IF s.kind = "plain" THEN w ELSE ScopeExitSeen(w, s, i), s)

NothingSeen == [ended |-> FALSE, exit |-> {}, failure |-> {}, success |-> {}, reported |-> {}]

\* The statements of a scope that are reported as never executed.
Reported(statements) ==
    LET w == FoldLeftDomain(LAMBDA seen, i : See(statements, seen, i), NothingSeen, statements)
    IN  w.reported \cup w.failure \cup (IF w.ended THEN w.exit \cup w.success ELSE {})

-----------------------------------------------------------------------------
Init == scope = <<>> /\ parts = <<>> /\ built = 0

\* Append a statement to the scope, of which the last n parts are parts.
Build(n, statement) ==
    /\ Len(scope) < MaxStatements /\ built < MaxBuilt
    /\ scope' = Append(scope, statement)
    /\ parts' = SubSeq(parts, 1, Len(parts) - n)
    /\ built' = built + 1

Last1 == parts[Len(parts)]
Last2 == parts[Len(parts) - 1]

BuildLeaf ==
    \/ \E v \in Values : Build(0, ValueStmt(v)) \/ Build(0, Return(v))
    \/ \E v, w \in Values : Build(0, Assign(v, w))
    \/ \E state \in {"rethrow", "break", "continue"} : Build(0, Leave(state))
    \/ Build(0, Throw)
    \/ Build(0, Unreachable)

BuildOfOne ==
    /\ Len(parts) >= 1
    /\ \/ Build(1, ScopeStmt(Last1))
       \/ Build(1, AssertNoExcept(Last1))
       \/ \E v, w \in Values : Build(1, Loop(v, Last1, w))

\* No scope exit can be left by return, break or continue, and only a
\* scope(success) by throwing.
BuildScopeExit ==
    /\ Len(parts) >= 1
    /\ \E kind \in {"exit", "success", "failure"} :
        /\ OnlyHas(Last1.exits, {"normal"} \cup (IF kind = "success" THEN AllThrowing ELSE {}))
        /\ Build(1, ScopeExit(kind, Last1))

\* A rethrow cannot leave a try.
BuildOfTwo ==
    /\ Len(parts) >= 2
    /\ \/ \E v \in Values : Build(2, If(v, Last2, Last1)) \/ Build(2, Switch(v, Last2, Last1))
       \/ ~Has(Last2.exits, "rethrow") /\ Build(2, Try(Last2, Last1))

EndScope ==
    /\ Len(parts) < MaxParts
    /\ parts' = Append(parts, Part(scope))
    /\ scope' = <<>>
    /\ UNCHANGED built

Next == BuildLeaf \/ BuildOfOne \/ BuildScopeExit \/ BuildOfTwo \/ EndScope

Spec == Init /\ [][Next]_vars

-----------------------------------------------------------------------------
Outcomes == SUBSET States

TypeOK ==
    /\ built \in 0 .. MaxBuilt
    /\ \A i \in DOMAIN scope :
        /\ scope[i].exits \in [states : Outcomes, noexcept : SUBSET Assignments]
        /\ scope[i].can \in [Assignments -> Outcomes]

\* A scope is left only by its exit states, and does not throw where its noexcept
\* predicate is true: so a function that is accepted as noexcept does not throw,
\* and one that is accepted although it returns a value does not reach its end.
\* The predicate of a scope without a throwing exit is true.
ExitsCoverOutcomes ==
    LET e   == ScopeExitStates(scope)
        can == ScopeCan(scope)
    IN  /\ "throw" \notin e.states => e.noexcept = Assignments
        /\ \A a \in Assignments :
            /\ can[a] \subseteq e.states
            /\ a \in e.noexcept => "throw" \notin can[a]

\* A part is exact if it can be left in each of its exit states whatever the
\* assignment, except that it throws just where its predicate is false.
Exact(p) ==
    \A a \in Assignments :
        p.can[a] = p.exits.states \ (IF a \in p.exits.noexcept THEN {"throw"} ELSE {})

\* Scope::exitStates invents nothing: if its statements are exact then so is the
\* scope, whichever scope(success) blocks throw and whatever they prevent.  (That
\* a scope(exit) or scope(failure) may not end is not looked at.)
ScopeIsExact ==
    (\A i \in DOMAIN scope :
        /\ Exact(scope[i])
        /\ scope[i].kind # "plain" => Exact(scope[i].body)
        /\ scope[i].kind \in {"exit", "failure"} => Has(scope[i].body.exits, "normal"))
    => Exact(Part(scope))

\* What is reported as never executed is never executed.  There is one exception:
\* a scope(failure) above a scope(success) that may throw, and may not.
ReportsTrue ==
    \A i \in Reported(scope) :
        \/ ~Executed(scope, i)
        \/ /\ scope[i].kind = "failure"
           /\ \E j \in i + 1 .. Len(scope) :
                scope[j].kind = "success" /\ "normal" \in scope[j].body.exits.states
=============================================================================
