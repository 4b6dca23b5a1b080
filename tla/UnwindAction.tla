---------------------------- MODULE UnwindAction ----------------------------
(***************************************************************************)
(* The elements of the unwind stack that code generation keeps while it    *)
(* emits a function (UnwindAction in lib/CodeGen): for each kind, whether  *)
(* it ends an unwinding, which states of unwinding it takes part in, and   *)
(* which states share the one block that is generated for it.              *)
(***************************************************************************)
EXTENDS Integers

\* UnwindState.
States          == {"Normal", "Return", "Break", "Continue", "Throw", "Rethrow"}
ExceptionStates == {"Throw", "Rethrow"}
NormalStates    == States \ ExceptionStates

Terminators == {"CATCH", "SCOPEMARKER", "CONTROLFLOW", "FUNCTIONMARKER", "RETHROWSCOPE"}
Kinds       == Terminators \cup {"DESTRUCTOR", "SCOPEEXIT", "DESTROYEXCEPTION"}

\* scope (exit), scope (success) and scope (failure).
ScopeExitStates == {"exit", "success", "failure"}

\* What the block of a scope (...) does, as far as unwinding is concerned: it
\* may contain a loop that is left by break or continue, or a try that catches
\* an exception, and scope (success) may throw.
Bodies == {"plain", "loop", "try", "mayThrow"}

\* An action as it is pushed: no block and no landing pad (0) was generated for
\* it.  "to" gives the block that a terminator leads to in each state.
Action(k, id, to) ==
    [kind |-> k, id |-> id, when |-> "exit", body |-> "plain", type |-> "none",
     to |-> to, block |-> [s \in States |-> 0], pad |-> [s \in ExceptionStates |-> 0]]

Nowhere      == [s \in States |-> 0]
Leads(S, n)  == [s \in States |-> IF s \in S THEN n ELSE 0]

FunctionMarker(ret, resume) ==
    Action("FUNCTIONMARKER", 0, [Leads({"Throw"}, resume) EXCEPT !["Return"] = ret])
ScopeMarker(end) == Action("SCOPEMARKER", 0, Leads({"Normal"}, end))
ControlFlow(break, continue) ==
    Action("CONTROLFLOW", 0, [Leads({"Break"}, break) EXCEPT !["Continue"] = continue])
CatchException(catch, id, type) ==
    [Action("CATCH", id, Leads({"Throw"}, catch)) EXCEPT !.type = type]
Destructor(id) == Action("DESTRUCTOR", id, Nowhere)
ScopeExit(id, when, body) ==
    [Action("SCOPEEXIT", id, Nowhere) EXCEPT !.when = when, !.body = body]
RethrowScope         == Action("RETHROWSCOPE", 0, Nowhere)
DestroyException(id) == Action("DESTROYEXCEPTION", id, Nowhere)

IsTerminator(a) == a.kind \in Terminators

\* The states for which an action is performed.
ActiveStates(a) ==
    CASE a.kind = "DESTRUCTOR"       -> States
      [] a.kind = "CATCH"            -> {"Throw"}
      [] a.kind = "SCOPEMARKER"      -> {"Normal"}
      [] a.kind = "FUNCTIONMARKER"   -> {"Throw", "Return"}
      [] a.kind = "CONTROLFLOW"      -> {"Break", "Continue"}
      [] a.kind = "SCOPEEXIT"        -> (IF a.when # "success" THEN ExceptionStates ELSE {})
                                        \cup (IF a.when # "failure" THEN NormalStates ELSE {})
      [] a.kind = "RETHROWSCOPE"     -> {"Rethrow"}
      [] a.kind = "DESTROYEXCEPTION" -> {"Throw"}

\* Mutants of IsActiveForState: scope (failure) is forgotten when rethrowing;
\* the state of a scope (...) is not looked at.
IsActiveUnlessRethrown(a, s) ==
    s \in ActiveStates(a) /\ ~(a.kind = "SCOPEEXIT" /\ a.when = "failure" /\ s = "Rethrow")
IsActiveWhenever(a, s) == s \in ActiveStates(a) \/ a.kind = "SCOPEEXIT"

IsActiveForState(a, s) == s \in ActiveStates(a)

\* The states that will use the block generated for state s.
SharedStates(a, s) ==
    CASE a.kind \in {"DESTRUCTOR", "SCOPEEXIT"} ->
            IF s \in ExceptionStates THEN ExceptionStates ELSE NormalStates
      [] a.kind = "DESTROYEXCEPTION" -> IF s = "Throw" THEN {"Throw"} ELSE NormalStates
      [] a.kind = "CATCH"            -> ExceptionStates
      [] OTHER                       -> {s}
=============================================================================
