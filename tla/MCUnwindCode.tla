---------------------------- MODULE MCUnwindCode ----------------------------
(***************************************************************************)
(* The parameters of the runs of UnwindCode: which kinds of statements are *)
(* combined.  Every function of a profile, up to its bound, is emitted and *)
(* executed.                                                               *)
(***************************************************************************)
EXTENDS UnwindCode

\* A type, its child, and an exception of another family.
ExceptionNames  == {"Base", "Derived", "Other"}
ExceptionParent == [t \in ExceptionNames |-> IF t = "Derived" THEN "Base" ELSE NoType]

Profile(kinds, exits, tries, inHandlers, bound) ==
    [statements |-> kinds, scopeExits |-> exits, tries |-> tries,
     throwInHandlers |-> inHandlers, maxStatements |-> bound]

AllExits == {"var", "scope", "loop", "break", "continue", "return"}

\* One clause, or two of one family in either order.
SomeTries == {<<"Base">>, <<"Derived">>, <<"Base", "Derived">>, <<"Derived", "Base">>}

\* For the run that passes.
PassingProfiles ==
    {Profile(AllExits, ScopeExitStates \X {"plain"}, {}, FALSE, 4),
     Profile({"var", "loop", "break", "continue", "return"},
             {<<"exit", "plain">>, <<"success", "plain">>}, {}, FALSE, 5),
     Profile({"var", "scope", "throw"},
             {<<"exit", "plain">>, <<"exit", "loop">>, <<"failure", "plain">>,
              <<"success", "mayThrow">>, <<"success", "try">>}, SomeTries, TRUE, 4),
     Profile({"var", "throw", "rethrow"}, {<<"failure", "plain">>}, SomeTries, FALSE, 4)}

\* For the run that finds a violation.
CatchProfile == {Profile({"throw"}, {}, {<<"Base">>}, FALSE, 2)}
=============================================================================
