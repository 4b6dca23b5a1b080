-------------------------- MODULE ScopeExitActions --------------------------
(***************************************************************************)
(* The generation of unwinding code (ScopeExitActions.cpp, and the landing *)
(* pads of Exception.cpp), as operators on the state g of the emitter of a *)
(* function:                                                               *)
(*                                                                         *)
(*   g.stack   the unwind stack, with what was generated for each action   *)
(*   g.code    the basic blocks emitted so far, in order                   *)
(*   g.made    the block that the last operator generated or found         *)
(*                                                                         *)
(* An action is generated once for each group of states that share it, as  *)
(* a block that ends in a branch to the block of the action below it.      *)
(* When another state of the group has to go elsewhere from there, the     *)
(* branch becomes a switch on the variable unwindState.                    *)
(*                                                                         *)
(* Blocks:  jump    store a state, unless it is Keep, and go to next       *)
(*          act     perform an action, then branch (or switch) to next     *)
(*          pad     a landing pad; the rest of it is as in a jump          *)
(***************************************************************************)
EXTENDS UnwindAction, Sequences, SequencesExt, FiniteSetsExt

Keep == "keep"

\* The first two blocks of a function, which its FUNCTIONMARKER leads to.
Returned == 1
Resumed  == 2

Emit(g, block) == [g EXCEPT !.code = Append(@, block), !.made = Len(g.code) + 1]

Jump(store, next) == [op |-> "jump", store |-> store, next |-> next]

\* The stack as it is below position i.  What is generated with it is not
\* remembered in g's own stack.
Below(g, i)      == [g EXCEPT !.stack = SubSeq(@, 1, i - 1)]
BackTo(g, stack) == [g EXCEPT !.stack = stack]

ActivePositions(stack, s) == {i \in DOMAIN stack : IsActiveForState(stack[i], s)}

-----------------------------------------------------------------------------
\* anyUnwindActions: is there one above the function marker?
AnyUnwindActions(stack, s) == \E i \in ActivePositions(stack, s) : i > 1

\* Mutant of AnyUnwindCleanupActions: the innermost one is passed over.
AnyCleanupButTheTop(stack, s) ==
    LET above == ActivePositions(stack, s) \ {1, Len(stack)}
    IN  above # {} /\ ~IsTerminator(stack[Max(above)])

\* anyUnwindCleanupActions: is the first of these one that does something?
AnyUnwindCleanupActions(stack, s) ==
    LET above == ActivePositions(stack, s) \ {1}
    IN  above # {} /\ ~IsTerminator(stack[Max(above)])

\* anyUnwindRethrowActions: from the rethrow scope down, the state is Throw.
AnyUnwindRethrowActions(stack) ==
    LET first == Max(ActivePositions(stack, "Rethrow"))
    IN  \/ ~IsTerminator(stack[first])
        \/ \E i \in ActivePositions(stack, "Throw") : 1 < i /\ i < first

\* unwindStartPosition: the terminator that an unwinding in state s ends with.
UnwindStartPosition(stack, s) ==
    Max({i \in ActivePositions(stack, s) : IsTerminator(stack[i])})

-----------------------------------------------------------------------------
\* Mutant of TopBlock: the state of the unwinding is not cleared.
TopBlockKeepsState(a, s) == Jump(Keep, a.to[s])

\* The code of a terminator: leaving a loop's body makes the state normal.
TopBlock(a, s) == Jump(IF a.kind = "CONTROLFLOW" THEN "Normal" ELSE Keep, a.to[s])

\* setActionBlock
SetActionBlock(g, i, s) ==
    [g EXCEPT !.stack[i].block =
        [t \in States |-> IF t \in SharedStates(g.stack[i], s) THEN g.made ELSE @[t]]]

\* genTopUnwindAction.  Rethrow(_, _) generates the code of a rethrow scope.
GenTopUnwindAction(g, i, s, Rethrow(_, _)) ==
    LET a == g.stack[i]
        h == IF a.kind = "RETHROWSCOPE" THEN Rethrow(g, i) ELSE Emit(g, TopBlock(a, s))
    IN  IF a.block[s] # 0 THEN [g EXCEPT !.made = a.block[s]] ELSE SetActionBlock(h, i, s)

\* Mutant of Link: the branch is left as it was.
LinkLeavesBranch(g, b, s) == [g EXCEPT !.made = b]

\* Block b was generated before: make it go on to g.made in state s.  A branch
\* that leads elsewhere becomes a switch with its old target as the default.
Link(g, b, s) ==
    LET switch == g.code[b].cases # <<>>
    IN  IF ~switch /\ g.code[b].next = g.made
        THEN [g EXCEPT !.made = b]
        ELSE [g EXCEPT !.code[b].cases = Append(@, [state |-> s, next |-> g.made]),
                       !.made = b]

\* The loop of genUnwindBlock: the block of the action at i, which goes on to g.made.
\* p is the emitter once the landing pad of the action's block is there.
Act(a, pad, next) ==
    [op |-> "act", id |-> a.id, body |-> a.body, cases |-> <<>>, pad |-> pad, next |-> next]

GenAction(g, i, s, p) ==
    LET a == g.stack[i]
    IN  CASE ~IsActiveForState(a, s) -> g
          [] IsActiveForState(a, s) /\ a.block[s] # 0 -> Link(g, a.block[s], s)
          [] OTHER -> SetActionBlock(Emit(p, Act(a, p.made, g.made)), i, s)

\* genUnwindBlock: from the terminator up to the top of the stack, find or make
\* the block of every active action.  BodyPad(_, _) is the landing pad for what
\* the block of a scope exit throws.
GenBlocks(g, s, Rethrow(_, _), BodyPad(_, _)) ==
    LET start == UnwindStartPosition(g.stack, s)
    IN  FoldLeft(LAMBDA h, i : GenAction(h, i, s, BodyPad(h, i)),
                 GenTopUnwindAction(g, start, s, Rethrow),
                 [k \in 1 .. Len(g.stack) - start |-> start + k])

\* An exception passes no rethrow scope and no scope exit that may throw.
NoRethrow(g, i) == g
NoPad(g, i)     == [g EXCEPT !.made = 0]
GenThrowBlock(g) == GenBlocks(g, "Throw", NoRethrow, NoPad)

-----------------------------------------------------------------------------
\* The clauses that the landing pads generated with this stack must name, the
\* innermost first.
CatchTypes(stack) ==
    LET from[i \in 0 .. Len(stack)] ==
            CASE i = 0 -> <<>>
              [] i > 0 /\ stack[i].kind = "CATCH" ->
                    <<[id |-> stack[i].id, type |-> stack[i].type]>> \o from[i - 1]
              [] OTHER -> from[i - 1]
    IN  from[Len(stack)]

\* Mutant of LatestLandingPad: any landing pad on the stack will do.
AnyLandingPad(stack, s) ==
    LET pads == {i \in DOMAIN stack : stack[i].pad[s] # 0}
    IN  IF pads = {} THEN 0 ELSE stack[Max(pads)].pad[s]

\* getLatestLandingPadBlock: one made since the last active action was pushed.
LatestLandingPad(stack, s) ==
    LET pads == {i \in Max(ActivePositions(stack, s)) .. Len(stack) : stack[i].pad[s] # 0}
    IN  IF pads = {} THEN 0 ELSE stack[Max(pads)].pad[s]

\* setLatestLandingPadBlock
SetLatestLandingPad(g, s) ==
    [g EXCEPT !.stack =
        [i \in DOMAIN @ |-> IF i >= Max(ActivePositions(@, s))
                            THEN [@[i] EXCEPT !.pad[s] = g.made] ELSE @[i]]]

\* Mutant of UnwindStore: an exception stores its state as well.
UnwindStoresThrow(s) == IF s = "Normal" THEN Keep ELSE s

\* genUnwind: a state other than normal and throw is stored.
UnwindStore(s) == IF s \in {"Normal", "Throw"} THEN Keep ELSE s

\* genLandingPad, where Gen(_) generates the blocks of the unwinding.
GenLandingPad(g, s, Gen(_)) ==
    LET old == LatestLandingPad(g.stack, s)
        h   == Gen(g)
        pad == [op |-> "pad", store |-> UnwindStore(s), next |-> h.made,
                clauses |-> CatchTypes(g.stack),
                cleanup |-> AnyUnwindCleanupActions(g.stack, s)]
    IN  IF old # 0 THEN [g EXCEPT !.made = old] ELSE SetLatestLandingPad(Emit(h, pad), s)

GenThrowPad(g) == GenLandingPad(g, "Throw", GenThrowBlock)

\* The landing pad for a call that may throw in the block of a scope exit, which
\* is emitted with the stack below it.
BodyPad(g, i) ==
    IF g.stack[i].body = "mayThrow" /\ AnyUnwindActions(Below(g, i).stack, "Throw")
    THEN BackTo(GenThrowPad(Below(g, i)), g.stack)
    ELSE NoPad(g, i)

\* A rethrow scope goes on with the unwinding of the stack below it as a throw.
GenRethrowScope(g, i) ==
    LET h == GenThrowBlock(Below(g, i)) IN BackTo(Emit(h, Jump(Keep, h.made)), g.stack)

GenUnwindBlock(g, s) == GenBlocks(g, s, GenRethrowScope, BodyPad)

GenRethrowBlock(g) == GenUnwindBlock(g, "Rethrow")
GenRethrowPad(g)   == GenLandingPad(g, "Rethrow", GenRethrowBlock)

=============================================================================
