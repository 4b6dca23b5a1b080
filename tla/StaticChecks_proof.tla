------------------------- MODULE StaticChecks_proof -------------------------
(***************************************************************************)
(* Proofs about StaticChecks and its parts.                                *)
(*   ExitStates      for every tree of statements.  The exit states of a   *)
(*                   scope are computed from its first statement on, and   *)
(*                   the ways in which it can be left from its last one    *)
(*                   back.  Where the two meet, the outcomes of the        *)
(*                   statements that follow are seen through those that    *)
(*                   have been looked at: what is left of them there is    *)
(*                   shown not to change from one statement to the next.   *)
(*   SatisfyChecker  for every program and every depth of the recursion.   *)
(*                   The answers of the compiler assume what is being      *)
(*                   answered already; they are shown to lie within the    *)
(*                   largest relation in which every pair fits and asks    *)
(*                   for pairs of the relation only.  That relation can be *)
(*                   composed wherever references are cast in several      *)
(*                   steps, so what a reference was is related to what it  *)
(*                   is.  No answer is missing either, if no question is   *)
(*                   given up: a path of different questions ends.         *)
(*   Layout          for every table of types.  Types are seen through     *)
(*                   their members: that there is one way to see them all  *)
(*                   is shown from the fact that no type is a part of      *)
(*                   itself, and what is said of all types then follows    *)
(*                   from what their members bring about.                  *)
(*   StaticChecks    at the end: its steps are steps of the three.         *)
(***************************************************************************)
EXTENDS StaticChecks, SequenceTheorems, FiniteSetTheorems, WellFoundedInduction, NaturalsInduction, TLAPS

-----------------------------------------------------------------------------
(***************************************************************************)
(* ExitStates.  Nothing in this part depends on the others.                *)
(***************************************************************************)
ExitSets == [states : SUBSET States, noexcept : SUBSET Assignments]
Cans     == [Assignments -> SUBSET States]

\* Without a throwing exit the predicate is true.
WellFormed(e) == e \in ExitSets /\ ("throw" \notin e.states => e.noexcept = Assignments)

\* What exit states e allow for under assignment a.
Possible(e, a) == e.states \ (IF a \in e.noexcept THEN {"throw"} ELSE {})

\* The exit states of a part allow for what it can do.
PartInv(p) ==
    /\ WellFormed(p.exits) /\ p.can \in Cans
    /\ \A a \in Assignments : p.can[a] \subseteq Possible(p.exits, a)

StatementKinds == {"plain", "exit", "success", "failure"}

StatementInv(s) ==
    /\ s.kind \in StatementKinds /\ PartInv(s)
    /\ s.kind # "plain" =>
          /\ s.exits = Exits({"normal"}) /\ s.can = Always("normal")
          /\ PartInv(s.body)
          /\ OnlyHas(s.body.exits, {"normal"} \cup (IF s.kind = "success" THEN AllThrowing ELSE {}))

\* A statement is exact, as far as ScopeIsExact asks for it.
StatementExact(s) ==
    /\ Exact(s)
    /\ s.kind # "plain" => Exact(s.body)
    /\ s.kind \in {"exit", "failure"} => Has(s.body.exits, "normal")

\* What Scope::exitStates knows of the statements so far.
Known == [exits : ExitSets, always : BOOLEAN, pending : ExitSets, ended : BOOLEAN, last : ExitSets]
KnownInv(x) ==
    /\ x \in Known
    /\ WellFormed(x.exits) /\ WellFormed(x.pending) /\ WellFormed(x.last)
    /\ x.ended <=> ~Has(x.last, "normal")

AtFirst == [exits |-> None, always |-> FALSE, pending |-> None, ended |-> FALSE,
            last |-> Exits({"normal"})]

\* What can come of a statement followed by rest.
Before(s, rest) == IF s.kind = "plain" THEN Then(s.can, rest) ELSE ThroughScopeExit(s, rest)

\* What becomes of the outcomes of the rest of a scope under assignment a, when x is
\* known of the statements above: those that the scope(success) above let through, and
\* what these throw instead.
Outcome(x, rest, a) ==
    Possible(x.exits, a)
    \cup (IF x.ended THEN {}
          ELSE {o \in rest[a] : x.always => o \in AllThrowing}
               \cup (IF rest[a] \cap NonThrowing # {} THEN Possible(x.pending, a) ELSE {}))

-----------------------------------------------------------------------------
\* Induction over the natural numbers, for sets.
LEMMA Induction ==
    ASSUME NEW S \in SUBSET Nat, 0 \in S, \A n \in S : n + 1 \in S
    PROVE  S = Nat
<1> DEFINE R == OpToRel(<, Nat)
<1>1. SUFFICES ASSUME Nat \ S # {} PROVE FALSE
  OBVIOUS
<1>2. IsWellFoundedOn(R, Nat)
  BY NatLessThanWellFounded
<1>3. PICK m \in Nat \ S : \A y \in Nat \ S : ~(<<y, m>> \in R)
  <2> HIDE DEF R
  <2> QED
    BY <1>1, <1>2, WFMin
<1>4. \A y \in Nat \ S : ~(y < m)
  BY <1>3 DEF OpToRel
<1>5. m \in Nat /\ m \notin S /\ m # 0
  OBVIOUS
<1>6. m - 1 \in Nat /\ m - 1 < m /\ (m - 1) + 1 = m
  BY <1>5
<1> QED
  BY <1>4, <1>5, <1>6

-----------------------------------------------------------------------------
\* The operations on exit states, as what they allow for.
LEMMA PossibleAdd ==
    ASSUME NEW e, NEW f, WellFormed(e), WellFormed(f)
    PROVE  /\ WellFormed(AddExits(e, f))
           /\ \A a \in Assignments : Possible(AddExits(e, f), a) = Possible(e, a) \cup Possible(f, a)
BY DEF WellFormed, ExitSets, AddExits, Possible

LEMMA PossibleRemove ==
    ASSUME NEW e, WellFormed(e), NEW S \in SUBSET States
    PROVE  /\ WellFormed(RemoveExits(e, S))
           /\ \A a \in Assignments : Possible(RemoveExits(e, S), a) = Possible(e, a) \ S
BY DEF WellFormed, ExitSets, RemoveExits, Possible

LEMMA PossibleThrowing ==
    ASSUME NEW e, WellFormed(e)
    PROVE  /\ WellFormed(ThrowingStates(e))
           /\ \A a \in Assignments : Possible(ThrowingStates(e), a) = Possible(e, a) \cap AllThrowing
BY DEF WellFormed, ExitSets, ThrowingStates, Possible, AllThrowing, States

LEMMA PossibleExits ==
    ASSUME NEW S \in SUBSET States, "throw" \notin S
    PROVE  /\ WellFormed(Exits(S))
           /\ \A a \in Assignments : Possible(Exits(S), a) = S
BY DEF WellFormed, ExitSets, Exits, Possible

LEMMA PossibleNone ==
    WellFormed(None) /\ \A a \in Assignments : Possible(None, a) = {}
BY PossibleExits DEF None

LEMMA PossibleAddAll ==
    ASSUME NEW e, NEW E, WellFormed(e), \A f \in E : WellFormed(f)
    PROVE  /\ WellFormed(AddAll(e, E))
           /\ \A a \in Assignments :
                 Possible(AddAll(e, E), a) = Possible(e, a) \cup UNION {Possible(f, a) : f \in E}
<1>1. AddAll(e, E) \in ExitSets
  BY DEF AddAll, WellFormed, ExitSets
<1>2. ASSUME "throw" \notin AddAll(e, E).states PROVE AddAll(e, E).noexcept = Assignments
  <2>1. e.noexcept = Assignments /\ \A f \in E : f.noexcept = Assignments
    BY <1>2 DEF AddAll, WellFormed
  <2> QED
    BY <2>1 DEF AddAll
<1>3. ASSUME NEW a \in Assignments
      PROVE  Possible(AddAll(e, E), a) = Possible(e, a) \cup UNION {Possible(f, a) : f \in E}
  <2>1. ASSUME NEW o PROVE o \in Possible(AddAll(e, E), a) => o \in Possible(e, a) \cup UNION {Possible(f, a) : f \in E}
    BY DEF AddAll, Possible, WellFormed
  <2>2. ASSUME NEW o PROVE o \in Possible(e, a) \cup UNION {Possible(f, a) : f \in E} => o \in Possible(AddAll(e, E), a)
    BY DEF AddAll, Possible, WellFormed
  <2> QED
    BY <2>1, <2>2
<1> QED
  BY <1>1, <1>2, <1>3 DEF WellFormed

-----------------------------------------------------------------------------
\* One statement, as Scope::exitStates sees it.
Leaving(s)    == RemoveExits(s.exits, {"normal"})
Replaced(x, s) == IF OnlyHas(Leaving(s), AllThrowing) THEN None ELSE x.pending
Seen(x, s) ==
    [x EXCEPT !.exits = AddExits(AddExits(@, Replaced(x, s)), Unblocked(x, Leaving(s))),
              !.ended = ~Has(s.exits, "normal"), !.last = s.exits]

LEMMA AfterStatementCases ==
    ASSUME NEW x, NEW s
    PROVE  /\ x.ended => AfterStatement(x, s) = x
           /\ ~x.ended /\ s.kind = "success" => AfterStatement(x, s) = AfterScopeSuccess(Seen(x, s), s)
           /\ ~x.ended /\ s.kind # "success" => AfterStatement(x, s) = Seen(x, s)
BY DEF AfterStatement, Seen, Replaced, Leaving

LEMMA PossibleUnblocked ==
    ASSUME NEW x, KnownInv(x), NEW e, WellFormed(e)
    PROVE  /\ WellFormed(Unblocked(x, e))
           /\ \A a \in Assignments :
                 Possible(Unblocked(x, e), a) = IF x.always THEN Possible(e, a) \cap AllThrowing ELSE Possible(e, a)
<1>1. NonThrowing \in SUBSET States
  BY DEF NonThrowing
<1>2. /\ WellFormed(RemoveExits(e, NonThrowing))
      /\ \A a \in Assignments : Possible(RemoveExits(e, NonThrowing), a) = Possible(e, a) \ NonThrowing
  BY <1>1, PossibleRemove
<1>3. \A a \in Assignments : Possible(e, a) \subseteq States
  BY DEF Possible, WellFormed, ExitSets
<1> QED
  BY <1>2, <1>3 DEF Unblocked, NonThrowing

With(x, e, b, l)       == [x EXCEPT !.exits = e, !.ended = b, !.last = l]
WithPending(x, b, e)   == [x EXCEPT !.always = b, !.pending = e]

LEMMA WithFields ==
    ASSUME NEW x, x \in Known, NEW e \in ExitSets, NEW b \in BOOLEAN, NEW l \in ExitSets
    PROVE  /\ With(x, e, b, l) \in Known
           /\ With(x, e, b, l).exits = e /\ With(x, e, b, l).ended = b /\ With(x, e, b, l).last = l
           /\ With(x, e, b, l).always = x.always /\ With(x, e, b, l).pending = x.pending
BY DEF Known, With

LEMMA WithPendingFields ==
    ASSUME NEW x, x \in Known, NEW b \in BOOLEAN, NEW e \in ExitSets
    PROVE  /\ WithPending(x, b, e) \in Known
           /\ WithPending(x, b, e).exits = x.exits /\ WithPending(x, b, e).ended = x.ended
           /\ WithPending(x, b, e).last = x.last
           /\ WithPending(x, b, e).always = b /\ WithPending(x, b, e).pending = e
BY DEF Known, WithPending

\* What a statement adds to the exits px: its own, p, unless they are prevented, and with
\* an exit that does not throw what is pending, pp.
PlainExits(px, pp, always, p, states) ==
    px \cup (IF states \subseteq AllThrowing \cup {"normal"} THEN {} ELSE pp)
       \cup {o \in p \ {"normal"} : always => o \in AllThrowing}

LEMMA PlainExitsOfNormal ==
    ASSUME NEW px, NEW pp, NEW always
    PROVE  PlainExits(px, pp, always, {"normal"}, {"normal"}) = px
BY DEF PlainExits

LEMMA SeenParts ==
    ASSUME NEW x, KnownInv(x), NEW s, StatementInv(s)
    PROVE  /\ KnownInv(Seen(x, s))
           /\ Seen(x, s).always = x.always /\ Seen(x, s).pending = x.pending
           /\ Seen(x, s).ended = ~Has(s.exits, "normal") /\ Seen(x, s).last = s.exits
           /\ \A a \in Assignments :
                 Possible(Seen(x, s).exits, a) =
                     PlainExits(Possible(x.exits, a), Possible(x.pending, a), x.always,
                                Possible(s.exits, a), s.exits.states)
<1> DEFINE e1 == AddExits(x.exits, Replaced(x, s))
           e2 == Unblocked(x, Leaving(s))
<1>1. /\ WellFormed(Leaving(s))
      /\ \A a \in Assignments : Possible(Leaving(s), a) = Possible(s.exits, a) \ {"normal"}
  <2>1. {"normal"} \in SUBSET States /\ WellFormed(s.exits)
    BY DEF States, StatementInv, PartInv
  <2> QED
    BY <2>1, PossibleRemove DEF Leaving
<1>2. OnlyHas(Leaving(s), AllThrowing) <=> s.exits.states \subseteq AllThrowing \cup {"normal"}
  BY DEF OnlyHas, Leaving, RemoveExits
<1>3. /\ WellFormed(Replaced(x, s))
      /\ \A a \in Assignments : Possible(Replaced(x, s), a) =
            IF s.exits.states \subseteq AllThrowing \cup {"normal"} THEN {} ELSE Possible(x.pending, a)
  BY <1>2, PossibleNone DEF Replaced, KnownInv
<1>4. /\ WellFormed(e1)
      /\ \A a \in Assignments : Possible(e1, a) = Possible(x.exits, a) \cup Possible(Replaced(x, s), a)
  BY <1>3, PossibleAdd DEF KnownInv
<1>5. /\ WellFormed(e2)
      /\ \A a \in Assignments : Possible(e2, a) =
            IF x.always THEN Possible(Leaving(s), a) \cap AllThrowing ELSE Possible(Leaving(s), a)
  BY <1>1, PossibleUnblocked
<1>6. /\ WellFormed(AddExits(e1, e2))
      /\ \A a \in Assignments : Possible(AddExits(e1, e2), a) = Possible(e1, a) \cup Possible(e2, a)
  <2> HIDE DEF e1, e2
  <2> QED
    BY <1>4, <1>5, PossibleAdd
<1>7. /\ Seen(x, s) \in Known
      /\ Seen(x, s).exits = AddExits(e1, e2) /\ Seen(x, s).always = x.always /\ Seen(x, s).pending = x.pending
      /\ Seen(x, s).ended = ~Has(s.exits, "normal") /\ Seen(x, s).last = s.exits
  <2> DEFINE e == AddExits(e1, e2)
             l == s.exits
             b == ~Has(s.exits, "normal")
             y == Seen(x, s)
  <2>1. y = With(x, e, b, l)
    BY Zenon DEF Seen, With
  <2>2. e \in ExitSets /\ l \in ExitSets /\ b \in BOOLEAN
    BY <1>6 DEF WellFormed, StatementInv, PartInv, Has
  <2>4. e = AddExits(e1, e2) /\ l = s.exits /\ b = ~Has(s.exits, "normal") /\ y = Seen(x, s)
    OBVIOUS
  <2> HIDE DEF e, b, l, y
  <2>3. x \in Known
    BY DEF KnownInv
  <2> QED
    <3>1. /\ y \in Known
          /\ y.exits = e /\ y.ended = b /\ y.last = l /\ y.always = x.always /\ y.pending = x.pending
      BY <2>1, <2>2, <2>3, WithFields
    <3> HIDE DEF e1, e2
    <3> QED
      BY <3>1, <2>4, Zenon
<1>8. KnownInv(Seen(x, s))
  <2>1. WellFormed(s.exits) /\ WellFormed(x.pending)
    BY DEF StatementInv, PartInv, KnownInv
  <2> HIDE DEF e1, e2
  <2> QED
    BY <1>6, <1>7, <2>1 DEF KnownInv, Has
<1>9. ASSUME NEW a \in Assignments
      PROVE  Possible(Seen(x, s).exits, a) =
                     PlainExits(Possible(x.exits, a), Possible(x.pending, a), x.always,
                                Possible(s.exits, a), s.exits.states)
  <2> HIDE DEF e1, e2
  <2>1. Possible(Seen(x, s).exits, a) = Possible(e1, a) \cup Possible(e2, a)
    BY <1>6, <1>7
  <2>2. Possible(e2, a) = {o \in Possible(s.exits, a) \ {"normal"} : x.always => o \in AllThrowing}
    BY <1>1, <1>5
  <2> QED
    BY <1>3, <1>4, <2>1, <2>2 DEF PlainExits
<1> QED
  BY <1>7, <1>8, <1>9, Zenon

\* What a scope(success) changes.
LEMMA SuccessParts ==
    ASSUME NEW y, KnownInv(y), NEW s, StatementInv(s), s.kind = "success"
    PROVE  LET z == AfterScopeSuccess(y, s)
               never == ~Has(s.body.exits, "normal")
           IN  /\ KnownInv(z)
               /\ z.exits = y.exits /\ z.ended = y.ended /\ z.last = y.last /\ z.always = (y.always \/ never)
               /\ \A a \in Assignments :
                     Possible(z.pending, a) = (IF never THEN {} ELSE Possible(y.pending, a))
                                              \cup (Possible(s.body.exits, a) \cap AllThrowing)
<1> DEFINE z == AfterScopeSuccess(y, s)
           never == ~Has(s.body.exits, "normal")
           p == IF never THEN None ELSE y.pending
           t == ThrowingStates(s.body.exits)
<1>1. /\ WellFormed(t)
      /\ \A a \in Assignments : Possible(t, a) = Possible(s.body.exits, a) \cap AllThrowing
  BY PossibleThrowing DEF StatementInv, PartInv
<1>2. /\ WellFormed(p)
      /\ \A a \in Assignments : Possible(p, a) = IF never THEN {} ELSE Possible(y.pending, a)
  BY PossibleNone DEF KnownInv
<1>3. /\ WellFormed(AddExits(p, t))
      /\ \A a \in Assignments : Possible(AddExits(p, t), a) = Possible(p, a) \cup Possible(t, a)
  <2> HIDE DEF p, t
  <2> QED
    BY <1>1, <1>2, PossibleAdd
<1>4. /\ z \in Known
      /\ z.exits = y.exits /\ z.ended = y.ended /\ z.last = y.last
      /\ z.always = (y.always \/ never) /\ z.pending = AddExits(p, t)
  <2> DEFINE e == AddExits(p, t)
             b == y.always \/ never
  <2>1. z = WithPending(y, b, e)
    BY Zenon DEF AfterScopeSuccess, WithPending
  <2>2. e \in ExitSets /\ b \in BOOLEAN
    BY <1>3 DEF WellFormed
  <2>4. e = AddExits(p, t) /\ b = (y.always \/ never)
    OBVIOUS
  <2> HIDE DEF e, b, z
  <2>3. y \in Known
    BY DEF KnownInv
  <2> QED
    <3>1. /\ z \in Known
          /\ z.exits = y.exits /\ z.ended = y.ended /\ z.last = y.last /\ z.always = b /\ z.pending = e
      BY <2>1, <2>2, <2>3, WithPendingFields
    <3> HIDE DEF p, t, never
    <3> QED
      BY <3>1, <2>4, Zenon
<1>5. KnownInv(z)
  <2> HIDE DEF p, t, z, never
  <2> QED
    BY <1>3, <1>4 DEF KnownInv
<1>7. \A a \in Assignments :
          Possible(z.pending, a) = (IF never THEN {} ELSE Possible(y.pending, a))
                                   \cup (Possible(s.body.exits, a) \cap AllThrowing)
  <2> HIDE DEF p, t, z, never
  <2> QED
    BY <1>1, <1>2, <1>3, <1>4
<1> QED
  BY <1>4, <1>5, <1>7

-----------------------------------------------------------------------------
\* One statement more is looked at: what the rest of the scope leaves of the scope stays
\* allowed for, and stays the same if the statement is exact.

LEMMA BeforeType ==
    ASSUME NEW s, StatementInv(s), NEW rest, rest \in Cans
    PROVE  Before(s, rest) \in Cans
<1>1. CASE s.kind = "plain"
  BY <1>1 DEF Before, Then, Cans, StatementInv, PartInv
<1>2. CASE s.kind # "plain"
  BY <1>2 DEF Before, ThroughScopeExit, Cans, StatementInv, PartInv
<1> QED
  BY <1>1, <1>2

LEMMA AfterStatementInv ==
    ASSUME NEW x, KnownInv(x), NEW s, StatementInv(s)
    PROVE  KnownInv(AfterStatement(x, s))
<1>1. CASE x.ended
  BY <1>1, AfterStatementCases
<1>2. CASE ~x.ended /\ s.kind # "success"
  BY <1>2, AfterStatementCases, SeenParts
<1>3. CASE ~x.ended /\ s.kind = "success"
  BY <1>3, AfterStatementCases, SeenParts, SuccessParts
<1> QED
  BY <1>1, <1>2, <1>3

\* The outcomes of x when rest[a] is r and what is known allows for px and pp.
Left(px, pp, always, r) ==
    px \cup {o \in r : always => o \in AllThrowing}
    \cup (IF r \cap NonThrowing # {} THEN pp ELSE {})

LEMMA OutcomeIsLeft ==
    ASSUME NEW x, NEW rest, NEW a, ~x.ended
    PROVE  Outcome(x, rest, a) = Left(Possible(x.exits, a), Possible(x.pending, a), x.always, rest[a])
BY Zenon DEF Outcome, Left

\* A statement that is no scope exit: it can do c, and its exit states are allowed to do p.
BeforePlain(c, r) == (c \ {"normal"}) \cup (IF "normal" \in c THEN r ELSE {})
AfterPlain(px, pp, always, p, states, r) ==
    IF "normal" \in states THEN Left(PlainExits(px, pp, always, p, states), pp, always, r)
                           ELSE PlainExits(px, pp, always, p, states)

LEMMA PlainLeft ==
    ASSUME NEW px, NEW pp, NEW always \in BOOLEAN, NEW r \in SUBSET States, NEW c, NEW p \in SUBSET States,
           NEW states \in SUBSET States,
           c \subseteq p, p \subseteq states, states \subseteq p \cup {"throw"}
    PROVE  /\ Left(px, pp, always, BeforePlain(c, r)) \subseteq AfterPlain(px, pp, always, p, states, r)
           /\ c = p => Left(px, pp, always, BeforePlain(c, r)) = AfterPlain(px, pp, always, p, states, r)
<1> DEFINE before == BeforePlain(c, r)
           exits  == PlainExits(px, pp, always, p, states)
           after  == AfterPlain(px, pp, always, p, states, r)
<1> USE DEF BeforePlain, PlainExits, AfterPlain
<1>1. ASSUME NEW o \in Left(px, pp, always, before) PROVE o \in after
  <2>1. CASE o \in px
    BY <2>1 DEF Left
  <2>2. CASE o \in before /\ (always => o \in AllThrowing)
    BY <2>2 DEF Left
  <2>3. CASE before \cap NonThrowing # {} /\ o \in pp
    BY <2>3 DEF Left, NonThrowing, AllThrowing
  <2> QED
    BY <1>1, <2>1, <2>2, <2>3 DEF Left
<1>2. ASSUME c = p, NEW o \in after PROVE o \in Left(px, pp, always, before)
  <2>1. CASE o \in exits
    BY <1>2, <2>1 DEF Left, NonThrowing, AllThrowing
  <2>2. CASE "normal" \in states /\ o \in Left(exits, pp, always, r)
    BY <1>2, <2>2 DEF Left, NonThrowing, AllThrowing
  <2> QED
    BY <1>2, <2>1, <2>2
<1> QED
  BY <1>1, <1>2

\* A scope(success): its body can do c, and its exit states are allowed to do p.
BeforeSuccess(c, r) ==
    {o \in r : o \in NonThrowing => "normal" \in c}
    \cup (IF \E o \in r : o \in NonThrowing THEN c \ {"normal"} ELSE {})
AfterSuccess(px, pp, always, p, r) ==
    Left(px, (IF "normal" \notin p THEN {} ELSE pp) \cup (p \cap AllThrowing), always \/ "normal" \notin p, r)

LEMMA SuccessLeft ==
    ASSUME NEW px, NEW pp, NEW always \in BOOLEAN, NEW r \in SUBSET States, NEW c, NEW p \in SUBSET States,
           c \subseteq p, p \subseteq {"normal"} \cup AllThrowing
    PROVE  /\ Left(px, pp, always, BeforeSuccess(c, r)) \subseteq AfterSuccess(px, pp, always, p, r)
           /\ c = p => Left(px, pp, always, BeforeSuccess(c, r)) = AfterSuccess(px, pp, always, p, r)
<1> DEFINE before == BeforeSuccess(c, r)
           after  == AfterSuccess(px, pp, always, p, r)
<1> USE DEF BeforeSuccess, AfterSuccess
<1>1. ASSUME NEW o \in Left(px, pp, always, before) PROVE o \in after
  <2>1. CASE o \in px
    BY <2>1 DEF Left
  <2>2. CASE o \in before /\ (always => o \in AllThrowing)
    <3>1. CASE o \in r
      BY <2>2, <3>1 DEF Left, NonThrowing, AllThrowing
    <3>2. CASE o \notin r
      BY <2>2, <3>2 DEF Left, NonThrowing, AllThrowing
    <3> QED
      BY <3>1, <3>2
  <2>3. CASE before \cap NonThrowing # {} /\ o \in pp
    <3>1. PICK q \in before : q \in NonThrowing
      BY <2>3
    <3>2. q \in r /\ "normal" \in c
      BY <3>1 DEF NonThrowing, AllThrowing
    <3> QED
      BY <2>3, <3>1, <3>2 DEF Left
  <2> QED
    BY <1>1, <2>1, <2>2, <2>3 DEF Left
<1>2. ASSUME c = p, NEW o \in after PROVE o \in Left(px, pp, always, before)
  <2>1. CASE o \in px
    BY <2>1 DEF Left
  <2>2. CASE o \in r /\ (always \/ "normal" \notin p => o \in AllThrowing)
    BY <1>2, <2>2 DEF Left, NonThrowing, AllThrowing
  <2>3. CASE r \cap NonThrowing # {} /\ o \in pp /\ "normal" \in p
    <3>1. PICK q \in r : q \in NonThrowing
      BY <2>3
    <3>2. q \in before
      BY <1>2, <2>3, <3>1
    <3> QED
      BY <2>3, <3>1, <3>2 DEF Left
  <2>4. CASE r \cap NonThrowing # {} /\ o \in p \cap AllThrowing
    BY <1>2, <2>4 DEF Left, NonThrowing, AllThrowing
  <2> QED
    BY <1>2, <2>1, <2>2, <2>3, <2>4 DEF Left
<1> QED
  BY <1>1, <1>2

LEMMA LeftMonotone ==
    ASSUME NEW px, NEW pp, NEW always, NEW r, NEW q, r \subseteq q
    PROVE  Left(px, pp, always, r) \subseteq Left(px, pp, always, q)
BY DEF Left

LEMMA PossibleOfBoth ==
    ASSUME NEW e, WellFormed(e), NEW a \in Assignments
    PROVE  /\ Possible(e, a) \subseteq e.states /\ e.states \subseteq Possible(e, a) \cup {"throw"}
           /\ Possible(e, a) \in SUBSET States /\ e.states \in SUBSET States
BY DEF Possible, WellFormed, ExitSets

LEMMA PlainStep ==
    ASSUME NEW x, KnownInv(x), ~x.ended, NEW s, StatementInv(s), s.kind = "plain",
           NEW rest, rest \in Cans, NEW a \in Assignments
    PROVE  /\ Outcome(x, Before(s, rest), a) \subseteq Outcome(AfterStatement(x, s), rest, a)
           /\ Exact(s) => Outcome(x, Before(s, rest), a) = Outcome(AfterStatement(x, s), rest, a)
<1> DEFINE y == Seen(x, s)
           p == Possible(s.exits, a)
           c == s.can[a]
           r == rest[a]
           px == Possible(x.exits, a)
           pp == Possible(x.pending, a)
           states == s.exits.states
           always == x.always
<1>1. AfterStatement(x, s) = y
  BY AfterStatementCases
<1>2. Before(s, rest)[a] = BeforePlain(c, r)
  BY Zenon DEF Before, Then, BeforePlain
<1>3. Outcome(x, Before(s, rest), a) = Left(px, pp, always, BeforePlain(c, r))
  BY <1>2, OutcomeIsLeft, Zenon
<1>4. /\ Possible(y.exits, a) = PlainExits(px, pp, always, p, states)
      /\ y.pending = x.pending /\ y.always = always /\ y.ended = ~Has(s.exits, "normal")
  BY SeenParts, Zenon
<1>5. Outcome(y, rest, a) = AfterPlain(px, pp, always, p, states, r)
  <2>1. CASE "normal" \in states
    <3>1. ~y.ended
      BY <1>4, <2>1 DEF Has
    <3>2. Outcome(y, rest, a) = Left(Possible(y.exits, a), Possible(y.pending, a), y.always, r)
      BY <3>1, OutcomeIsLeft, Zenon
    <3>3. Outcome(y, rest, a) = Left(PlainExits(px, pp, always, p, states), pp, always, r)
      BY <1>4, <3>2, Zenon
    <3> QED
      BY <2>1, <3>3, Zenon DEF AfterPlain
  <2>2. CASE "normal" \notin states
    <3>1. y.ended
      BY <1>4, <2>2 DEF Has
    <3>2. Outcome(y, rest, a) = Possible(y.exits, a)
      BY <3>1 DEF Outcome
    <3> QED
      BY <1>4, <2>2, <3>2, Zenon DEF AfterPlain
  <2> QED
    BY <2>1, <2>2
<1>6. /\ always \in BOOLEAN /\ r \in SUBSET States
      /\ c \subseteq p /\ p \subseteq states /\ states \subseteq p \cup {"throw"}
      /\ p \in SUBSET States /\ states \in SUBSET States
  <2>1. WellFormed(s.exits) /\ c \subseteq p
    BY DEF StatementInv, PartInv
  <2>2. p \subseteq states /\ states \subseteq p \cup {"throw"} /\ p \in SUBSET States /\ states \in SUBSET States
    BY <2>1, PossibleOfBoth
  <2>3. x.always \in BOOLEAN /\ r \in SUBSET States
    BY DEF KnownInv, Known, Cans
  <2> QED
    BY <2>1, <2>2, <2>3
<1>7. Exact(s) => c = p
  BY DEF Exact, Possible
<1>8. /\ Left(px, pp, always, BeforePlain(c, r)) \subseteq AfterPlain(px, pp, always, p, states, r)
      /\ c = p => Left(px, pp, always, BeforePlain(c, r)) = AfterPlain(px, pp, always, p, states, r)
  <2> HIDE DEF p, c, r, px, pp, states, always
  <2> QED
    BY <1>6, PlainLeft
<1> QED
  <2> HIDE DEF y, p, c, r, px, pp, states, always
  <2> QED
    BY <1>1, <1>3, <1>5, <1>7, <1>8, Zenon

LEMMA SuccessStep ==
    ASSUME NEW x, KnownInv(x), ~x.ended, NEW s, StatementInv(s), s.kind = "success",
           NEW rest, rest \in Cans, NEW a \in Assignments
    PROVE  /\ Outcome(x, Before(s, rest), a) \subseteq Outcome(AfterStatement(x, s), rest, a)
           /\ Exact(s.body) => Outcome(x, Before(s, rest), a) = Outcome(AfterStatement(x, s), rest, a)
<1> DEFINE y == Seen(x, s)
           z == AfterScopeSuccess(y, s)
           p == Possible(s.body.exits, a)
           c == s.body.can[a]
           r == rest[a]
           px == Possible(x.exits, a)
           pp == Possible(x.pending, a)
           never == ~Has(s.body.exits, "normal")
           always == x.always
<1>1. AfterStatement(x, s) = z
  BY AfterStatementCases
<1>2. Before(s, rest)[a] = BeforeSuccess(c, r)
  <2>1. Before(s, rest)[a] = {o \in rest[a] : Runs(s, o) => "normal" \in s.body.can[a]}
                             \cup (IF \E o \in rest[a] : Runs(s, o) THEN s.body.can[a] \ {"normal"} ELSE {})
    BY DEF Before, ThroughScopeExit
  <2>2. \A o : Runs(s, o) <=> o \in NonThrowing
    BY DEF Runs
  <2> QED
    BY <2>1, <2>2 DEF BeforeSuccess
<1>3. Outcome(x, Before(s, rest), a) = Left(px, pp, always, BeforeSuccess(c, r))
  BY <1>2, OutcomeIsLeft, Zenon
<1>4. /\ KnownInv(y) /\ ~y.ended /\ y.always = always /\ y.pending = x.pending
      /\ Possible(y.exits, a) = px
  <2>1. s.exits = Exits({"normal"})
    BY DEF StatementInv
  <2>2. s.exits.states = {"normal"} /\ Possible(s.exits, a) = {"normal"}
    BY <2>1 DEF Exits, Possible
  <2>3. /\ KnownInv(y) /\ y.always = always /\ y.pending = x.pending /\ y.ended = ~Has(s.exits, "normal")
        /\ Possible(y.exits, a) = PlainExits(px, pp, always, Possible(s.exits, a), s.exits.states)
    BY SeenParts, Zenon
  <2> HIDE DEF y, px, pp, always
  <2>4. Possible(y.exits, a) = px
    BY <2>2, <2>3, PlainExitsOfNormal, Zenon
  <2> QED
    BY <2>2, <2>3, <2>4 DEF Has
<1>5. /\ z.exits = y.exits /\ z.ended = y.ended /\ z.always = (always \/ never)
      /\ Possible(z.pending, a) = (IF never THEN {} ELSE pp) \cup (p \cap AllThrowing)
  <2>1. KnownInv(y)
    BY <1>4
  <2> HIDE DEF y
  <2>2. /\ z.exits = y.exits /\ z.ended = y.ended /\ z.always = (y.always \/ never)
        /\ Possible(z.pending, a) = (IF never THEN {} ELSE Possible(y.pending, a)) \cup (p \cap AllThrowing)
    BY <2>1, SuccessParts
  <2> QED
    BY <1>4, <2>2, Zenon
<1>6. /\ always \in BOOLEAN /\ never \in BOOLEAN /\ r \in SUBSET States /\ p \in SUBSET States
      /\ c \subseteq p /\ p \subseteq {"normal"} \cup AllThrowing /\ (never <=> "normal" \notin p)
  <2>1. WellFormed(s.body.exits) /\ c \subseteq p /\ OnlyHas(s.body.exits, {"normal"} \cup AllThrowing)
    BY DEF StatementInv, PartInv
  <2>2. p \in SUBSET States /\ p \subseteq s.body.exits.states /\ s.body.exits.states \subseteq p \cup {"throw"}
    BY <2>1, PossibleOfBoth
  <2>3. always \in BOOLEAN /\ r \in SUBSET States
    BY DEF KnownInv, Known, Cans
  <2> QED
    BY <2>1, <2>2, <2>3 DEF OnlyHas, Has
<1>7. Outcome(z, rest, a) = AfterSuccess(px, pp, always, p, r)
  <2>1. Outcome(z, rest, a) = Left(Possible(z.exits, a), Possible(z.pending, a), z.always, r)
    BY <1>4, <1>5, OutcomeIsLeft, Zenon
  <2>2. never = ("normal" \notin p)
    BY <1>6
  <2>3. z.exits = y.exits /\ Possible(y.exits, a) = px
    BY <1>4, <1>5
  <2> HIDE DEF z, y, p, c, r, px, pp, never, always
  <2>4. Outcome(z, rest, a) = Left(px, (IF never THEN {} ELSE pp) \cup (p \cap AllThrowing), always \/ never, r)
    BY <1>5, <2>1, <2>3, Zenon
  <2> QED
    BY <2>2, <2>4, Zenon DEF AfterSuccess
<1>8. Exact(s.body) => c = p
  BY DEF Exact, Possible
<1>9. /\ Left(px, pp, always, BeforeSuccess(c, r)) \subseteq AfterSuccess(px, pp, always, p, r)
      /\ c = p => Left(px, pp, always, BeforeSuccess(c, r)) = AfterSuccess(px, pp, always, p, r)
  <2> HIDE DEF p, c, r, px, pp, never, always
  <2> QED
    BY <1>6, SuccessLeft
<1> QED
  <2> HIDE DEF z, p, c, r, px, pp, never, always
  <2> QED
    BY <1>1, <1>3, <1>7, <1>8, <1>9, Zenon

LEMMA OtherStep ==
    ASSUME NEW x, KnownInv(x), ~x.ended, NEW s, StatementInv(s), s.kind \in {"exit", "failure"},
           NEW rest, rest \in Cans, NEW a \in Assignments
    PROVE  /\ Outcome(x, Before(s, rest), a) \subseteq Outcome(AfterStatement(x, s), rest, a)
           /\ StatementExact(s) => Outcome(x, Before(s, rest), a) = Outcome(AfterStatement(x, s), rest, a)
<1> DEFINE y == Seen(x, s)
           c == s.body.can[a]
           r == rest[a]
           before == Before(s, rest)[a]
           px == Possible(x.exits, a)
           pp == Possible(x.pending, a)
           always == x.always
<1>1. AfterStatement(x, s) = y
  BY AfterStatementCases
<1>2. /\ ~y.ended /\ y.always = always /\ y.pending = x.pending
      /\ Possible(y.exits, a) = px
  <2>1. s.exits = Exits({"normal"})
    BY DEF StatementInv
  <2>2. s.exits.states = {"normal"} /\ Possible(s.exits, a) = {"normal"}
    BY <2>1 DEF Exits, Possible
  <2>3. /\ KnownInv(y) /\ y.always = always /\ y.pending = x.pending /\ y.ended = ~Has(s.exits, "normal")
        /\ Possible(y.exits, a) = PlainExits(px, pp, always, Possible(s.exits, a), s.exits.states)
    BY SeenParts, Zenon
  <2> HIDE DEF y, px, pp, always
  <2>4. Possible(y.exits, a) = px
    BY <2>2, <2>3, PlainExitsOfNormal, Zenon
  <2> QED
    BY <2>2, <2>3, <2>4 DEF Has
<1>3. /\ Outcome(x, Before(s, rest), a) = Left(px, pp, always, before)
      /\ Outcome(y, rest, a) = Left(px, pp, always, r)
  <2>1. Outcome(x, Before(s, rest), a) = Left(px, pp, always, before)
    BY OutcomeIsLeft, Zenon
  <2>2. Outcome(y, rest, a) = Left(Possible(y.exits, a), Possible(y.pending, a), y.always, r)
    BY <1>2, OutcomeIsLeft, Zenon
  <2>3. y.always = always /\ y.pending = x.pending /\ Possible(y.exits, a) = px
    BY <1>2
  <2>4. Possible(y.pending, a) = pp
    BY <2>3, Zenon
  <2> HIDE DEF y, px, pp, always, r
  <2> QED
    BY <2>1, <2>2, <2>3, <2>4, Zenon
<1>4. c \subseteq {"normal"}
  BY DEF StatementInv, PartInv, OnlyHas, Possible
<1>5. before \subseteq r /\ ("normal" \in c => before = r)
  <2>1. before = {o \in r : Runs(s, o) => "normal" \in c}
                 \cup (IF \E o \in r : Runs(s, o) THEN c \ {"normal"} ELSE {})
    BY DEF Before, ThroughScopeExit
  <2> HIDE DEF before, c, r
  <2> QED
    BY <1>4, <2>1
<1>6. StatementExact(s) => "normal" \in c
  BY DEF StatementExact, Exact, Has
<1>7. Left(px, pp, always, before) \subseteq Left(px, pp, always, r)
  <2> HIDE DEF px, pp, always, r, before
  <2> QED
    BY <1>5, LeftMonotone
<1> QED
  <2> HIDE DEF y, c, r, px, pp, always
  <2> QED
    BY <1>1, <1>3, <1>5, <1>6, <1>7, Zenon

LEMMA StatementStep ==
    ASSUME NEW x, KnownInv(x), NEW s, StatementInv(s), NEW rest, rest \in Cans, NEW a \in Assignments
    PROVE  /\ Outcome(x, Before(s, rest), a) \subseteq Outcome(AfterStatement(x, s), rest, a)
           /\ StatementExact(s) => Outcome(x, Before(s, rest), a) = Outcome(AfterStatement(x, s), rest, a)
<1>1. CASE x.ended
  BY <1>1, AfterStatementCases DEF Outcome
<1>2. CASE ~x.ended /\ s.kind = "plain"
  BY <1>2, PlainStep DEF StatementExact
<1>3. CASE ~x.ended /\ s.kind = "success"
  BY <1>3, SuccessStep DEF StatementExact
<1>4. CASE ~x.ended /\ s.kind \in {"exit", "failure"}
  BY <1>4, OtherStep
<1> QED
  BY <1>1, <1>2, <1>3, <1>4 DEF StatementInv, StatementKinds

-----------------------------------------------------------------------------
\* The two folds over the statements of a scope, as functions of how far they are.

LEMMA LastOf ==
    ASSUME NEW k \in Nat, NEW s \in SUBSET (1 .. k + 1), k + 1 \in s
    PROVE  Max(s) = k + 1
<1> DEFINE IsLast(x) == x \in s /\ \A y \in s : x >= y
<1>1. IsLast(k + 1) /\ \A x : IsLast(x) => x = k + 1
  <2>1. \A y \in s : k + 1 >= y
    OBVIOUS
  <2>2. ASSUME NEW x \in s, \A y \in s : x >= y PROVE x = k + 1
    <3>1. x \in 1 .. k + 1 /\ x >= k + 1
      BY <2>2
    <3> QED
      BY <3>1
  <2> QED
    BY <2>1, <2>2
<1>2. Max(s) = CHOOSE x : IsLast(x)
  BY Zenon DEF Max
<1> HIDE DEF IsLast
<1>3. IsLast(CHOOSE x : IsLast(x))
  BY <1>1, Zenon
<1> QED
  BY <1>1, <1>2, <1>3, Zenon

LEMMA FirstOf ==
    ASSUME NEW n \in Nat, NEW k \in Int, NEW s \in SUBSET (k .. n), k \in s
    PROVE  Min(s) = k
<1> DEFINE First(x) == x \in s /\ \A y \in s : x =< y
<1>1. First(k) /\ \A x : First(x) => x = k
  <2>1. \A y \in s : k =< y
    OBVIOUS
  <2>2. ASSUME NEW x \in s, \A y \in s : x =< y PROVE x = k
    <3>1. x \in k .. n /\ x =< k
      BY <2>2
    <3> QED
      BY <3>1
  <2> QED
    BY <2>1, <2>2
<1>2. Min(s) = CHOOSE x : First(x)
  BY Zenon DEF Min
<1> HIDE DEF First
<1>3. First(CHOOSE x : First(x))
  BY <1>1, Zenon
<1> QED
  BY <1>1, <1>2, <1>3, Zenon

\* What a fold is of the elements s of 1 .. Len(ss), from what it is of fewer, g.
SeenOf(ss, g, s) ==
    IF s = {} THEN AtFirst ELSE LET i == Max(s) IN AfterStatement(g[s \ {i}], ss[i])
CanOf(ss, g, s) ==
    IF s = {} THEN Always("normal") ELSE LET i == Min(s) IN Before(ss[i], g[s \ {i}])

Looked(ss) == FoldLeft(AfterStatement, AtFirst, ss)

LEMMA SeenOfExists ==
    ASSUME NEW ss
    PROVE  \A k \in Nat : \E g : g = [s \in SUBSET (1 .. k) |-> SeenOf(ss, g, s)]
<1> DEFINE S == {k \in Nat : \E g : g = [s \in SUBSET (1 .. k) |-> SeenOf(ss, g, s)]}
<1>1. 0 \in S
  <2> DEFINE g == [s \in SUBSET (1 .. 0) |-> AtFirst]
  <2>1. \A s \in SUBSET (1 .. 0) : SeenOf(ss, g, s) = AtFirst
    BY DEF SeenOf
  <2>2. g = [s \in SUBSET (1 .. 0) |-> SeenOf(ss, g, s)]
    BY <2>1
  <2> QED
    BY <2>2
<1>2. ASSUME NEW k \in S PROVE k + 1 \in S
  <2>1. PICK g : g = [s \in SUBSET (1 .. k) |-> SeenOf(ss, g, s)]
    OBVIOUS
  <2> DEFINE f == [s \in SUBSET (1 .. k + 1) |->
                      IF k + 1 \in s THEN AfterStatement(g[s \ {k + 1}], ss[k + 1]) ELSE g[s]]
  <2>2. ASSUME NEW s \in SUBSET (1 .. k + 1), k + 1 \in s PROVE f[s] = SeenOf(ss, f, s)
    <3>1. s \ {k + 1} \in SUBSET (1 .. k) /\ s \ {k + 1} \in SUBSET (1 .. k + 1) /\ k + 1 \notin s \ {k + 1}
      OBVIOUS
    <3>2. f[s \ {k + 1}] = g[s \ {k + 1}]
      BY <3>1, Zenon
    <3>3. Max(s) = k + 1
      BY <2>2, LastOf
    <3>4. f[s] = AfterStatement(g[s \ {k + 1}], ss[k + 1])
      BY <2>2, Zenon
    <3> HIDE DEF f
    <3>5. SeenOf(ss, f, s) = AfterStatement(f[s \ {k + 1}], ss[k + 1])
      BY <2>2, <3>3, Zenon DEF SeenOf
    <3> QED
      BY <3>2, <3>4, <3>5, Zenon
  <2>3. ASSUME NEW s \in SUBSET (1 .. k + 1), k + 1 \notin s PROVE f[s] = SeenOf(ss, f, s)
    <3>1. s \in SUBSET (1 .. k)
      BY <2>3
    <3>2. f[s] = g[s] /\ g[s] = SeenOf(ss, g, s)
      BY <2>1, <2>3, <3>1, Zenon
    <3>3. \A i : s \ {i} \in SUBSET (1 .. k) /\ s \ {i} \in SUBSET (1 .. k + 1) /\ k + 1 \notin s \ {i}
      BY <2>3, <3>1
    <3>4. \A i : f[s \ {i}] = g[s \ {i}]
      BY <3>3, Zenon
    <3> HIDE DEF f
    <3>5. SeenOf(ss, f, s) = SeenOf(ss, g, s)
      BY <3>4, Zenon DEF SeenOf
    <3> QED
      BY <3>2, <3>5
  <2>4. f = [s \in SUBSET (1 .. k + 1) |-> f[s]]
    OBVIOUS
  <2>5. \A s \in SUBSET (1 .. k + 1) : f[s] = SeenOf(ss, f, s)
    BY <2>2, <2>3
  <2> HIDE DEF f
  <2>6. f = [s \in SUBSET (1 .. k + 1) |-> SeenOf(ss, f, s)]
    BY <2>4, <2>5, Zenon
  <2> QED
    BY <2>6
<1> HIDE DEF S
<1>3. S = Nat
  <2>1. S \in SUBSET Nat
    BY DEF S
  <2> QED
    BY <1>1, <1>2, <2>1, Induction
<1> QED
  BY <1>3 DEF S

LEMMA CanOfExists ==
    ASSUME NEW ss, NEW n \in Nat
    PROVE  \A k \in Nat : \E g : g = [s \in SUBSET (n + 1 - k .. n) |-> CanOf(ss, g, s)]
<1> DEFINE S == {k \in Nat : \E g : g = [s \in SUBSET (n + 1 - k .. n) |-> CanOf(ss, g, s)]}
<1>1. 0 \in S
  <2> DEFINE g == [s \in SUBSET (n + 1 - 0 .. n) |-> Always("normal")]
  <2>1. \A s \in SUBSET (n + 1 - 0 .. n) : CanOf(ss, g, s) = Always("normal")
    <3>1. n + 1 - 0 .. n = {}
      OBVIOUS
    <3> QED
      BY <3>1 DEF CanOf
  <2>2. g = [s \in SUBSET (n + 1 - 0 .. n) |-> CanOf(ss, g, s)]
    BY <2>1, Zenon
  <2> QED
    BY <2>2
<1>2. ASSUME NEW k \in S PROVE k + 1 \in S
  <2> DEFINE first == n + 1 - (k + 1)
  <2>0. first \in Int /\ n + 1 - k = first + 1
    OBVIOUS
  <2>1. PICK g : g = [s \in SUBSET (first + 1 .. n) |-> CanOf(ss, g, s)]
    BY <2>0
  <2> HIDE DEF first
  <2> DEFINE f == [s \in SUBSET (first .. n) |->
                      IF first \in s THEN Before(ss[first], g[s \ {first}]) ELSE g[s]]
  <2>2. ASSUME NEW s \in SUBSET (first .. n), first \in s PROVE f[s] = CanOf(ss, f, s)
    <3>1. s \ {first} \in SUBSET (first + 1 .. n) /\ s \ {first} \in SUBSET (first .. n) /\ first \notin s \ {first}
      BY <2>0
    <3>2. f[s \ {first}] = g[s \ {first}]
      BY <3>1, Zenon
    <3>3. Min(s) = first
      BY <2>0, <2>2, FirstOf
    <3>4. f[s] = Before(ss[first], g[s \ {first}])
      BY <2>2, Zenon
    <3> HIDE DEF f
    <3>5. CanOf(ss, f, s) = Before(ss[first], f[s \ {first}])
      BY <2>2, <3>3, Zenon DEF CanOf
    <3> QED
      BY <3>2, <3>4, <3>5, Zenon
  <2>3. ASSUME NEW s \in SUBSET (first .. n), first \notin s PROVE f[s] = CanOf(ss, f, s)
    <3>1. s \in SUBSET (first + 1 .. n)
      BY <2>0, <2>3
    <3>2. f[s] = g[s] /\ g[s] = CanOf(ss, g, s)
      BY <2>1, <2>3, <3>1, Zenon
    <3>3. \A i : s \ {i} \in SUBSET (first + 1 .. n) /\ s \ {i} \in SUBSET (first .. n) /\ first \notin s \ {i}
      BY <2>0, <2>3, <3>1
    <3>4. \A i : f[s \ {i}] = g[s \ {i}]
      BY <3>3, Zenon
    <3> HIDE DEF f
    <3>5. CanOf(ss, f, s) = CanOf(ss, g, s)
      BY <3>4, Zenon DEF CanOf
    <3> QED
      BY <3>2, <3>5
  <2>4. f = [s \in SUBSET (first .. n) |-> f[s]]
    OBVIOUS
  <2>5. \A s \in SUBSET (first .. n) : f[s] = CanOf(ss, f, s)
    BY <2>2, <2>3
  <2> HIDE DEF f
  <2>6. f = [s \in SUBSET (first .. n) |-> CanOf(ss, f, s)]
    BY <2>4, <2>5, Zenon
  <2> QED
    <3>1. \E h : h = [s \in SUBSET (n + 1 - (k + 1) .. n) |-> CanOf(ss, h, s)]
      BY <2>6, Zenon DEF first
    <3>2. k + 1 \in Nat
      OBVIOUS
    <3> QED
      BY <3>1, <3>2, Zenon
<1> HIDE DEF S
<1>3. S = Nat
  <2>1. S \in SUBSET Nat
    BY DEF S
  <2> QED
    BY <1>1, <1>2, <2>1, Induction
<1> QED
  BY <1>3 DEF S

\* What is known after k statements, X[k], and the outcomes from statement k on, R[k].
LEMMA ScopeFolds ==
    ASSUME NEW ss, Len(ss) \in Nat, DOMAIN ss = 1 .. Len(ss)
    PROVE  \E X, R :
               /\ X[0] = AtFirst /\ X[Len(ss)] = Looked(ss)
               /\ \A k \in 0 .. Len(ss) - 1 : X[k + 1] = AfterStatement(X[k], ss[k + 1])
               /\ R[Len(ss) + 1] = Always("normal") /\ R[1] = ScopeCan(ss)
               /\ \A k \in 1 .. Len(ss) : R[k] = Before(ss[k], R[k + 1])
<1> DEFINE n == Len(ss)
<1>1. PICK g : g = [s \in SUBSET (DOMAIN ss) |-> SeenOf(ss, g, s)] /\ Looked(ss) = g[DOMAIN ss]
  <2>1. \E g : g = [s \in SUBSET (DOMAIN ss) |-> SeenOf(ss, g, s)]
    <3>1. \E g : g = [s \in SUBSET (1 .. n) |-> SeenOf(ss, g, s)]
      BY SeenOfExists
    <3> QED
      BY <3>1
  <2> QED
    BY <2>1, Zenon DEF Looked, SeenOf, FoldLeft, MapThenFoldSet
<1>2. PICK h : h = [s \in SUBSET (DOMAIN ss) |-> CanOf(ss, h, s)] /\ ScopeCan(ss) = h[DOMAIN ss]
  <2>1. \E h : h = [s \in SUBSET (DOMAIN ss) |-> CanOf(ss, h, s)]
    <3>1. n + 1 - n = 1 /\ n \in Nat
      OBVIOUS
    <3>2. \E h : h = [s \in SUBSET (n + 1 - n .. n) |-> CanOf(ss, h, s)]
      BY <3>1, CanOfExists
    <3> QED
      BY <3>1, <3>2
  <2> QED
    BY <2>1, Zenon DEF ScopeCan, CanOf, Before, FoldRight, MapThenFoldSet
<1> DEFINE X == [k \in 0 .. n |-> g[1 .. k]]
           R == [k \in 1 .. n + 1 |-> h[k .. n]]
<1>3. X[0] = AtFirst
  <2>1. 1 .. 0 = {} /\ 0 \in 0 .. n /\ {} \in SUBSET (DOMAIN ss)
    OBVIOUS
  <2>2. X[0] = g[{}]
    BY <2>1
  <2>3. g[{}] = SeenOf(ss, g, {})
    BY <1>1, <2>1, Zenon
  <2> QED
    BY <2>2, <2>3, Zenon DEF SeenOf
<1>4. X[n] = Looked(ss)
  BY <1>1
<1>5. ASSUME NEW k \in 0 .. n - 1 PROVE X[k + 1] = AfterStatement(X[k], ss[k + 1])
  <2>1. /\ k \in 0 .. n /\ k + 1 \in 0 .. n /\ 1 .. k + 1 \in SUBSET (DOMAIN ss) /\ 1 .. k + 1 # {}
        /\ (1 .. k + 1) \ {k + 1} = 1 .. k /\ k \in Nat /\ k + 1 \in 1 .. k + 1
    <3>1. k \in Nat /\ n \in Nat /\ k + 1 <= n
      OBVIOUS
    <3>2. (1 .. k + 1) \ {k + 1} = 1 .. k
      BY <3>1
    <3>5. k + 1 \in 1 .. k + 1 /\ k \in 0 .. n /\ k + 1 \in 0 .. n
      BY <3>1
    <3>3. k + 1 \in 1 .. k + 1 /\ 1 .. k + 1 # {} /\ k \in 0 .. n /\ k + 1 \in 0 .. n
      BY <3>5, Zenon
    <3>4. 1 .. k + 1 \subseteq 1 .. n
      BY <3>1
    <3> QED
      BY <3>1, <3>2, <3>3, <3>4
  <2>2. Max(1 .. k + 1) = k + 1
    BY <2>1, LastOf
  <2>3. g[1 .. k + 1] = SeenOf(ss, g, 1 .. k + 1)
    BY <1>1, <2>1, Zenon
  <2>4. g[1 .. k + 1] = AfterStatement(g[1 .. k], ss[k + 1])
    BY <2>1, <2>2, <2>3, Zenon DEF SeenOf
  <2> QED
    BY <2>1, <2>4, Zenon
<1>6. R[n + 1] = Always("normal")
  <2>1. n + 1 .. n = {} /\ n + 1 \in 1 .. n + 1 /\ {} \in SUBSET (DOMAIN ss)
    OBVIOUS
  <2>2. R[n + 1] = h[{}]
    BY <2>1
  <2>3. h[{}] = CanOf(ss, h, {})
    BY <1>2, <2>1, Zenon
  <2> QED
    BY <2>2, <2>3, Zenon DEF CanOf
<1>7. R[1] = ScopeCan(ss)
  BY <1>2
<1>8. ASSUME NEW k \in 1 .. n PROVE R[k] = Before(ss[k], R[k + 1])
  <2>1. /\ k \in 1 .. n + 1 /\ k + 1 \in 1 .. n + 1 /\ k .. n \in SUBSET (DOMAIN ss) /\ k .. n # {}
        /\ (k .. n) \ {k} = k + 1 .. n /\ k \in Int /\ k \in k .. n /\ n \in Nat
    OBVIOUS
  <2>2. Min(k .. n) = k
    BY <2>1, FirstOf
  <2>3. h[k .. n] = CanOf(ss, h, k .. n)
    BY <1>2, <2>1, Zenon
  <2>4. h[k .. n] = Before(ss[k], h[k + 1 .. n])
    BY <2>1, <2>2, <2>3, Zenon DEF CanOf
  <2> QED
    BY <2>1, <2>4, Zenon
<1> HIDE DEF X, R
<1> QED
  BY <1>3, <1>4, <1>5, <1>6, <1>7, <1>8

-----------------------------------------------------------------------------
\* A scope: its outcomes are those that its first statements leave of the rest, however many
\* these are.

\* The exits of the last statement that was looked at are among those of the scope.
LastInv(x) ==
    \A a \in Assignments :
        /\ \A o \in Possible(x.last, a) \ {"normal"} : (x.always => o \in AllThrowing) => o \in Possible(x.exits, a)
        /\ x.ended /\ ~OnlyHas(x.last, AllThrowing) => Possible(x.pending, a) \subseteq Possible(x.exits, a)

LEMMA AtFirstInv ==
    /\ KnownInv(AtFirst) /\ LastInv(AtFirst)
    /\ \A rest : \A a \in Assignments : Outcome(AtFirst, rest, a) = rest[a]
<1>1. /\ AtFirst.exits = None /\ AtFirst.always = FALSE /\ AtFirst.pending = None /\ AtFirst.ended = FALSE
      /\ AtFirst.last = Exits({"normal"})
  BY DEF AtFirst
<1>2. /\ WellFormed(None) /\ WellFormed(Exits({"normal"}))
      /\ \A a \in Assignments : Possible(None, a) = {} /\ Possible(Exits({"normal"}), a) = {"normal"}
  <2>1. {"normal"} \in SUBSET States /\ "throw" \notin {"normal"}
    BY DEF States
  <2> QED
    BY <2>1, PossibleNone, PossibleExits
<1>3. KnownInv(AtFirst)
  <2>1. Exits({"normal"}) \in ExitSets /\ None \in ExitSets /\ Has(Exits({"normal"}), "normal")
    BY <1>2 DEF WellFormed, Has, Exits
  <2>2. AtFirst \in Known
    BY <2>1 DEF Known, AtFirst
  <2> QED
    BY <1>1, <1>2, <2>1, <2>2, Zenon DEF KnownInv
<1>4. LastInv(AtFirst)
  BY <1>1, <1>2 DEF LastInv
<1>5. ASSUME NEW rest, NEW a \in Assignments PROVE Outcome(AtFirst, rest, a) = rest[a]
  BY <1>1, <1>2 DEF Outcome
<1> QED
  BY <1>3, <1>4, <1>5

LEMMA LastStep ==
    ASSUME NEW x, KnownInv(x), LastInv(x), NEW s, StatementInv(s)
    PROVE  LastInv(AfterStatement(x, s))
<1> DEFINE y == Seen(x, s)
<1>1. CASE x.ended
  BY <1>1, AfterStatementCases
<1>2. /\ KnownInv(y) /\ y.always = x.always /\ y.pending = x.pending /\ y.ended = ~Has(s.exits, "normal")
      /\ y.last = s.exits
      /\ \A a \in Assignments :
            Possible(y.exits, a) = PlainExits(Possible(x.exits, a), Possible(x.pending, a), x.always,
                                              Possible(s.exits, a), s.exits.states)
  BY SeenParts, Zenon
<1>3. CASE ~x.ended /\ s.kind # "success"
  <2>1. AfterStatement(x, s) = y
    BY <1>3, AfterStatementCases
  <2> HIDE DEF y
  <2>2. LastInv(y)
    <3> SUFFICES ASSUME NEW a \in Assignments
                 PROVE  /\ \A o \in Possible(y.last, a) \ {"normal"} :
                                (y.always => o \in AllThrowing) => o \in Possible(y.exits, a)
                        /\ y.ended /\ ~OnlyHas(y.last, AllThrowing) => Possible(y.pending, a) \subseteq Possible(y.exits, a)
      BY Zenon DEF LastInv
    <3> DEFINE px == Possible(x.exits, a)
               pp == Possible(x.pending, a)
               p == Possible(s.exits, a)
    <3>1. Possible(y.exits, a) = PlainExits(px, pp, x.always, p, s.exits.states)
      BY <1>2
    <3>2. \A o \in p \ {"normal"} : (x.always => o \in AllThrowing) => o \in Possible(y.exits, a)
      <4> HIDE DEF px, pp, p
      <4> QED
        BY <3>1 DEF PlainExits
    <3>3. y.ended /\ ~OnlyHas(s.exits, AllThrowing) => pp \subseteq Possible(y.exits, a)
      <4>1. y.ended /\ ~OnlyHas(s.exits, AllThrowing) => ~(s.exits.states \subseteq AllThrowing \cup {"normal"})
        BY <1>2 DEF OnlyHas, Has
      <4> HIDE DEF px, pp, p
      <4> QED
        BY <3>1, <4>1 DEF PlainExits
    <3> QED
      BY <1>2, <3>2, <3>3
  <2> QED
    BY <2>1, <2>2
<1>4. CASE ~x.ended /\ s.kind = "success"
  <2>1. AfterStatement(x, s) = AfterScopeSuccess(y, s)
    BY <1>4, AfterStatementCases
  <2>2. s.exits = Exits({"normal"})
    BY <1>4 DEF StatementInv
  <2>3. Has(s.exits, "normal") /\ \A a \in Assignments : Possible(s.exits, a) = {"normal"}
    BY <2>2 DEF Exits, Possible, Has
  <2> DEFINE z == AfterScopeSuccess(y, s)
  <2>4. z.ended = y.ended /\ z.last = y.last
    <3> HIDE DEF y
    <3> QED
      BY <1>2, <1>4, SuccessParts
  <2> HIDE DEF y, z
  <2>5. LastInv(z)
    BY <1>2, <2>3, <2>4 DEF LastInv
  <2> QED
    BY <2>1, <2>5 DEF z
<1> QED
  BY <1>1, <1>3, <1>4

\* What Scope::exitStates makes of what it knows in the end.
ExitsAfter(x) ==
    AddExits(AddExits(x.exits, IF OnlyHas(x.last, AllThrowing) THEN None ELSE x.pending), Unblocked(x, x.last))

LEMMA ExitsAfterParts ==
    ASSUME NEW x, KnownInv(x)
    PROVE  /\ WellFormed(ExitsAfter(x))
           /\ \A a \in Assignments :
                 Possible(ExitsAfter(x), a) =
                     Possible(x.exits, a)
                     \cup (IF OnlyHas(x.last, AllThrowing) THEN {} ELSE Possible(x.pending, a))
                     \cup (IF x.always THEN Possible(x.last, a) \cap AllThrowing ELSE Possible(x.last, a))
<1> DEFINE p == IF OnlyHas(x.last, AllThrowing) THEN None ELSE x.pending
           u == Unblocked(x, x.last)
           e == AddExits(x.exits, p)
<1>1. /\ WellFormed(p)
      /\ \A a \in Assignments :
            Possible(p, a) = IF OnlyHas(x.last, AllThrowing) THEN {} ELSE Possible(x.pending, a)
  BY PossibleNone DEF KnownInv
<1>2. /\ WellFormed(u)
      /\ \A a \in Assignments :
            Possible(u, a) = IF x.always THEN Possible(x.last, a) \cap AllThrowing ELSE Possible(x.last, a)
  BY PossibleUnblocked DEF KnownInv
<1>3. WellFormed(e) /\ \A a \in Assignments : Possible(e, a) = Possible(x.exits, a) \cup Possible(p, a)
  <2> HIDE DEF p
  <2> QED
    BY <1>1, PossibleAdd DEF KnownInv
<1>4. /\ WellFormed(ExitsAfter(x))
      /\ \A a \in Assignments :
            Possible(ExitsAfter(x), a) = Possible(x.exits, a) \cup Possible(p, a) \cup Possible(u, a)
  <2>1. ExitsAfter(x) = AddExits(e, u)
    BY Zenon DEF ExitsAfter
  <2> HIDE DEF p, u, e
  <2> QED
    BY <1>2, <1>3, <2>1, PossibleAdd
<1> HIDE DEF p, u, e
<1> QED
  BY <1>1, <1>2, <1>4

LEMMA ExitsAfterAllow ==
    ASSUME NEW x, KnownInv(x), LastInv(x), NEW a \in Assignments
    PROVE  Possible(ExitsAfter(x), a) = Outcome(x, Always("normal"), a)
<1> DEFINE p == IF OnlyHas(x.last, AllThrowing) THEN {} ELSE Possible(x.pending, a)
           u == IF x.always THEN Possible(x.last, a) \cap AllThrowing ELSE Possible(x.last, a)
<1>4. Possible(ExitsAfter(x), a) = Possible(x.exits, a) \cup p \cup u
  BY ExitsAfterParts
<1>5. Always("normal")[a] = {"normal"}
  BY DEF Always
<1>6. NonThrowing \cap AllThrowing = {} /\ "normal" \in NonThrowing
  BY DEF NonThrowing, AllThrowing, States
<1> DEFINE px == Possible(x.exits, a)
           pp == Possible(x.pending, a)
           pl == Possible(x.last, a)
<1>7. \A o \in pl \ {"normal"} : (x.always => o \in AllThrowing) => o \in px
  BY DEF LastInv
<1>8. CASE x.ended
  <2>1. "normal" \notin pl
    BY <1>8 DEF KnownInv, Has, Possible
  <2>2. p \subseteq px
    BY <1>8 DEF LastInv
  <2>3. u \subseteq px
    <3> HIDE DEF px, pl
    <3> QED
      BY <1>7, <2>1 DEF pl
  <2>4. Outcome(x, Always("normal"), a) = px
    BY <1>8 DEF Outcome
  <2> HIDE DEF p, u, px
  <2> QED
    BY <1>4, <2>2, <2>3, <2>4 DEF px
<1>9. CASE ~x.ended
  <2>1. ~OnlyHas(x.last, AllThrowing) /\ "normal" \in pl
    BY <1>9 DEF KnownInv, Has, Possible, OnlyHas, AllThrowing
  <2>2. p = pp
    BY <2>1
  <2>3. Outcome(x, Always("normal"), a) = Left(px, pp, x.always, {"normal"})
    BY <1>5, <1>9, OutcomeIsLeft, Zenon
  <2>4. Left(px, pp, x.always, {"normal"}) = px \cup pp \cup u
    <3> HIDE DEF u, px, pp, pl
    <3>1. Left(px, pp, x.always, {"normal"}) = px \cup {o \in {"normal"} : x.always => o \in AllThrowing} \cup pp
      BY <1>6 DEF Left
    <3>2. CASE x.always
      BY <1>6, <1>7, <2>1, <3>1, <3>2 DEF pl, u
    <3>3. CASE ~x.always
      BY <1>7, <2>1, <3>1, <3>3 DEF pl, u
    <3> QED
      BY <3>2, <3>3
  <2> HIDE DEF p, u, px, pp
  <2> QED
    BY <1>4, <2>2, <2>3, <2>4 DEF px
<1> QED
  BY <1>4, <1>8, <1>9

\* What comes of the statements of ss from k on, R[k].
IsRest(ss, R) ==
    /\ R[Len(ss) + 1] = Always("normal") /\ R[1] = ScopeCan(ss)
    /\ \A k \in 1 .. Len(ss) : R[k] = Before(ss[k], R[k + 1])

LEMMA RestCans ==
    ASSUME NEW ss, Len(ss) \in Nat, \A i \in 1 .. Len(ss) : StatementInv(ss[i]), NEW R, IsRest(ss, R)
    PROVE  \A k \in 1 .. Len(ss) + 1 : R[k] \in Cans
<1> DEFINE n == Len(ss)
<1>1. R[n + 1] = Always("normal") /\ \A k \in 1 .. n : R[k] = Before(ss[k], R[k + 1])
  BY DEF IsRest
<1>2. n \in Nat /\ \A i \in 1 .. n : StatementInv(ss[i])
  OBVIOUS
<1> HIDE DEF n
<1>3. \A k \in 1 .. n + 1 : R[k] \in Cans
  <2> DEFINE S == {j \in Nat : j <= n => R[n + 1 - j] \in Cans}
  <2>1. 0 \in S
    <3>1. Always("normal") \in Cans
      BY DEF Always, Cans, States
    <3>2. n + 1 - 0 = n + 1
      BY <1>2
    <3> QED
      BY <1>1, <3>1, <3>2
  <2>2. ASSUME NEW j \in S PROVE j + 1 \in S
    <3>1. CASE j + 1 <= n
      <4>1. n + 1 - (j + 1) \in 1 .. n /\ (n + 1 - (j + 1)) + 1 = n + 1 - j /\ j <= n /\ j \in Nat
        BY <1>2, <3>1
      <4>2. R[n + 1 - (j + 1)] = Before(ss[n + 1 - (j + 1)], R[n + 1 - j])
        BY <1>1, <4>1
      <4>3. StatementInv(ss[n + 1 - (j + 1)]) /\ R[n + 1 - j] \in Cans
        BY <1>2, <4>1
      <4>4. R[n + 1 - (j + 1)] \in Cans
        BY <4>2, <4>3, BeforeType
      <4> QED
        BY <4>1, <4>4
    <3>2. CASE ~(j + 1 <= n)
      BY <3>2
    <3> QED
      BY <3>1, <3>2
  <2>3. S \in SUBSET Nat
    OBVIOUS
  <2> HIDE DEF S
  <2>4. S = Nat
    BY <2>1, <2>2, <2>3, Induction
  <2>5. ASSUME NEW k \in 1 .. n + 1 PROVE R[k] \in Cans
    <3>1. n + 1 - k \in Nat /\ n + 1 - k <= n /\ n + 1 - (n + 1 - k) = k
      BY <1>2
    <3>2. n + 1 - k \in S
      BY <2>4, <3>1
    <3> QED
      BY <3>1, <3>2 DEF S
  <2> QED
    BY <2>5
<1> QED
  BY <1>3 DEF n

LEMMA ScopeOutcomes ==
    ASSUME NEW ss, Len(ss) \in Nat, DOMAIN ss = 1 .. Len(ss), \A i \in DOMAIN ss : StatementInv(ss[i])
    PROVE  /\ WellFormed(ScopeExitStates(ss)) /\ ScopeCan(ss) \in Cans
           /\ \A a \in Assignments :
                 /\ ScopeCan(ss)[a] \subseteq Possible(ScopeExitStates(ss), a)
                 /\ (\A i \in DOMAIN ss : StatementExact(ss[i]))
                       => ScopeCan(ss)[a] = Possible(ScopeExitStates(ss), a)
<1> DEFINE n == Len(ss)
           IsExact == \A i \in DOMAIN ss : StatementExact(ss[i])
<1>1. PICK X, R :
           /\ X[0] = AtFirst /\ X[n] = Looked(ss)
           /\ \A k \in 0 .. n - 1 : X[k + 1] = AfterStatement(X[k], ss[k + 1])
           /\ R[n + 1] = Always("normal") /\ R[1] = ScopeCan(ss)
           /\ \A k \in 1 .. n : R[k] = Before(ss[k], R[k + 1])
  BY ScopeFolds
<1>2. n \in Nat /\ \A i \in 1 .. n : StatementInv(ss[i])
  OBVIOUS
<1> HIDE DEF n
<1>3. \A k \in 0 .. n : KnownInv(X[k]) /\ LastInv(X[k])
  <2> DEFINE S == {k \in Nat : k <= n => KnownInv(X[k]) /\ LastInv(X[k])}
  <2>1. 0 \in S
    BY <1>1, AtFirstInv
  <2>2. ASSUME NEW k \in S PROVE k + 1 \in S
    <3>1. CASE k + 1 <= n
      <4>1. k \in 0 .. n - 1 /\ k + 1 \in 1 .. n /\ k <= n /\ k \in Nat
        BY <1>2, <3>1
      <4>2. X[k + 1] = AfterStatement(X[k], ss[k + 1]) /\ StatementInv(ss[k + 1])
        BY <1>1, <1>2, <4>1
      <4>3. KnownInv(X[k]) /\ LastInv(X[k])
        BY <4>1
      <4>4. KnownInv(X[k + 1]) /\ LastInv(X[k + 1])
        BY <4>2, <4>3, AfterStatementInv, LastStep
      <4> QED
        BY <4>1, <4>4
    <3>2. CASE ~(k + 1 <= n)
      BY <3>2
    <3> QED
      BY <3>1, <3>2
  <2>3. S \in SUBSET Nat
    OBVIOUS
  <2> HIDE DEF S
  <2>4. S = Nat
    BY <2>1, <2>2, <2>3, Induction
  <2> QED
    BY <1>2, <2>4 DEF S
<1>4. \A k \in 1 .. n + 1 : R[k] \in Cans
  BY <1>1, RestCans DEF IsRest, n
<1>5. ASSUME NEW a \in Assignments
      PROVE  \A k \in 0 .. n :
                 /\ ScopeCan(ss)[a] \subseteq Outcome(X[k], R[k + 1], a)
                 /\ IsExact => ScopeCan(ss)[a] = Outcome(X[k], R[k + 1], a)
  <2> DEFINE S ==
                 {k \in Nat :
                      k <= n => /\ ScopeCan(ss)[a] \subseteq Outcome(X[k], R[k + 1], a)
                                /\ IsExact => ScopeCan(ss)[a] = Outcome(X[k], R[k + 1], a)}
  <2>1. 0 \in S
    <3>1. 0 + 1 = 1 /\ Outcome(X[0], R[1], a) = ScopeCan(ss)[a]
      BY <1>1, AtFirstInv
    <3> QED
      BY <3>1
  <2>2. ASSUME NEW k \in S PROVE k + 1 \in S
    <3>1. CASE k + 1 <= n
      <4>1. k \in 0 .. n - 1 /\ k \in 0 .. n /\ k + 1 \in 1 .. n /\ (k + 1) + 1 \in 1 .. n + 1 /\ k <= n /\ k \in Nat
        BY <1>2, <3>1
      <4>2. /\ X[k + 1] = AfterStatement(X[k], ss[k + 1]) /\ StatementInv(ss[k + 1])
            /\ R[k + 1] = Before(ss[k + 1], R[(k + 1) + 1]) /\ R[(k + 1) + 1] \in Cans /\ KnownInv(X[k])
        BY <1>1, <1>2, <1>3, <1>4, <4>1
      <4>3. /\ Outcome(X[k], R[k + 1], a) \subseteq Outcome(X[k + 1], R[(k + 1) + 1], a)
            /\ StatementExact(ss[k + 1]) => Outcome(X[k], R[k + 1], a) = Outcome(X[k + 1], R[(k + 1) + 1], a)
        BY <4>2, StatementStep
      <4>4. /\ ScopeCan(ss)[a] \subseteq Outcome(X[k], R[k + 1], a)
            /\ IsExact => ScopeCan(ss)[a] = Outcome(X[k], R[k + 1], a)
        BY <4>1
      <4>5. IsExact => StatementExact(ss[k + 1])
        BY <4>1 DEF n
      <4> HIDE DEF IsExact
      <4>6. /\ ScopeCan(ss)[a] \subseteq Outcome(X[k + 1], R[(k + 1) + 1], a)
            /\ IsExact => ScopeCan(ss)[a] = Outcome(X[k + 1], R[(k + 1) + 1], a)
        BY <4>3, <4>4, <4>5
      <4> QED
        BY <4>1, <4>6
    <3>2. CASE ~(k + 1 <= n)
      BY <3>2
    <3> QED
      BY <3>1, <3>2
  <2>3. S \in SUBSET Nat
    OBVIOUS
  <2> HIDE DEF S
  <2>4. S = Nat
    BY <2>1, <2>2, <2>3, Induction
  <2> QED
    BY <1>2, <2>4 DEF S
<1>6. ScopeExitStates(ss) = ExitsAfter(Looked(ss))
  BY Zenon DEF ScopeExitStates, ExitsAfter, Looked, AtFirst
<1>7. KnownInv(Looked(ss)) /\ LastInv(Looked(ss)) /\ ScopeCan(ss) \in Cans
  <2>1. n \in 0 .. n /\ 1 \in 1 .. n + 1
    BY <1>2
  <2> QED
    BY <1>1, <1>3, <1>4, <2>1
<1>8. ASSUME NEW a \in Assignments
      PROVE  /\ ScopeCan(ss)[a] \subseteq Possible(ScopeExitStates(ss), a)
             /\ IsExact => ScopeCan(ss)[a] = Possible(ScopeExitStates(ss), a)
  <2>1. n \in 0 .. n
    BY <1>2
  <2>2. Possible(ExitsAfter(Looked(ss)), a) = Outcome(Looked(ss), Always("normal"), a)
    BY <1>7, ExitsAfterAllow
  <2> HIDE DEF IsExact
  <2>3. /\ ScopeCan(ss)[a] \subseteq Outcome(X[n], R[n + 1], a)
        /\ IsExact => ScopeCan(ss)[a] = Outcome(X[n], R[n + 1], a)
    <3>1. \A k \in 0 .. n :
              /\ ScopeCan(ss)[a] \subseteq Outcome(X[k], R[k + 1], a)
              /\ IsExact => ScopeCan(ss)[a] = Outcome(X[k], R[k + 1], a)
      BY <1>5, Zenon
    <3> QED
      BY <2>1, <3>1
  <2>4. X[n] = Looked(ss) /\ R[n + 1] = Always("normal")
    BY <1>1
  <2> QED
    BY <1>6, <2>2, <2>3, <2>4, Zenon
<1>9. WellFormed(ScopeExitStates(ss))
  BY <1>6, <1>7, ExitsAfterParts
<1> QED
  BY <1>7, <1>8, <1>9

-----------------------------------------------------------------------------
\* The constructors of AST::Statement: the exit states allow for what the statement can do.

PlainRecords == [kind : {"plain"}, exits : ExitSets, can : Cans, body : {<<>>}]
PartRecords  == [exits : ExitSets, can : Cans]
ExitRecords  == [kind : StatementKinds, exits : ExitSets, can : Cans, body : PartRecords]

Parts      == {p \in PartRecords : PartInv(p)}
Statements == {s \in PlainRecords \cup ExitRecords : StatementInv(s)}

\* Values are left normally or by throwing.
ValueInv(v) == PartInv(v) /\ OnlyHas(v.exits, {"normal", "throw"})

\* What an expression and the statement after it can do.
ThenOf(one, next) == (one \ {"normal"}) \cup (IF "normal" \in one THEN next ELSE {})

LEMMA PlainIsStatement ==
    ASSUME NEW e, WellFormed(e), NEW can, can \in Cans,
           \A a \in Assignments : can[a] \subseteq Possible(e, a)
    PROVE  Plain(e, can) \in Statements
<1>1. Plain(e, can) \in PlainRecords
  BY DEF Plain, PlainRecords, WellFormed
<1>2. Plain(e, can).kind = "plain" /\ Plain(e, can).exits = e /\ Plain(e, can).can = can
  BY DEF Plain
<1>3. StatementInv(Plain(e, can))
  BY <1>2 DEF StatementInv, StatementKinds, PartInv
<1> QED
  BY <1>1, <1>3 DEF Statements

LEMMA CanOperators ==
    ASSUME NEW one, one \in Cans, NEW next, next \in Cans
    PROVE  /\ Then(one, next) \in Cans /\ Either(one, next) \in Cans
           /\ \A a \in Assignments : /\ Then(one, next)[a] = ThenOf(one[a], next[a])
                                     /\ Either(one, next)[a] = one[a] \cup next[a]
BY DEF Then, ThenOf, Either, Cans

LEMMA AlwaysCan ==
    ASSUME NEW state \in States
    PROVE  Always(state) \in Cans /\ \A a \in Assignments : Always(state)[a] = {state}
BY DEF Always, Cans

LEMMA PossibleThrows ==
    ASSUME NEW p \in SUBSET Assignments
    PROVE  WellFormed(Throws(p)) /\ \A a \in Assignments : Possible(Throws(p), a) = IF a \in p THEN {} ELSE {"throw"}
BY DEF WellFormed, ExitSets, Throws, Possible, States

LEMMA ValuesInv ==
    ASSUME NEW v \in Values
    PROVE  ValueInv(v)
<1>1. PICK p \in Predicates \cup {Assignments} : v = Call(p)
  BY DEF Values
<1>2. p \in SUBSET Assignments
  BY ExitStatesAssumption
<1> DEFINE can == [a \in Assignments |-> {"normal"} \cup (IF a \in p THEN {} ELSE {"throw"})]
           n == Exits({"normal"})
           e == IF p = Assignments THEN n ELSE AddExits(n, Throws(p))
<1>3. v.exits = e /\ v.can = can
  BY <1>1 DEF Call
<1>4. can \in Cans /\ \A a \in Assignments : can[a] = {"normal"} \cup (IF a \in p THEN {} ELSE {"throw"})
  BY DEF Cans, States
<1>5. WellFormed(n) /\ (\A a \in Assignments : Possible(n, a) = {"normal"}) /\ n.states = {"normal"}
  <2>1. {"normal"} \in SUBSET States /\ "throw" \notin {"normal"}
    BY DEF States
  <2> QED
    BY <2>1, PossibleExits DEF Exits
<1>6. WellFormed(Throws(p)) /\ Throws(p).states = {"throw"}
      /\ \A a \in Assignments : Possible(Throws(p), a) = IF a \in p THEN {} ELSE {"throw"}
  BY <1>2, PossibleThrows DEF Throws
<1>7. WellFormed(AddExits(n, Throws(p))) /\ AddExits(n, Throws(p)).states = {"normal", "throw"}
      /\ \A a \in Assignments : Possible(AddExits(n, Throws(p)), a) = {"normal"} \cup (IF a \in p THEN {} ELSE {"throw"})
  <2> HIDE DEF n
  <2>1. AddExits(n, Throws(p)).states = n.states \cup Throws(p).states
    BY DEF AddExits
  <2>2. WellFormed(AddExits(n, Throws(p)))
        /\ \A a \in Assignments : Possible(AddExits(n, Throws(p)), a) = Possible(n, a) \cup Possible(Throws(p), a)
    BY <1>5, <1>6, PossibleAdd
  <2> QED
    BY <1>5, <1>6, <2>1, <2>2
<1>8. WellFormed(e) /\ e.states \subseteq {"normal", "throw"}
      /\ \A a \in Assignments : can[a] \subseteq Possible(e, a)
  <2> HIDE DEF n, can
  <2>1. CASE p = Assignments
    BY <1>4, <1>5, <2>1
  <2>2. CASE p # Assignments
    BY <1>4, <1>7, <2>2
  <2> QED
    BY <2>1, <2>2
<1> HIDE DEF e, can
<1> QED
  BY <1>3, <1>4, <1>8 DEF ValueInv, PartInv, OnlyHas

LEMMA PartInvParts ==
    ASSUME NEW p, PartInv(p)
    PROVE  /\ WellFormed(p.exits) /\ p.can \in Cans
           /\ \A a \in Assignments : /\ p.can[a] \subseteq Possible(p.exits, a)
                                     /\ Possible(p.exits, a) \subseteq p.exits.states
BY PossibleOfBoth DEF PartInv

LEMMA ScopeStmtInv == ASSUME NEW p, PartInv(p) PROVE ScopeStmt(p) \in Statements
BY PartInvParts, PlainIsStatement DEF ScopeStmt

LEMMA ValueStmtInv == ASSUME NEW v \in Values PROVE ValueStmt(v) \in Statements
BY ValuesInv, PartInvParts, PlainIsStatement DEF ValueStmt, ValueInv

LEMMA LeaveInv == ASSUME NEW state \in States \ {"throw"} PROVE Leave(state) \in Statements
<1>1. state \in States /\ {state} \in SUBSET States /\ "throw" \notin {state}
  OBVIOUS
<1>2. WellFormed(Exits({state})) /\ \A a \in Assignments : Possible(Exits({state}), a) = {state}
  BY <1>1, PossibleExits
<1>3. Always(state) \in Cans /\ \A a \in Assignments : Always(state)[a] = {state}
  BY <1>1, AlwaysCan
<1> QED
  BY <1>2, <1>3, PlainIsStatement DEF Leave

LEMMA ThrowInv == Throw \in Statements
<1>1. WellFormed(ThrowAlways) /\ \A a \in Assignments : Possible(ThrowAlways, a) = {"throw"}
  BY PossibleThrows DEF ThrowAlways
<1>2. Always("throw") \in Cans /\ \A a \in Assignments : Always("throw")[a] = {"throw"}
  BY AlwaysCan DEF States
<1> QED
  BY <1>1, <1>2, PlainIsStatement DEF Throw

LEMMA UnreachableInv == Unreachable \in Statements
<1> DEFINE can == [a \in Assignments |-> {}]
<1>1. can \in Cans /\ \A a \in Assignments : can[a] = {}
  BY DEF Cans
<1>2. Unreachable = Plain(None, can)
  BY DEF Unreachable
<1> HIDE DEF can
<1> QED
  BY <1>1, <1>2, PossibleNone, PlainIsStatement

LEMMA ReturnInv == ASSUME NEW v \in Values PROVE Return(v) \in Statements
<1> DEFINE n == Exits({"return"})
           t == ThrowingStates(v.exits)
           next == Always("return")
<1>1. PartInv(v) /\ OnlyHas(v.exits, {"normal", "throw"})
  BY ValuesInv DEF ValueInv
<1>2. WellFormed(n) /\ \A a \in Assignments : Possible(n, a) = {"return"}
  <2>1. {"return"} \in SUBSET States /\ "throw" \notin {"return"}
    BY DEF States
  <2> QED
    BY <2>1, PossibleExits
<1>3. WellFormed(t) /\ \A a \in Assignments : Possible(t, a) = Possible(v.exits, a) \cap AllThrowing
  BY <1>1, PartInvParts, PossibleThrowing
<1>4. next \in Cans /\ \A a \in Assignments : next[a] = {"return"}
  BY AlwaysCan DEF States
<1>5. Return(v) = Plain(AddExits(n, t), Then(v.can, next))
  BY DEF Return
<1> HIDE DEF n, t, next
<1>6. /\ WellFormed(AddExits(n, t))
      /\ \A a \in Assignments : Possible(AddExits(n, t), a) = {"return"} \cup (Possible(v.exits, a) \cap AllThrowing)
  BY <1>2, <1>3, PossibleAdd
<1>7. /\ Then(v.can, next) \in Cans
      /\ \A a \in Assignments : Then(v.can, next)[a] = ThenOf(v.can[a], next[a])
  BY <1>1, <1>4, PartInvParts, CanOperators
<1>8. ASSUME NEW a \in Assignments PROVE Then(v.can, next)[a] \subseteq Possible(AddExits(n, t), a)
  <2>1. v.can[a] \subseteq Possible(v.exits, a) /\ Possible(v.exits, a) \subseteq {"normal", "throw"}
    BY <1>1, PartInvParts DEF OnlyHas
  <2> QED
    BY <1>4, <1>6, <1>7, <2>1 DEF ThenOf, AllThrowing
<1> QED
  BY <1>5, <1>6, <1>7, <1>8, PlainIsStatement

LEMMA AssignInv == ASSUME NEW l \in Values, NEW r \in Values PROVE Assign(l, r) \in Statements
<1> DEFINE t == ThrowingStates(r.exits)
<1>1. PartInv(l) /\ PartInv(r) /\ OnlyHas(r.exits, {"normal", "throw"})
  BY ValuesInv DEF ValueInv
<1>2. WellFormed(t) /\ \A a \in Assignments : Possible(t, a) = Possible(r.exits, a) \cap AllThrowing
  BY <1>1, PartInvParts, PossibleThrowing
<1>3. Assign(l, r) = Plain(AddExits(t, l.exits), Then(r.can, l.can))
  BY DEF Assign
<1> HIDE DEF t
<1>4. /\ WellFormed(AddExits(t, l.exits))
      /\ \A a \in Assignments : Possible(AddExits(t, l.exits), a) = Possible(t, a) \cup Possible(l.exits, a)
  BY <1>1, <1>2, PartInvParts, PossibleAdd
<1>5. /\ Then(r.can, l.can) \in Cans
      /\ \A a \in Assignments : Then(r.can, l.can)[a] = ThenOf(r.can[a], l.can[a])
  BY <1>1, PartInvParts, CanOperators
<1>6. ASSUME NEW a \in Assignments PROVE Then(r.can, l.can)[a] \subseteq Possible(AddExits(t, l.exits), a)
  <2>1. /\ r.can[a] \subseteq Possible(r.exits, a) /\ Possible(r.exits, a) \subseteq {"normal", "throw"}
        /\ l.can[a] \subseteq Possible(l.exits, a)
    BY <1>1, PartInvParts DEF OnlyHas
  <2> QED
    BY <1>2, <1>4, <1>5, <2>1 DEF ThenOf, AllThrowing
<1> QED
  BY <1>3, <1>4, <1>5, <1>6, PlainIsStatement

LEMMA IfInv ==
    ASSUME NEW v \in Values, NEW then, PartInv(then), NEW else, PartInv(else)
    PROVE  If(v, then, else) \in Statements
<1> DEFINE t == ThrowingStates(v.exits)
           E == {t, then.exits, else.exits}
           e == AddAll(None, E)
           next == Either(then.can, else.can)
<1>1. PartInv(v) /\ OnlyHas(v.exits, {"normal", "throw"})
  BY ValuesInv DEF ValueInv
<1>2. WellFormed(t) /\ \A a \in Assignments : Possible(t, a) = Possible(v.exits, a) \cap AllThrowing
  BY <1>1, PartInvParts, PossibleThrowing
<1>3. If(v, then, else) = Plain(e, Then(v.can, next))
  BY DEF If
<1> HIDE DEF t
<1>4. /\ WellFormed(e)
      /\ \A a \in Assignments : Possible(e, a) = Possible(None, a) \cup UNION {Possible(f, a) : f \in E}
  <2>1. \A f \in E : WellFormed(f)
    BY <1>2, PartInvParts
  <2> HIDE DEF E
  <2> QED
    BY <2>1, PossibleNone, PossibleAddAll
<1>5. next \in Cans /\ \A a \in Assignments : next[a] = then.can[a] \cup else.can[a]
  BY PartInvParts, CanOperators
<1> HIDE DEF e, next
<1>6. /\ Then(v.can, next) \in Cans
      /\ \A a \in Assignments : Then(v.can, next)[a] = ThenOf(v.can[a], next[a])
  BY <1>1, <1>5, PartInvParts, CanOperators
<1>7. ASSUME NEW a \in Assignments PROVE Then(v.can, next)[a] \subseteq Possible(e, a)
  <2>1. v.can[a] \subseteq Possible(v.exits, a) /\ Possible(v.exits, a) \subseteq {"normal", "throw"}
    BY <1>1, PartInvParts DEF OnlyHas
  <2>2. then.can[a] \subseteq Possible(then.exits, a) /\ else.can[a] \subseteq Possible(else.exits, a)
    BY PartInvParts
  <2>3. Possible(t, a) \cup Possible(then.exits, a) \cup Possible(else.exits, a) \subseteq Possible(e, a)
    BY <1>4
  <2> HIDE DEF E
  <2> QED
    BY <1>2, <1>5, <1>6, <2>1, <2>2, <2>3 DEF ThenOf, AllThrowing
<1> QED
  BY <1>3, <1>4, <1>6, <1>7, PlainIsStatement

LEMMA SwitchInv ==
    ASSUME NEW v \in Values, NEW one, PartInv(one), NEW other, PartInv(other)
    PROVE  Switch(v, one, other) \in Statements
<1> DEFINE t == ThrowingStates(v.exits)
           E == {one.exits, other.exits}
           e == AddAll(t, E)
           next == Either(one.can, other.can)
<1>1. PartInv(v) /\ OnlyHas(v.exits, {"normal", "throw"})
  BY ValuesInv DEF ValueInv
<1>2. WellFormed(t) /\ \A a \in Assignments : Possible(t, a) = Possible(v.exits, a) \cap AllThrowing
  BY <1>1, PartInvParts, PossibleThrowing
<1>3. Switch(v, one, other) = Plain(e, Then(v.can, next))
  BY DEF Switch
<1> HIDE DEF t
<1>4. /\ WellFormed(e)
      /\ \A a \in Assignments : Possible(e, a) = Possible(t, a) \cup UNION {Possible(f, a) : f \in E}
  <2>1. \A f \in E : WellFormed(f)
    BY PartInvParts
  <2> HIDE DEF E
  <2> QED
    BY <1>2, <2>1, PossibleAddAll
<1>5. next \in Cans /\ \A a \in Assignments : next[a] = one.can[a] \cup other.can[a]
  BY PartInvParts, CanOperators
<1> HIDE DEF e, next
<1>6. /\ Then(v.can, next) \in Cans
      /\ \A a \in Assignments : Then(v.can, next)[a] = ThenOf(v.can[a], next[a])
  BY <1>1, <1>5, PartInvParts, CanOperators
<1>7. ASSUME NEW a \in Assignments PROVE Then(v.can, next)[a] \subseteq Possible(e, a)
  <2>1. v.can[a] \subseteq Possible(v.exits, a) /\ Possible(v.exits, a) \subseteq {"normal", "throw"}
    BY <1>1, PartInvParts DEF OnlyHas
  <2>2. one.can[a] \subseteq Possible(one.exits, a) /\ other.can[a] \subseteq Possible(other.exits, a)
    BY PartInvParts
  <2>3. Possible(t, a) \cup Possible(one.exits, a) \cup Possible(other.exits, a) \subseteq Possible(e, a)
    BY <1>4
  <2> HIDE DEF E
  <2> QED
    BY <1>2, <1>5, <1>6, <2>1, <2>2, <2>3 DEF ThenOf, AllThrowing
<1> QED
  BY <1>3, <1>4, <1>6, <1>7, PlainIsStatement

LEMMA AssertNoExceptInv == ASSUME NEW body, PartInv(body) PROVE AssertNoExcept(body) \in Statements
<1> DEFINE e == RemoveExits(body.exits, AllThrowing)
           can == [a \in Assignments |-> body.can[a] \ AllThrowing]
<1>1. WellFormed(e) /\ \A a \in Assignments : Possible(e, a) = Possible(body.exits, a) \ AllThrowing
  <2>1. AllThrowing \in SUBSET States
    BY DEF AllThrowing, States
  <2> QED
    BY <2>1, PartInvParts, PossibleRemove
<1>2. can \in Cans /\ \A a \in Assignments : can[a] = body.can[a] \ AllThrowing
  BY PartInvParts DEF Cans
<1>3. AssertNoExcept(body) = Plain(e, can)
  BY DEF AssertNoExcept
<1> HIDE DEF e, can
<1>4. \A a \in Assignments : can[a] \subseteq Possible(e, a)
  BY <1>1, <1>2, PartInvParts
<1> QED
  BY <1>1, <1>2, <1>3, <1>4, PlainIsStatement

LEMMA TryInv ==
    ASSUME NEW body, PartInv(body), NEW catch, PartInv(catch)
    PROVE  Try(body, catch) \in Statements
<1> DEFINE rethrown == IF Has(catch.exits, "rethrow") THEN ThrowAlways ELSE None
           others == RemoveExits(catch.exits, {"rethrow"})
           E == {rethrown, others}
           e == AddAll(body.exits, E)
           caught(a) == {IF o = "rethrow" THEN "throw" ELSE o : o \in catch.can[a]}
           can == [a \in Assignments |-> body.can[a] \cup (IF "throw" \in body.can[a] THEN caught(a) ELSE {})]
<1>1. WellFormed(rethrown)
      /\ \A a \in Assignments : Possible(rethrown, a) = IF Has(catch.exits, "rethrow") THEN {"throw"} ELSE {}
  BY PossibleNone, PossibleThrows DEF ThrowAlways
<1>2. WellFormed(others) /\ \A a \in Assignments : Possible(others, a) = Possible(catch.exits, a) \ {"rethrow"}
  <2>1. {"rethrow"} \in SUBSET States
    BY DEF States
  <2> QED
    BY <2>1, PartInvParts, PossibleRemove
<1>3. Try(body, catch) = Plain(e, can)
  BY Zenon DEF Try
<1> HIDE DEF rethrown, others
<1>4. /\ WellFormed(e)
      /\ \A a \in Assignments : Possible(e, a) = Possible(body.exits, a) \cup UNION {Possible(f, a) : f \in E}
  <2>1. \A f \in E : WellFormed(f)
    BY <1>1, <1>2
  <2> HIDE DEF E
  <2> QED
    BY <2>1, PartInvParts, PossibleAddAll
<1>5. ASSUME NEW a \in Assignments
      PROVE  /\ caught(a) \subseteq Possible(rethrown, a) \cup Possible(others, a) /\ caught(a) \subseteq States
             /\ can[a] = body.can[a] \cup (IF "throw" \in body.can[a] THEN caught(a) ELSE {})
             /\ can[a] \in SUBSET States
  <2>1. catch.can[a] \subseteq Possible(catch.exits, a) /\ Possible(catch.exits, a) \subseteq catch.exits.states
    BY PartInvParts
  <2>2. catch.can[a] \in SUBSET States /\ body.can[a] \in SUBSET States
    BY PartInvParts DEF Cans
  <2>3. caught(a) \subseteq Possible(rethrown, a) \cup Possible(others, a)
    BY <1>1, <1>2, <2>1 DEF Has
  <2>4. caught(a) \subseteq States
    BY <2>2 DEF States
  <2> QED
    BY <2>2, <2>3, <2>4
<1>6. can \in Cans
  BY <1>5 DEF Cans
<1>7. ASSUME NEW a \in Assignments PROVE can[a] \subseteq Possible(e, a)
  <2>1. Possible(body.exits, a) \cup Possible(rethrown, a) \cup Possible(others, a) \subseteq Possible(e, a)
    BY <1>4
  <2>2. body.can[a] \subseteq Possible(body.exits, a)
    BY PartInvParts
  <2> HIDE DEF e, E, caught, can
  <2> QED
    BY <1>5, <2>1, <2>2
<1> HIDE DEF e, can
<1> QED
  BY <1>3, <1>4, <1>6, <1>7, PlainIsStatement

LEMMA LoopInv ==
    ASSUME NEW condition \in Values, NEW iteration, PartInv(iteration), NEW advance \in Values
    PROVE  Loop(condition, iteration, advance) \in Statements
<1> DEFINE broken == IF Has(iteration.exits, "break") THEN Exits({"normal"}) ELSE None
           leaving == RemoveExits(iteration.exits, {"continue", "break"})
           failing == RemoveExits(advance.exits, {"normal"})
           E == {broken, leaving, failing}
           e == AddAll(condition.exits, E)
           goesOn(a) == (iteration.can[a] \ {"normal", "continue", "break"})
                        \cup (IF "break" \in iteration.can[a] THEN {"normal"} ELSE {})
                        \cup (IF iteration.can[a] \cap {"normal", "continue"} # {}
                              THEN advance.can[a] \ {"normal"} ELSE {})
           again == [a \in Assignments |-> goesOn(a)]
           next == Either(Always("normal"), again)
<1>1. PartInv(condition) /\ PartInv(advance)
  BY ValuesInv DEF ValueInv
<1>2. WellFormed(broken)
      /\ \A a \in Assignments : Possible(broken, a) = IF Has(iteration.exits, "break") THEN {"normal"} ELSE {}
  <2>1. {"normal"} \in SUBSET States /\ "throw" \notin {"normal"}
    BY DEF States
  <2> QED
    BY <2>1, PossibleExits, PossibleNone
<1>3. WellFormed(leaving)
      /\ \A a \in Assignments : Possible(leaving, a) = Possible(iteration.exits, a) \ {"continue", "break"}
  <2>1. {"continue", "break"} \in SUBSET States
    BY DEF States
  <2> QED
    BY <2>1, PartInvParts, PossibleRemove
<1>4. WellFormed(failing) /\ \A a \in Assignments : Possible(failing, a) = Possible(advance.exits, a) \ {"normal"}
  <2>1. {"normal"} \in SUBSET States
    BY DEF States
  <2> QED
    BY <1>1, <2>1, PartInvParts, PossibleRemove
<1>5. Loop(condition, iteration, advance) = Plain(e, Then(condition.can, next))
  BY Zenon DEF Loop
<1> HIDE DEF broken, leaving, failing
<1>6. /\ WellFormed(e)
      /\ \A a \in Assignments :
            Possible(e, a) = Possible(condition.exits, a) \cup UNION {Possible(f, a) : f \in E}
  <2>1. \A f \in E : WellFormed(f)
    BY <1>2, <1>3, <1>4
  <2> HIDE DEF E
  <2> QED
    BY <1>1, <2>1, PartInvParts, PossibleAddAll
<1>7. again \in Cans /\ \A a \in Assignments : again[a] = goesOn(a)
  <2>1. ASSUME NEW a \in Assignments PROVE goesOn(a) \in SUBSET States
    <3>1. iteration.can[a] \in SUBSET States /\ advance.can[a] \in SUBSET States
      BY <1>1, PartInvParts DEF Cans
    <3> QED
      BY <3>1 DEF States
  <2> HIDE DEF goesOn
  <2> QED
    BY <2>1 DEF Cans
<1>8. next \in Cans /\ \A a \in Assignments : next[a] = {"normal"} \cup again[a]
  <2>1. Always("normal") \in Cans /\ \A a \in Assignments : Always("normal")[a] = {"normal"}
    BY AlwaysCan DEF States
  <2> HIDE DEF again
  <2>2. next \in Cans /\ \A a \in Assignments : next[a] = Always("normal")[a] \cup again[a]
    BY <1>7, <2>1, CanOperators
  <2> HIDE DEF next
  <2> QED
    BY <2>1, <2>2
<1>9. /\ Then(condition.can, next) \in Cans
      /\ \A a \in Assignments : Then(condition.can, next)[a] = ThenOf(condition.can[a], next[a])
  <2> HIDE DEF next
  <2> QED
    BY <1>1, <1>8, PartInvParts, CanOperators
<1>10. ASSUME NEW a \in Assignments PROVE Then(condition.can, next)[a] \subseteq Possible(e, a)
  <2>1. /\ condition.can[a] \subseteq Possible(condition.exits, a)
        /\ iteration.can[a] \subseteq Possible(iteration.exits, a)
        /\ Possible(iteration.exits, a) \subseteq iteration.exits.states
        /\ advance.can[a] \subseteq Possible(advance.exits, a)
    BY <1>1, PartInvParts
  <2>2. /\ Possible(condition.exits, a) \cup Possible(broken, a) \subseteq Possible(e, a)
        /\ Possible(leaving, a) \cup Possible(failing, a) \subseteq Possible(e, a)
    BY <1>6
  <2> HIDE DEF E, e, again, next, goesOn
  <2>3. goesOn(a) \subseteq Possible(e, a) \cup {"normal"}
    BY <1>2, <1>3, <1>4, <2>1, <2>2 DEF goesOn, Has
  <2> QED
    BY <1>7, <1>8, <1>9, <2>1, <2>2, <2>3 DEF ThenOf
<1> HIDE DEF e, next
<1> QED
  BY <1>5, <1>6, <1>9, <1>10, PlainIsStatement

LEMMA ScopeExitInv ==
    ASSUME NEW kind \in {"exit", "success", "failure"}, NEW body \in Parts,
           OnlyHas(body.exits, {"normal"} \cup (IF kind = "success" THEN AllThrowing ELSE {}))
    PROVE  ScopeExit(kind, body) \in Statements
<1> DEFINE s == ScopeExit(kind, body)
           n == Exits({"normal"})
<1>1. WellFormed(n) /\ \A a \in Assignments : Possible(n, a) = {"normal"}
  <2>1. {"normal"} \in SUBSET States /\ "throw" \notin {"normal"}
    BY DEF States
  <2> QED
    BY <2>1, PossibleExits
<1>2. Always("normal") \in Cans /\ \A a \in Assignments : Always("normal")[a] = {"normal"}
  BY AlwaysCan DEF States
<1>3. s.kind = kind /\ s.exits = n /\ s.can = Always("normal") /\ s.body = body
  BY DEF ScopeExit
<1>4. body \in PartRecords /\ PartInv(body)
  BY DEF Parts
<1>5. n \in ExitSets
  BY <1>1 DEF WellFormed
<1> HIDE DEF n
<1>6. s \in ExitRecords
  BY <1>2, <1>4, <1>5 DEF ScopeExit, ExitRecords, StatementKinds, n
<1> HIDE DEF s
<1>7. StatementInv(s)
  BY <1>1, <1>2, <1>3, <1>4 DEF StatementInv, PartInv, StatementKinds, n
<1> QED
  BY <1>6, <1>7 DEF Statements, s

-----------------------------------------------------------------------------
\* The search for dead code: what it sees, and what comes of the statements below.

SeenSets == [ended : BOOLEAN, exit : SUBSET Nat, failure : SUBSET Nat, success : SUBSET Nat,
             reported : SUBSET Nat]

\* What has been seen after the statements s, from what it was after fewer, g.
WatchOf(ss, order, g, s) ==
    IF s = {} THEN NothingSeen ELSE LET i == Max(s) IN See(ss, g[s \ {i}], order[i])

Watched(ss) == FoldLeftDomain(LAMBDA seen, i : See(ss, seen, i), NothingSeen, ss)

LEMMA WatchOfExists ==
    ASSUME NEW ss, NEW order
    PROVE  \A k \in Nat : \E g : g = [s \in SUBSET (1 .. k) |-> WatchOf(ss, order, g, s)]
<1> DEFINE S == {k \in Nat : \E g : g = [s \in SUBSET (1 .. k) |-> WatchOf(ss, order, g, s)]}
<1>1. 0 \in S
  <2> DEFINE g == [s \in SUBSET (1 .. 0) |-> NothingSeen]
  <2>1. \A s \in SUBSET (1 .. 0) : WatchOf(ss, order, g, s) = NothingSeen
    BY DEF WatchOf
  <2>2. g = [s \in SUBSET (1 .. 0) |-> WatchOf(ss, order, g, s)]
    BY <2>1
  <2> QED
    BY <2>2
<1>2. ASSUME NEW k \in S PROVE k + 1 \in S
  <2>1. PICK g : g = [s \in SUBSET (1 .. k) |-> WatchOf(ss, order, g, s)]
    OBVIOUS
  <2> DEFINE f == [s \in SUBSET (1 .. k + 1) |->
                      IF k + 1 \in s THEN See(ss, g[s \ {k + 1}], order[k + 1]) ELSE g[s]]
  <2>2. ASSUME NEW s \in SUBSET (1 .. k + 1), k + 1 \in s PROVE f[s] = WatchOf(ss, order, f, s)
    <3>1. s \ {k + 1} \in SUBSET (1 .. k) /\ s \ {k + 1} \in SUBSET (1 .. k + 1) /\ k + 1 \notin s \ {k + 1}
      OBVIOUS
    <3>2. f[s \ {k + 1}] = g[s \ {k + 1}]
      BY <3>1, Zenon
    <3>3. Max(s) = k + 1
      BY <2>2, LastOf
    <3>4. f[s] = See(ss, g[s \ {k + 1}], order[k + 1])
      BY <2>2, Zenon
    <3> HIDE DEF f
    <3>5. WatchOf(ss, order, f, s) = See(ss, f[s \ {k + 1}], order[k + 1])
      BY <2>2, <3>3, Zenon DEF WatchOf
    <3> QED
      BY <3>2, <3>4, <3>5, Zenon
  <2>3. ASSUME NEW s \in SUBSET (1 .. k + 1), k + 1 \notin s PROVE f[s] = WatchOf(ss, order, f, s)
    <3>1. s \in SUBSET (1 .. k)
      BY <2>3
    <3>2. f[s] = g[s] /\ g[s] = WatchOf(ss, order, g, s)
      BY <2>1, <2>3, <3>1, Zenon
    <3>3. \A i : s \ {i} \in SUBSET (1 .. k) /\ s \ {i} \in SUBSET (1 .. k + 1) /\ k + 1 \notin s \ {i}
      BY <2>3, <3>1
    <3>4. \A i : f[s \ {i}] = g[s \ {i}]
      BY <3>3, Zenon
    <3> HIDE DEF f
    <3>5. WatchOf(ss, order, f, s) = WatchOf(ss, order, g, s)
      BY <3>4, Zenon DEF WatchOf
    <3> QED
      BY <3>2, <3>5
  <2>4. f = [s \in SUBSET (1 .. k + 1) |-> f[s]]
    OBVIOUS
  <2>5. \A s \in SUBSET (1 .. k + 1) : f[s] = WatchOf(ss, order, f, s)
    BY <2>2, <2>3
  <2> HIDE DEF f
  <2>6. f = [s \in SUBSET (1 .. k + 1) |-> WatchOf(ss, order, f, s)]
    BY <2>4, <2>5, Zenon
  <2> QED
    BY <2>6
<1> HIDE DEF S
<1>3. S = Nat
  <2>1. S \in SUBSET Nat
    BY DEF S
  <2> QED
    BY <1>1, <1>2, <2>1, Induction
<1> QED
  BY <1>3 DEF S

\* What has been seen after k statements, W[k].
LEMMA WatchFold ==
    ASSUME NEW ss, Len(ss) \in Nat, DOMAIN ss = 1 .. Len(ss)
    PROVE  \E W : /\ W[0] = NothingSeen /\ W[Len(ss)] = Watched(ss)
                  /\ \A k \in 0 .. Len(ss) - 1 : W[k + 1] = See(ss, W[k], k + 1)
<1> DEFINE n == Len(ss)
           order == [i \in DOMAIN ss |-> i]
<1>1. PICK g : /\ g = [s \in SUBSET (DOMAIN order) |-> WatchOf(ss, order, g, s)]
               /\ Watched(ss) = g[DOMAIN order]
  <2>1. \E g : g = [s \in SUBSET (DOMAIN order) |-> WatchOf(ss, order, g, s)]
    <3>1. \E g : g = [s \in SUBSET (1 .. n) |-> WatchOf(ss, order, g, s)]
      BY WatchOfExists
    <3>2. DOMAIN order = 1 .. n
      OBVIOUS
    <3> QED
      BY <3>1, <3>2
  <2>2. Watched(ss) = FoldLeft(LAMBDA seen, i : See(ss, seen, i), NothingSeen, order)
    BY Zenon DEF Watched, FoldLeftDomain
  <2> HIDE DEF order
  <2> QED
    BY <2>1, <2>2, Zenon DEF WatchOf, FoldLeft, MapThenFoldSet
<1> DEFINE W == [k \in 0 .. n |-> g[1 .. k]]
<1>2. DOMAIN order = 1 .. n /\ n \in Nat
  OBVIOUS
<1>3. W[0] = NothingSeen
  <2>1. 1 .. 0 = {} /\ 0 \in 0 .. n /\ {} \in SUBSET (DOMAIN order)
    OBVIOUS
  <2>2. W[0] = g[{}]
    BY <2>1
  <2>3. g[{}] = WatchOf(ss, order, g, {})
    BY <1>1, <2>1, Zenon
  <2> QED
    BY <2>2, <2>3, Zenon DEF WatchOf
<1>4. W[n] = Watched(ss)
  <2>1. n \in 0 .. n
    BY <1>2
  <2> QED
    BY <1>1, <1>2, <2>1
<1>5. ASSUME NEW k \in 0 .. n - 1 PROVE W[k + 1] = See(ss, W[k], k + 1)
  <2>1. k \in Nat /\ n \in Nat /\ k + 1 <= n
    OBVIOUS
  <2> HIDE DEF order, n
  <2>2. (1 .. k + 1) \ {k + 1} = 1 .. k
    BY <2>1
  <2>3. k + 1 \in 1 .. k + 1 /\ k \in 0 .. n /\ k + 1 \in 0 .. n /\ k + 1 \in 1 .. n
    BY <2>1
  <2>4. 1 .. k + 1 # {} /\ 1 .. k + 1 \in SUBSET (1 .. n)
    <3>1. 1 .. k + 1 # {}
      BY <2>3, Zenon
    <3>2. 1 .. k + 1 \subseteq 1 .. n
      BY <2>1
    <3> QED
      BY <3>1, <3>2
  <2>5. Max(1 .. k + 1) = k + 1
    BY <2>1, <2>3, LastOf
  <2>6. g[1 .. k + 1] = WatchOf(ss, order, g, 1 .. k + 1)
    BY <1>1, <1>2, <2>4, Zenon
  <2>7. order[k + 1] = k + 1
    BY <2>3 DEF order, n
  <2>8. g[1 .. k + 1] = See(ss, g[1 .. k], k + 1)
    BY <2>2, <2>4, <2>5, <2>6, <2>7, Zenon DEF WatchOf
  <2> QED
    BY <2>3, <2>8, Zenon
<1> HIDE DEF W
<1> QED
  BY <1>3, <1>4, <1>5

LEMMA RestOfRest ==
    ASSUME NEW S, NEW ss \in Seq(S), NEW R, IsRest(ss, R), NEW i \in 1 .. Len(ss)
    PROVE  ScopeCan(SubSeq(ss, i + 1, Len(ss))) = R[i + 1]
<1> DEFINE n == Len(ss)
           tt == SubSeq(ss, i + 1, n)
           m == n - i
<1>1. n \in Nat /\ m \in Nat /\ i \in Nat /\ i <= n
  OBVIOUS
<1>2. tt \in Seq(S) /\ Len(tt) = m /\ \A k \in 1 .. m : tt[k] = ss[i + k]
  <2>1. CASE i + 1 <= n
    <3>1. i + 1 \in 1 .. n /\ n \in i + 1 .. n
      BY <1>1, <2>1
    <3>2. tt \in Seq(S) /\ Len(tt) = n - (i + 1) + 1 /\ \A k \in 1 .. n - (i + 1) + 1 : tt[k] = ss[(i + 1) + k - 1]
      BY <3>1, SubSeqProperties
    <3>3. n - (i + 1) + 1 = m
      BY <1>1
    <3>4. \A k \in 1 .. m : (i + 1) + k - 1 = i + k
      BY <1>1
    <3> QED
      BY <3>2, <3>3, <3>4
  <2>2. CASE ~(i + 1 <= n)
    <3>1. i = n /\ m = 0
      BY <1>1, <2>2
    <3>2. tt = <<>>
      BY <1>1, <2>2
    <3> QED
      BY <3>1, <3>2
  <2> QED
    BY <2>1, <2>2
<1> HIDE DEF tt
<1>3. PICK X, T :
           /\ X[0] = AtFirst /\ X[Len(tt)] = Looked(tt)
           /\ \A k \in 0 .. Len(tt) - 1 : X[k + 1] = AfterStatement(X[k], tt[k + 1])
           /\ T[Len(tt) + 1] = Always("normal") /\ T[1] = ScopeCan(tt)
           /\ \A k \in 1 .. Len(tt) : T[k] = Before(tt[k], T[k + 1])
  <2>1. Len(tt) \in Nat /\ DOMAIN tt = 1 .. Len(tt)
    BY <1>2
  <2> QED
    BY <2>1, ScopeFolds
<1> HIDE DEF m
<1>9. /\ T[m + 1] = Always("normal") /\ T[1] = ScopeCan(tt)
      /\ \A k \in 1 .. m : T[k] = Before(tt[k], T[k + 1])
  BY <1>2, <1>3
<1> USE DEF m
<1> DEFINE P == {j \in Nat : j <= m => T[m + 1 - j] = R[n + 1 - j]}
<1>4. 0 \in P
  <2>1. m + 1 - 0 = m + 1 /\ n + 1 - 0 = n + 1
    BY <1>1
  <2> QED
    BY <1>9, <2>1 DEF IsRest
<1>5. ASSUME NEW j \in P PROVE j + 1 \in P
  <2>1. CASE j + 1 <= m
    <3> DEFINE k == m + 1 - (j + 1)
    <3>1. /\ j \in Nat /\ j <= m /\ k \in 1 .. m /\ k + 1 = m + 1 - j
          /\ n + 1 - (j + 1) = i + k /\ i + k \in 1 .. n /\ (i + k) + 1 = n + 1 - j
      BY <1>1, <2>1
    <3>2. T[k + 1] = R[(i + k) + 1]
      BY <3>1
    <3> HIDE DEF k
    <3>3. T[k] = Before(tt[k], T[k + 1]) /\ R[i + k] = Before(ss[i + k], R[(i + k) + 1]) /\ tt[k] = ss[i + k]
      BY <1>2, <1>9, <3>1 DEF IsRest
    <3>4. T[m + 1 - (j + 1)] = R[n + 1 - (j + 1)]
      BY <3>1, <3>2, <3>3 DEF k
    <3> QED
      BY <3>1, <3>4
  <2>2. CASE ~(j + 1 <= m)
    BY <2>2
  <2> QED
    BY <2>1, <2>2
<1> HIDE DEF P
<1>6. P = Nat
  <2>1. P \in SUBSET Nat
    BY DEF P
  <2> QED
    BY <1>4, <1>5, <2>1, Induction
<1>7. T[m + 1 - m] = R[n + 1 - m]
  <2>1. m \in Nat /\ m <= m
    BY <1>1
  <2> HIDE DEF m, n
  <2> QED
    BY <1>6, <2>1 DEF P
<1>8. m + 1 - m = 1 /\ n + 1 - m = i + 1
  BY <1>1
<1> QED
  BY <1>7, <1>8, <1>9 DEF tt

\* What a statement makes of the outcomes of those below.
LEMMA PlainRest ==
    ASSUME NEW s, StatementInv(s), s.kind = "plain", NEW rest, rest \in Cans, NEW a \in Assignments
    PROVE  /\ OnlyHas(s.exits, {"normal"}) =>
                  /\ Before(s, rest)[a] \subseteq rest[a]
                  /\ ~Has(s.exits, "normal") => Before(s, rest)[a] = {}
           /\ OnlyHas(s.exits, {"normal"}) \/ OnlyHas(s.exits, AllThrowing) =>
                  /\ rest[a] \subseteq AllThrowing => Before(s, rest)[a] \subseteq AllThrowing
                  /\ ~Has(s.exits, "normal") => Before(s, rest)[a] \subseteq AllThrowing
           /\ s.exits.states \cap AllThrowing = {} =>
                  /\ rest[a] \cap AllThrowing = {} => Before(s, rest)[a] \cap AllThrowing = {}
                  /\ ~Has(s.exits, "normal") => Before(s, rest)[a] \cap AllThrowing = {}
<1> DEFINE c == s.can[a]
           q == rest[a]
           states == s.exits.states
<1>1. Before(s, rest)[a] = (c \ {"normal"}) \cup (IF "normal" \in c THEN q ELSE {})
  BY Zenon DEF Before, Then
<1>2. c \subseteq states
  BY PartInvParts DEF StatementInv
<1> HIDE DEF c, q, states
<1>3. /\ states \subseteq {"normal"} =>
            /\ Before(s, rest)[a] \subseteq q
            /\ "normal" \notin states => Before(s, rest)[a] = {}
      /\ states \subseteq {"normal"} \/ states \subseteq AllThrowing =>
            /\ q \subseteq AllThrowing => Before(s, rest)[a] \subseteq AllThrowing
            /\ "normal" \notin states => Before(s, rest)[a] \subseteq AllThrowing
      /\ states \cap AllThrowing = {} =>
            /\ q \cap AllThrowing = {} => Before(s, rest)[a] \cap AllThrowing = {}
            /\ "normal" \notin states => Before(s, rest)[a] \cap AllThrowing = {}
  BY <1>1, <1>2
<1> QED
  BY <1>3, Zenon DEF q, states, OnlyHas, Has

LEMMA OtherRest ==
    ASSUME NEW s, StatementInv(s), s.kind \in {"exit", "failure"}, NEW rest, rest \in Cans, NEW a \in Assignments
    PROVE  Before(s, rest)[a] \subseteq rest[a]
<1>1. s.body.can[a] \subseteq {"normal"}
  BY PartInvParts DEF StatementInv, OnlyHas
<1> QED
  BY <1>1 DEF Before, ThroughScopeExit

LEMMA SuccessRest ==
    ASSUME NEW s, StatementInv(s), s.kind = "success", NEW rest, rest \in Cans, NEW a \in Assignments,
           ~Has(s.body.exits, "normal")
    PROVE  Before(s, rest)[a] \subseteq AllThrowing
<1>1. s.body.can[a] \subseteq AllThrowing
  BY PartInvParts DEF StatementInv, OnlyHas, Has
<1>2. rest[a] \subseteq States /\ "normal" \notin AllThrowing
  BY DEF Cans, AllThrowing
<1>3. Before(s, rest)[a] = {o \in rest[a] : Runs(s, o) => "normal" \in s.body.can[a]}
                           \cup (IF \E o \in rest[a] : Runs(s, o) THEN s.body.can[a] \ {"normal"} ELSE {})
  BY DEF Before, ThroughScopeExit
<1>4. \A o \in rest[a] : Runs(s, o) \/ o \in AllThrowing
  BY <1>2 DEF Runs, NonThrowing
<1> QED
  BY <1>1, <1>2, <1>3, <1>4

LEMMA NotExecuted ==
    ASSUME NEW ss \in Seq(Statements), NEW R, IsRest(ss, R), NEW i \in 1 .. Len(ss)
    PROVE  /\ (\E j \in 1 .. i - 1 : ~Has(ss[j].exits, "normal")) => ~Executed(ss, i)
           /\ ss[i].kind # "plain" /\ (\A a \in Assignments : \A o \in R[i + 1][a] : ~Runs(ss[i], o))
                => ~Executed(ss, i)
<1>1. ASSUME NEW j \in 1 .. i - 1, ~Has(ss[j].exits, "normal") PROVE ~Executed(ss, i)
  <2>1. ss[j] \in Statements
    OBVIOUS
  <2>2. \A a \in Assignments : "normal" \notin ss[j].can[a]
    BY <1>1, <2>1, PartInvParts DEF Statements, StatementInv, Has
  <2>3. \A a \in Assignments : ~Reached(ss, a, i)
    BY <2>2 DEF Reached
  <2> QED
    BY <2>3 DEF Executed
<1>2. ScopeCan(SubSeq(ss, i + 1, Len(ss))) = R[i + 1]
  BY RestOfRest
<1>3. ASSUME ss[i].kind # "plain", \A a \in Assignments : \A o \in R[i + 1][a] : ~Runs(ss[i], o)
      PROVE  ~Executed(ss, i)
  BY <1>2, <1>3, Zenon DEF Executed
<1> QED
  BY <1>1, <1>3

\* Something is known of the statements from i + 1 on, now that k statements were seen: from
\* what comes of those from k + 1 on, or for itself if the end was seen.
ExitInv(R, w, k, i) ==
    \A a \in Assignments : IF w.ended THEN R[i + 1][a] = {} ELSE R[i + 1][a] \subseteq R[k + 1][a]
SuccessInv(R, w, k, i) ==
    \A a \in Assignments : w.ended \/ R[k + 1][a] \subseteq AllThrowing => R[i + 1][a] \subseteq AllThrowing
FailureInv(R, w, k, i) ==
    \A a \in Assignments : w.ended \/ R[k + 1][a] \cap AllThrowing = {} => R[i + 1][a] \cap AllThrowing = {}

\* There is a scope(success) that may throw, and may not, below statement i.
Excepted(ss, i) ==
    \E j \in i + 1 .. Len(ss) : ss[j].kind = "success" /\ "normal" \in ss[j].body.exits.states

WatchInv(ss, R, w, k) ==
    /\ w \in SeenSets
    /\ w.ended => \E j \in 1 .. k : ~Has(ss[j].exits, "normal")
    /\ \A i \in w.exit : i \in 1 .. k /\ ss[i].kind = "exit" /\ ExitInv(R, w, k, i)
    /\ \A i \in w.success : i \in 1 .. k /\ ss[i].kind = "success" /\ SuccessInv(R, w, k, i)
    /\ \A i \in w.failure : i \in 1 .. k /\ ss[i].kind = "failure" /\ (Excepted(ss, i) \/ FailureInv(R, w, k, i))
    /\ \A i \in w.reported : i \in 1 .. k /\ ~Executed(ss, i)

LEMMA LeavingFields ==
    ASSUME NEW w \in SeenSets, NEW s
    PROVE  LET v == LeavingSeen(w, s)
               leaves == s.exits.states \ {"normal"} # {}
           IN  /\ v \in SeenSets
               /\ v.ended = ~Has(s.exits, "normal")
               /\ v.exit = IF leaves THEN {} ELSE w.exit
               /\ v.success = IF leaves /\ ~OnlyHas(s.exits, AllThrowing) THEN {} ELSE w.success
               /\ v.failure = IF s.exits.states \cap AllThrowing # {} THEN {} ELSE w.failure
               /\ v.reported = w.reported
BY DEF LeavingSeen, SeenSets, Has

LEMMA LeavesNothing ==
    ASSUME NEW w \in SeenSets, NEW s, StatementInv(s), s.kind # "plain", ~w.ended
    PROVE  LET v == LeavingSeen(w, s)
           IN  /\ v \in SeenSets
               /\ ~v.ended /\ v.exit = w.exit /\ v.success = w.success /\ v.failure = w.failure
               /\ v.reported = w.reported
<1>1. s.exits.states = {"normal"}
  BY DEF StatementInv, Exits
<1> QED
  BY <1>1, LeavingFields DEF Has, AllThrowing

LEMMA ScopeExitFields ==
    ASSUME NEW w \in SeenSets, NEW s, NEW i \in Nat
    PROVE  LET v == ScopeExitSeen(w, s, i)
               never == ~Has(s.body.exits, "normal")
           IN  /\ s.kind = "exit" =>
                     /\ v \in SeenSets /\ v.ended = w.ended /\ v.exit = {i}
                     /\ v.success = w.success /\ v.failure = w.failure /\ v.reported = w.reported
               /\ s.kind = "failure" =>
                     /\ v \in SeenSets /\ v.ended = w.ended /\ v.exit = {}
                     /\ v.success = w.success /\ v.failure = {i} /\ v.reported = w.reported
               /\ s.kind = "success" =>
                     /\ v \in SeenSets /\ v.ended = w.ended /\ v.exit = {}
                     /\ v.success = {i} /\ v.failure = IF never THEN {} ELSE w.failure
                     /\ v.reported = IF never THEN w.reported \cup w.success ELSE w.reported
<1> DEFINE never == ~Has(s.body.exits, "normal")
<1>1. CASE s.kind = "exit"
  <2>1. ScopeExitSeen(w, s, i) = [w EXCEPT !.exit = {i}]
    BY <1>1 DEF ScopeExitSeen
  <2> QED
    BY <1>1, <2>1 DEF SeenSets
<1>2. CASE s.kind = "failure"
  <2>1. ScopeExitSeen(w, s, i) = [w EXCEPT !.exit = {}, !.failure = {i}]
    BY <1>2 DEF ScopeExitSeen
  <2>2. /\ ScopeExitSeen(w, s, i) \in SeenSets /\ ScopeExitSeen(w, s, i).ended = w.ended
        /\ ScopeExitSeen(w, s, i).exit = {} /\ ScopeExitSeen(w, s, i).success = w.success
        /\ ScopeExitSeen(w, s, i).failure = {i} /\ ScopeExitSeen(w, s, i).reported = w.reported
    BY <2>1 DEF SeenSets
  <2> QED
    BY <1>2, <2>2
<1>3. CASE s.kind = "success"
  <2> DEFINE f == IF never THEN {} ELSE w.failure
             r == IF never THEN w.reported \cup w.success ELSE w.reported
  <2>1. ScopeExitSeen(w, s, i) = [w EXCEPT !.exit = {}, !.success = {i}, !.failure = f, !.reported = r]
    BY <1>3, Zenon DEF ScopeExitSeen
  <2>2. f \in SUBSET Nat /\ r \in SUBSET Nat
    BY DEF SeenSets
  <2> DEFINE u == [w EXCEPT !.exit = {}, !.success = {i}]
  <2>4. /\ u \in SeenSets /\ u.ended = w.ended /\ u.exit = {} /\ u.success = {i}
        /\ u.failure = w.failure /\ u.reported = w.reported
    BY DEF SeenSets
  <2>5. ScopeExitSeen(w, s, i) = [u EXCEPT !.failure = f, !.reported = r]
    BY <2>1, Zenon
  <2> HIDE DEF f, r, never, u
  <2>3. /\ ScopeExitSeen(w, s, i) \in SeenSets /\ ScopeExitSeen(w, s, i).ended = w.ended
        /\ ScopeExitSeen(w, s, i).exit = {} /\ ScopeExitSeen(w, s, i).success = {i}
        /\ ScopeExitSeen(w, s, i).failure = f /\ ScopeExitSeen(w, s, i).reported = r
    BY <2>2, <2>4, <2>5 DEF SeenSets
  <2> QED
    BY <1>3, <2>3 DEF f, r, never
<1> QED
  BY <1>1, <1>2, <1>3

\* The invariant looks at w by its fields only.
LEMMA WatchInvFields ==
    ASSUME NEW ss, NEW R, NEW v, NEW k, v \in SeenSets,
           v.ended => \E j \in 1 .. k : ~Has(ss[j].exits, "normal"),
           \A i \in v.exit : i \in 1 .. k /\ ss[i].kind = "exit" /\ ExitInv(R, v, k, i),
           \A i \in v.success : i \in 1 .. k /\ ss[i].kind = "success" /\ SuccessInv(R, v, k, i),
           \A i \in v.failure : i \in 1 .. k /\ ss[i].kind = "failure" /\ (Excepted(ss, i) \/ FailureInv(R, v, k, i)),
           \A i \in v.reported : i \in 1 .. k /\ ~Executed(ss, i)
    PROVE  WatchInv(ss, R, v, k)
BY Zenon DEF WatchInv

LEMMA WatchStep ==
    ASSUME NEW ss \in Seq(Statements), NEW R, IsRest(ss, R), \A j \in 1 .. Len(ss) + 1 : R[j] \in Cans,
           NEW k \in 0 .. Len(ss) - 1, NEW w, WatchInv(ss, R, w, k)
    PROVE  WatchInv(ss, R, See(ss, w, k + 1), k + 1)
<1> DEFINE s == ss[k + 1]
           v == See(ss, w, k + 1)
           r == R[k + 1]
           q == R[(k + 1) + 1]
<1>1. /\ k \in Nat /\ Len(ss) \in Nat /\ k + 1 \in 1 .. Len(ss) /\ k + 1 \in 1 .. k + 1
      /\ \A j \in 1 .. k : j \in 1 .. k + 1 /\ j \in 1 .. Len(ss) /\ k + 1 \in j + 1 .. Len(ss) /\ j \in 1 .. (k + 1) - 1
  OBVIOUS
<1>2. StatementInv(s) /\ r = Before(s, q) /\ q \in Cans
  <2>1. ss[k + 1] \in Statements /\ (k + 1) + 1 \in 1 .. Len(ss) + 1
    BY <1>1
  <2> QED
    BY <1>1, <2>1 DEF IsRest, Statements
<1>3. /\ w \in SeenSets
      /\ w.ended => \E j \in 1 .. k : ~Has(ss[j].exits, "normal")
      /\ \A i \in w.exit : i \in 1 .. k /\ ss[i].kind = "exit" /\ ExitInv(R, w, k, i)
      /\ \A i \in w.success : i \in 1 .. k /\ ss[i].kind = "success" /\ SuccessInv(R, w, k, i)
      /\ \A i \in w.failure : i \in 1 .. k /\ ss[i].kind = "failure" /\ (Excepted(ss, i) \/ FailureInv(R, w, k, i))
      /\ \A i \in w.reported : i \in 1 .. k /\ ~Executed(ss, i)
  BY Zenon DEF WatchInv
<1>4. CASE w.ended
  <2>1. v = [w EXCEPT !.reported = @ \cup {k + 1}]
    BY <1>4, Zenon DEF See
  <2>2. /\ v \in SeenSets /\ v.ended /\ v.exit = w.exit /\ v.success = w.success /\ v.failure = w.failure
        /\ v.reported = w.reported \cup {k + 1}
    <3>1. k + 1 \in Nat /\ w \in SeenSets
      BY <1>1, <1>3
    <3> HIDE DEF v
    <3> QED
      BY <1>4, <2>1, <3>1 DEF SeenSets
  <2>3. ~Executed(ss, k + 1)
    <3>1. PICK j \in 1 .. k : ~Has(ss[j].exits, "normal")
      BY <1>3, <1>4
    <3>2. j \in 1 .. (k + 1) - 1
      BY <1>1, <3>1
    <3> QED
      BY <1>1, <3>1, <3>2, NotExecuted
  <2>4. /\ \A i : ExitInv(R, w, k, i) => ExitInv(R, v, k + 1, i)
        /\ \A i : SuccessInv(R, w, k, i) => SuccessInv(R, v, k + 1, i)
        /\ \A i : FailureInv(R, w, k, i) => FailureInv(R, v, k + 1, i)
    BY <1>4, <2>2, Zenon DEF ExitInv, SuccessInv, FailureInv
  <2>5. v.ended => \E j \in 1 .. k + 1 : ~Has(ss[j].exits, "normal")
    BY <1>1, <1>3, <1>4
  <2> HIDE DEF v, s, r, q
  <2>6. /\ \A i \in v.exit : i \in 1 .. k + 1 /\ ss[i].kind = "exit" /\ ExitInv(R, v, k + 1, i)
        /\ \A i \in v.success : i \in 1 .. k + 1 /\ ss[i].kind = "success" /\ SuccessInv(R, v, k + 1, i)
        /\ \A i \in v.failure : i \in 1 .. k + 1 /\ ss[i].kind = "failure"
                               /\ (Excepted(ss, i) \/ FailureInv(R, v, k + 1, i))
    BY <1>1, <1>3, <2>2, <2>4, Zenon
  <2>7. \A i \in v.reported : i \in 1 .. k + 1 /\ ~Executed(ss, i)
    BY <1>1, <1>3, <2>2, <2>3
  <2>8. WatchInv(ss, R, v, k + 1)
    BY <2>2, <2>5, <2>6, <2>7, WatchInvFields, Zenon
  <2> QED
    BY <2>8 DEF v
<1>5. CASE ~w.ended /\ s.kind = "plain"
  <2>1. v = LeavingSeen(w, s)
    BY <1>5, Zenon DEF See
  <2>2. /\ v \in SeenSets
        /\ v.ended = ~Has(s.exits, "normal")
        /\ \A i \in v.exit : i \in w.exit /\ OnlyHas(s.exits, {"normal"})
        /\ \A i \in v.success : i \in w.success /\ (OnlyHas(s.exits, {"normal"}) \/ OnlyHas(s.exits, AllThrowing))
        /\ \A i \in v.failure : i \in w.failure /\ s.exits.states \cap AllThrowing = {}
        /\ v.reported = w.reported
    <3>1. w \in SeenSets
      BY <1>3
    <3> HIDE DEF v
    <3>2. /\ v \in SeenSets
          /\ v.ended = ~Has(s.exits, "normal")
          /\ v.exit = IF s.exits.states \ {"normal"} # {} THEN {} ELSE w.exit
          /\ v.success = IF s.exits.states \ {"normal"} # {} /\ ~OnlyHas(s.exits, AllThrowing) THEN {} ELSE w.success
          /\ v.failure = IF s.exits.states \cap AllThrowing # {} THEN {} ELSE w.failure
          /\ v.reported = w.reported
      BY <2>1, <3>1, LeavingFields, Zenon
    <3> HIDE DEF s
    <3> QED
      BY <3>2 DEF OnlyHas
  <2>3. ASSUME NEW a \in Assignments
        PROVE  /\ OnlyHas(s.exits, {"normal"}) =>
                      /\ r[a] \subseteq q[a]
                      /\ ~Has(s.exits, "normal") => r[a] = {}
               /\ OnlyHas(s.exits, {"normal"}) \/ OnlyHas(s.exits, AllThrowing) =>
                      /\ q[a] \subseteq AllThrowing => r[a] \subseteq AllThrowing
                      /\ ~Has(s.exits, "normal") => r[a] \subseteq AllThrowing
               /\ s.exits.states \cap AllThrowing = {} =>
                      /\ q[a] \cap AllThrowing = {} => r[a] \cap AllThrowing = {}
                      /\ ~Has(s.exits, "normal") => r[a] \cap AllThrowing = {}
    <3> HIDE DEF s, r, q, v
    <3> QED
      BY <1>2, <1>5, PlainRest
  <2>4. v.ended => \E j \in 1 .. k + 1 : ~Has(ss[j].exits, "normal")
    BY <1>1, <2>2
  <2> HIDE DEF v
  <2>5. ASSUME NEW i \in v.exit
        PROVE  i \in 1 .. k + 1 /\ ss[i].kind = "exit" /\ ExitInv(R, v, k + 1, i)
    <3>1. i \in w.exit /\ OnlyHas(s.exits, {"normal"})
      BY <2>2, <2>5
    <3>2. i \in 1 .. k + 1 /\ ss[i].kind = "exit" /\ \A a \in Assignments : R[i + 1][a] \subseteq r[a]
      BY <1>1, <1>3, <1>5, <3>1 DEF ExitInv
    <3>3. \A a \in Assignments : IF v.ended THEN R[i + 1][a] = {} ELSE R[i + 1][a] \subseteq q[a]
      <4> HIDE DEF s, r, q
      <4> QED
        BY <2>2, <2>3, <3>1, <3>2
    <3> QED
      BY <3>2, <3>3 DEF ExitInv
  <2>6. ASSUME NEW i \in v.success
        PROVE  i \in 1 .. k + 1 /\ ss[i].kind = "success" /\ SuccessInv(R, v, k + 1, i)
    <3>1. i \in w.success /\ (OnlyHas(s.exits, {"normal"}) \/ OnlyHas(s.exits, AllThrowing))
      BY <2>2, <2>6
    <3>2. /\ i \in 1 .. k + 1 /\ ss[i].kind = "success"
          /\ \A a \in Assignments : r[a] \subseteq AllThrowing => R[i + 1][a] \subseteq AllThrowing
      BY <1>1, <1>3, <1>5, <3>1 DEF SuccessInv
    <3>3. \A a \in Assignments : v.ended \/ q[a] \subseteq AllThrowing => R[i + 1][a] \subseteq AllThrowing
      <4> HIDE DEF s, r, q
      <4> QED
        BY <2>2, <2>3, <3>1, <3>2, Zenon
    <3> QED
      BY <3>2, <3>3 DEF SuccessInv
  <2>7. ASSUME NEW i \in v.failure
        PROVE  i \in 1 .. k + 1 /\ ss[i].kind = "failure" /\ (Excepted(ss, i) \/ FailureInv(R, v, k + 1, i))
    <3>1. i \in w.failure /\ s.exits.states \cap AllThrowing = {}
      BY <2>2, <2>7
    <3>2. /\ i \in 1 .. k + 1 /\ ss[i].kind = "failure"
          /\ Excepted(ss, i) \/ \A a \in Assignments : r[a] \cap AllThrowing = {} => R[i + 1][a] \cap AllThrowing = {}
      BY <1>1, <1>3, <1>5, <3>1 DEF FailureInv
    <3>3. Excepted(ss, i) \/ \A a \in Assignments : v.ended \/ q[a] \cap AllThrowing = {} => R[i + 1][a] \cap AllThrowing = {}
      <4> HIDE DEF s, r, q
      <4> QED
        BY <2>2, <2>3, <3>1, <3>2, Zenon
    <3> QED
      BY <3>2, <3>3 DEF FailureInv
  <2>8. \A i \in v.reported : i \in 1 .. k + 1 /\ ~Executed(ss, i)
    BY <1>1, <1>3, <2>2
  <2>9. WatchInv(ss, R, v, k + 1)
    BY <2>2, <2>4, <2>5, <2>6, <2>7, <2>8, WatchInvFields, Zenon
  <2> QED
    BY <2>9 DEF v
<1>6. CASE ~w.ended /\ s.kind # "plain"
  <2> DEFINE u == ScopeExitSeen(w, s, k + 1)
             never == ~Has(s.body.exits, "normal")
  <2>1. v = LeavingSeen(u, s)
    BY <1>6, Zenon DEF See
  <2>2. s.kind = "exit" \/ s.kind = "success" \/ s.kind = "failure"
    <3> HIDE DEF s
    <3> QED
      BY <1>2, <1>6 DEF StatementInv, StatementKinds
  <2>3. /\ s.kind = "exit" =>
              /\ u \in SeenSets /\ u.ended = w.ended /\ u.exit = {k + 1}
              /\ u.success = w.success /\ u.failure = w.failure /\ u.reported = w.reported
        /\ s.kind = "failure" =>
              /\ u \in SeenSets /\ u.ended = w.ended /\ u.exit = {}
              /\ u.success = w.success /\ u.failure = {k + 1} /\ u.reported = w.reported
        /\ s.kind = "success" =>
              /\ u \in SeenSets /\ u.ended = w.ended /\ u.exit = {}
              /\ u.success = {k + 1} /\ u.failure = (IF never THEN {} ELSE w.failure)
              /\ u.reported = IF never THEN w.reported \cup w.success ELSE w.reported
    <3>1. k + 1 \in Nat /\ w \in SeenSets
      BY <1>1, <1>3
    <3> HIDE DEF s
    <3> QED
      BY <3>1, ScopeExitFields, Zenon
  <2> HIDE DEF u
  <2>4. /\ v \in SeenSets /\ ~v.ended /\ v.exit = u.exit /\ v.success = u.success /\ v.failure = u.failure
        /\ v.reported = u.reported
    <3>1. u \in SeenSets /\ ~u.ended
      BY <1>6, <2>2, <2>3, Zenon
    <3> HIDE DEF s, v
    <3> QED
      BY <1>2, <1>6, <2>1, <3>1, LeavesNothing, Zenon
  <2> HIDE DEF v, never
  \* What is known of a scope exit above stays known, as s lets go on no more than comes of the rest.
  <2>5. ASSUME s.kind # "success", NEW a \in Assignments PROVE r[a] \subseteq q[a]
    <3>1. s.kind \in {"exit", "failure"}
      BY <2>2, <2>5
    <3> HIDE DEF s, r, q
    <3> QED
      BY <1>2, <3>1, OtherRest
  <2>6. ASSUME s.kind # "success", NEW i \in w.success
        PROVE  i \in 1 .. k + 1 /\ ss[i].kind = "success" /\ SuccessInv(R, v, k + 1, i)
    <3>1. /\ i \in 1 .. k + 1 /\ ss[i].kind = "success"
          /\ \A a \in Assignments : r[a] \subseteq AllThrowing => R[i + 1][a] \subseteq AllThrowing
      BY <1>1, <1>3, <1>6, <2>6 DEF SuccessInv
    <3>2. \A a \in Assignments : q[a] \subseteq AllThrowing => R[i + 1][a] \subseteq AllThrowing
      <4> HIDE DEF s, r, q
      <4> QED
        BY <2>5, <2>6, <3>1
    <3> QED
      BY <2>4, <3>1, <3>2 DEF SuccessInv
  <2>7. ASSUME s.kind # "success", NEW i \in w.failure
        PROVE  i \in 1 .. k + 1 /\ ss[i].kind = "failure" /\ (Excepted(ss, i) \/ FailureInv(R, v, k + 1, i))
    <3>1. /\ i \in 1 .. k + 1 /\ ss[i].kind = "failure"
          /\ Excepted(ss, i) \/ \A a \in Assignments : r[a] \cap AllThrowing = {} => R[i + 1][a] \cap AllThrowing = {}
      BY <1>1, <1>3, <1>6, <2>7 DEF FailureInv
    <3>2. Excepted(ss, i) \/ \A a \in Assignments : q[a] \cap AllThrowing = {} => R[i + 1][a] \cap AllThrowing = {}
      <4> HIDE DEF s, r, q
      <4> QED
        BY <2>5, <2>7, <3>1
    <3> QED
      BY <2>4, <3>1, <3>2 DEF FailureInv
  \* Of s itself nothing has been missed yet.
  <2>8. /\ ExitInv(R, v, k + 1, k + 1) /\ SuccessInv(R, v, k + 1, k + 1) /\ FailureInv(R, v, k + 1, k + 1)
    BY <2>4 DEF ExitInv, SuccessInv, FailureInv
  <2>9. \A i \in v.exit : i \in 1 .. k + 1 /\ ss[i].kind = "exit" /\ ExitInv(R, v, k + 1, i)
    <3>1. \A i \in v.exit : i = k + 1 /\ s.kind = "exit"
      BY <2>2, <2>3, <2>4
    <3> QED
      BY <1>1, <2>8, <3>1
  <2>10. \A i \in v.success : i \in 1 .. k + 1 /\ ss[i].kind = "success" /\ SuccessInv(R, v, k + 1, i)
    <3>1. \A i \in v.success : (i \in w.success /\ s.kind # "success") \/ (i = k + 1 /\ s.kind = "success")
      BY <2>2, <2>3, <2>4
    <3> QED
      BY <1>1, <2>6, <2>8, <3>1
  <2>11. \A i \in v.failure : i \in 1 .. k + 1 /\ ss[i].kind = "failure"
                              /\ (Excepted(ss, i) \/ FailureInv(R, v, k + 1, i))
    <3>1. \A i \in v.failure : \/ i \in w.failure /\ s.kind # "success"
                               \/ i = k + 1 /\ s.kind = "failure"
                               \/ i \in w.failure /\ s.kind = "success" /\ ~never
      BY <2>2, <2>3, <2>4
    <3>2. ASSUME NEW i \in w.failure, s.kind = "success", ~never
          PROVE  i \in 1 .. k + 1 /\ ss[i].kind = "failure" /\ Excepted(ss, i)
      <4>1. i \in 1 .. k /\ ss[i].kind = "failure"
        BY <1>3
      <4>2. i \in 1 .. k + 1 /\ k + 1 \in i + 1 .. Len(ss)
        BY <1>1, <4>1
      <4> QED
        BY <3>2, <4>1, <4>2 DEF Excepted, never, Has
    <3> QED
      BY <1>1, <2>7, <2>8, <3>1, <3>2
  <2>12. \A i \in v.reported : i \in 1 .. k + 1 /\ ~Executed(ss, i)
    <3>1. \A i \in v.reported : i \in w.reported \/ (i \in w.success /\ s.kind = "success" /\ never)
      BY <2>2, <2>3, <2>4
    <3>2. ASSUME NEW i \in w.success, s.kind = "success", never PROVE i \in 1 .. k /\ ~Executed(ss, i)
      <4>1. i \in 1 .. k /\ ss[i].kind = "success"
        BY <1>3
      <4>2. \A a \in Assignments : r[a] \subseteq AllThrowing => R[i + 1][a] \subseteq AllThrowing
        BY <1>3 DEF SuccessInv
      <4>3. \A a \in Assignments : r[a] \subseteq AllThrowing
        <5> HIDE DEF s, r, q
        <5> QED
          BY <1>2, <3>2, SuccessRest DEF never
      <4>4. \A a \in Assignments : \A o \in R[i + 1][a] : ~Runs(ss[i], o)
        BY <4>1, <4>2, <4>3 DEF Runs, NonThrowing
      <4>5. i \in 1 .. Len(ss) /\ ss[i].kind # "plain"
        BY <1>1, <4>1
      <4> QED
        BY <4>1, <4>4, <4>5, NotExecuted
    <3> QED
      BY <1>1, <1>3, <3>1, <3>2
  <2>13. v.ended => \E j \in 1 .. k + 1 : ~Has(ss[j].exits, "normal")
    BY <2>4
  <2>14. WatchInv(ss, R, v, k + 1)
    BY <2>4, <2>9, <2>10, <2>11, <2>12, <2>13, WatchInvFields, Zenon
  <2> QED
    BY <2>14 DEF v
<1> QED
  BY <1>4, <1>5, <1>6

\* What is reported is never executed, but for one exception.
LEMMA ReportedTrue ==
    ASSUME NEW ss \in Seq(Statements)
    PROVE  \A i \in Reported(ss) :
               ~Executed(ss, i) \/ (ss[i].kind = "failure" /\ Excepted(ss, i))
<1> DEFINE n == Len(ss)
<1>1. n \in Nat /\ DOMAIN ss = 1 .. n /\ \A i \in 1 .. n : StatementInv(ss[i])
  BY DEF Statements
<1>2. PICK R : IsRest(ss, R)
  <2>1. \E X, R :
           /\ X[0] = AtFirst /\ X[n] = Looked(ss)
           /\ \A k \in 0 .. n - 1 : X[k + 1] = AfterStatement(X[k], ss[k + 1])
           /\ R[n + 1] = Always("normal") /\ R[1] = ScopeCan(ss)
           /\ \A k \in 1 .. n : R[k] = Before(ss[k], R[k + 1])
    BY <1>1, ScopeFolds
  <2> QED
    BY <2>1 DEF IsRest
<1>3. \A j \in 1 .. n + 1 : R[j] \in Cans
  BY <1>1, <1>2, RestCans
<1>4. PICK W : /\ W[0] = NothingSeen /\ W[n] = Watched(ss)
               /\ \A k \in 0 .. n - 1 : W[k + 1] = See(ss, W[k], k + 1)
  BY <1>1, WatchFold
<1>5. WatchInv(ss, R, W[0], 0)
  <2>1. /\ NothingSeen \in SeenSets /\ ~NothingSeen.ended /\ NothingSeen.exit = {} /\ NothingSeen.success = {}
        /\ NothingSeen.failure = {} /\ NothingSeen.reported = {}
    BY DEF NothingSeen, SeenSets
  <2> QED
    BY <1>4, <2>1 DEF WatchInv
<1>6. ASSUME NEW k \in 0 .. n - 1, WatchInv(ss, R, W[k], k) PROVE WatchInv(ss, R, W[k + 1], k + 1)
  BY <1>2, <1>3, <1>4, <1>6, WatchStep
<1> DEFINE S == {k \in Nat : k <= n => WatchInv(ss, R, W[k], k)}
<1>7. S = Nat
  <2>1. 0 \in S
    BY <1>5
  <2> HIDE DEF n
  <2>2. ASSUME NEW k \in S PROVE k + 1 \in S
    <3>1. k + 1 <= n => k \in 0 .. n - 1 /\ k <= n
      BY <1>1
    <3> QED
      BY <1>6, <3>1
  <2>3. S \in SUBSET Nat
    OBVIOUS
  <2> HIDE DEF S
  <2> QED
    BY <2>1, <2>2, <2>3, Induction
<1> DEFINE w == Watched(ss)
<1>8. WatchInv(ss, R, w, n)
  <2>1. n <= n
    BY <1>1
  <2>2. WatchInv(ss, R, W[n], n)
    BY <1>1, <1>7, <2>1
  <2> QED
    BY <1>4, <2>2
<1>9. Reported(ss) = w.reported \cup w.failure \cup (IF w.ended THEN w.exit \cup w.success ELSE {})
  BY Zenon DEF Reported, Watched
<1> HIDE DEF S, w
\* At its end a scope is left normally: nothing is thrown there.
<1>10. \A a \in Assignments : R[n + 1][a] = {"normal"} /\ R[n + 1][a] \cap AllThrowing = {}
  BY <1>2 DEF IsRest, Always, AllThrowing
<1>11. ASSUME NEW i \in w.failure PROVE ~Executed(ss, i) \/ (ss[i].kind = "failure" /\ Excepted(ss, i))
  <2>1. i \in 1 .. n /\ ss[i].kind = "failure" /\ (Excepted(ss, i) \/ FailureInv(R, w, n, i))
    BY <1>8 DEF WatchInv
  <2>2. ASSUME FailureInv(R, w, n, i) PROVE ~Executed(ss, i)
    <3>1. \A a \in Assignments : R[i + 1][a] \cap AllThrowing = {}
      BY <1>10, <2>2 DEF FailureInv
    <3>2. \A a \in Assignments : \A o \in R[i + 1][a] : ~Runs(ss[i], o)
      BY <2>1, <3>1 DEF Runs
    <3> QED
      BY <1>2, <2>1, <3>2, NotExecuted
  <2> QED
    BY <2>1, <2>2
<1>12. ASSUME w.ended, NEW i \in w.exit PROVE ~Executed(ss, i)
  <2>1. i \in 1 .. n /\ ss[i].kind = "exit" /\ ExitInv(R, w, n, i)
    BY <1>8 DEF WatchInv
  <2>2. \A a \in Assignments : \A o \in R[i + 1][a] : ~Runs(ss[i], o)
    BY <1>12, <2>1 DEF ExitInv
  <2> QED
    BY <1>2, <2>1, <2>2, NotExecuted
<1>13. ASSUME w.ended, NEW i \in w.success PROVE ~Executed(ss, i)
  <2>1. i \in 1 .. n /\ ss[i].kind = "success" /\ SuccessInv(R, w, n, i)
    BY <1>8 DEF WatchInv
  <2>2. \A a \in Assignments : \A o \in R[i + 1][a] : ~Runs(ss[i], o)
    BY <1>13, <2>1 DEF SuccessInv, Runs, NonThrowing
  <2> QED
    BY <1>2, <2>1, <2>2, NotExecuted
<1>14. \A i \in w.reported : ~Executed(ss, i)
  BY <1>8 DEF WatchInv
<1> QED
  BY <1>9, <1>11, <1>12, <1>13, <1>14

-----------------------------------------------------------------------------
\* The invariant: each statement and each part allows for what it can do.
TreeInv ==
    /\ scope \in Seq(Statements) /\ parts \in Seq(Parts)
    /\ built \in 0 .. MaxBuilt

LEMMA PartIsPart ==
    ASSUME NEW ss \in Seq(Statements)
    PROVE  /\ Part(ss) \in Parts
           /\ (\A i \in DOMAIN ss : StatementExact(ss[i])) => Exact(Part(ss))
<1>1. Len(ss) \in Nat /\ DOMAIN ss = 1 .. Len(ss) /\ \A i \in DOMAIN ss : StatementInv(ss[i])
  BY DEF Statements
<1>2. /\ WellFormed(ScopeExitStates(ss)) /\ ScopeCan(ss) \in Cans
      /\ \A a \in Assignments :
            /\ ScopeCan(ss)[a] \subseteq Possible(ScopeExitStates(ss), a)
            /\ (\A i \in DOMAIN ss : StatementExact(ss[i]))
                  => ScopeCan(ss)[a] = Possible(ScopeExitStates(ss), a)
  BY <1>1, ScopeOutcomes
<1>3. Part(ss).exits = ScopeExitStates(ss) /\ Part(ss).can = ScopeCan(ss) /\ Part(ss) \in PartRecords
  BY <1>2 DEF Part, PartRecords, WellFormed
<1>4. Part(ss) \in Parts
  BY <1>2, <1>3 DEF Parts, PartInv
<1>5. ASSUME \A i \in DOMAIN ss : StatementExact(ss[i]) PROVE Exact(Part(ss))
  BY <1>2, <1>3, <1>5 DEF Exact, Possible
<1> QED
  BY <1>4, <1>5

LEMMA BuildInv ==
    ASSUME TreeInv, NEW k \in 0 .. Len(parts), NEW s \in Statements, Build(k, s)
    PROVE  TreeInv'
<1>1. scope' = Append(scope, s) /\ parts' = SubSeq(parts, 1, Len(parts) - k) /\ built' = built + 1 /\ built < MaxBuilt
  BY DEF Build
<1>2. scope \in Seq(Statements) /\ parts \in Seq(Parts) /\ built \in 0 .. MaxBuilt /\ MaxBuilt \in Nat
  BY ExitStatesAssumption DEF TreeInv
<1>3. scope' \in Seq(Statements)
  BY <1>1, <1>2
<1>4. parts' \in Seq(Parts)
  <2>1. Len(parts) \in Nat /\ Len(parts) - k \in 0 .. Len(parts)
    BY <1>2
  <2> QED
    BY <1>1, <1>2, <2>1, SubSeqProperties
<1>5. built' \in 0 .. MaxBuilt
  BY <1>1, <1>2
<1> QED
  BY <1>3, <1>4, <1>5 DEF TreeInv

LEMMA TreeInitInvariant == Init => TreeInv
BY ExitStatesAssumption DEF Init, TreeInv

LEMMA TreeStepInvariant == TreeInv /\ [Next]_vars => TreeInv'
<1> SUFFICES ASSUME TreeInv, [Next]_vars PROVE TreeInv'
  OBVIOUS
<1>0. Len(parts) \in Nat /\ \A i \in 1 .. Len(parts) : parts[i] \in Parts /\ PartInv(parts[i])
  BY DEF TreeInv, Parts
<1>1. CASE BuildLeaf
  <2>1. 0 \in 0 .. Len(parts)
    BY <1>0
  <2>2. CASE \E v \in Values : Build(0, ValueStmt(v)) \/ Build(0, Return(v))
    BY <2>1, <2>2, BuildInv, ValueStmtInv, ReturnInv
  <2>3. CASE \E v, w \in Values : Build(0, Assign(v, w))
    BY <2>1, <2>3, BuildInv, AssignInv
  <2>4. CASE \E state \in {"rethrow", "break", "continue"} : Build(0, Leave(state))
    <3>1. {"rethrow", "break", "continue"} \subseteq States \ {"throw"}
      BY DEF States
    <3> QED
      BY <2>1, <2>4, <3>1, BuildInv, LeaveInv
  <2>5. CASE Build(0, Throw)
    BY <2>1, <2>5, BuildInv, ThrowInv
  <2>6. CASE Build(0, Unreachable)
    BY <2>1, <2>6, BuildInv, UnreachableInv
  <2> QED
    BY <1>1, <2>2, <2>3, <2>4, <2>5, <2>6 DEF BuildLeaf
<1>2. ASSUME Len(parts) >= 1 PROVE 1 \in 0 .. Len(parts) /\ Last1 \in Parts /\ PartInv(Last1)
  BY <1>0, <1>2 DEF Last1
<1>3. CASE BuildOfOne
  <2>1. 1 \in 0 .. Len(parts) /\ PartInv(Last1)
    BY <1>2, <1>3 DEF BuildOfOne
  <2>2. CASE Build(1, ScopeStmt(Last1))
    BY <2>1, <2>2, BuildInv, ScopeStmtInv
  <2>3. CASE Build(1, AssertNoExcept(Last1))
    BY <2>1, <2>3, BuildInv, AssertNoExceptInv
  <2>4. CASE \E v, w \in Values : Build(1, Loop(v, Last1, w))
    BY <2>1, <2>4, BuildInv, LoopInv
  <2> QED
    BY <1>3, <2>2, <2>3, <2>4 DEF BuildOfOne
<1>4. CASE BuildScopeExit
  <2>1. 1 \in 0 .. Len(parts) /\ Last1 \in Parts
    BY <1>2, <1>4 DEF BuildScopeExit
  <2>2. PICK kind \in {"exit", "success", "failure"} :
            /\ OnlyHas(Last1.exits, {"normal"} \cup (IF kind = "success" THEN AllThrowing ELSE {}))
            /\ Build(1, ScopeExit(kind, Last1))
    BY <1>4 DEF BuildScopeExit
  <2>3. ScopeExit(kind, Last1) \in Statements
    BY <2>1, <2>2, ScopeExitInv
  <2> QED
    BY <2>1, <2>2, <2>3, BuildInv
<1>5. CASE BuildOfTwo
  <2>1. 2 \in 0 .. Len(parts) /\ PartInv(Last1) /\ PartInv(Last2)
    BY <1>0, <1>5 DEF BuildOfTwo, Last1, Last2
  <2>2. CASE \E v \in Values : Build(2, If(v, Last2, Last1)) \/ Build(2, Switch(v, Last2, Last1))
    BY <2>1, <2>2, BuildInv, IfInv, SwitchInv
  <2>3. CASE Build(2, Try(Last2, Last1))
    BY <2>1, <2>3, BuildInv, TryInv
  <2> QED
    BY <1>5, <2>2, <2>3 DEF BuildOfTwo
<1>6. CASE EndScope
  <2>1. scope' = <<>> /\ parts' = Append(parts, Part(scope)) /\ built' = built
    BY <1>6 DEF EndScope
  <2>2. Part(scope) \in Parts
    BY PartIsPart DEF TreeInv
  <2>3. parts' \in Seq(Parts)
    BY <2>1, <2>2 DEF TreeInv
  <2> QED
    BY <2>1, <2>3 DEF TreeInv
<1>7. CASE UNCHANGED vars
  BY <1>7 DEF TreeInv, vars
<1> QED
  BY <1>1, <1>3, <1>4, <1>5, <1>6, <1>7 DEF Next

\* The invariant is enough.
LEMMA TreeInvariantSuffices == TreeInv => TypeOK /\ ExitsCoverOutcomes /\ ScopeIsExact /\ ReportsTrue
<1> SUFFICES ASSUME TreeInv PROVE TypeOK /\ ExitsCoverOutcomes /\ ScopeIsExact /\ ReportsTrue
  OBVIOUS
<1>1. scope \in Seq(Statements) /\ \A i \in DOMAIN scope : scope[i] \in Statements /\ StatementInv(scope[i])
  BY DEF TreeInv, Statements
<1>2. TypeOK
  BY <1>1 DEF TreeInv, TypeOK, Outcomes, Statements, PlainRecords, ExitRecords, ExitSets, Cans
<1>3. Part(scope) \in Parts /\ ((\A i \in DOMAIN scope : StatementExact(scope[i])) => Exact(Part(scope)))
  BY <1>1, PartIsPart
<1>4. ExitsCoverOutcomes
  <2>1. Part(scope).exits = ScopeExitStates(scope) /\ Part(scope).can = ScopeCan(scope) /\ PartInv(Part(scope))
    BY <1>3 DEF Part, Parts
  <2>2. "throw" \notin ScopeExitStates(scope).states => ScopeExitStates(scope).noexcept = Assignments
    BY <2>1 DEF PartInv, WellFormed
  <2>3. \A a \in Assignments : ScopeCan(scope)[a] \subseteq Possible(ScopeExitStates(scope), a)
    BY <2>1 DEF PartInv
  <2> QED
    BY <2>2, <2>3 DEF ExitsCoverOutcomes, Possible
<1>5. ScopeIsExact
  <2>1. ScopeIsExact <=> ((\A i \in DOMAIN scope : StatementExact(scope[i])) => Exact(Part(scope)))
    BY Zenon DEF ScopeIsExact, StatementExact
  <2> QED
    BY <1>3, <2>1
<1>6. ReportsTrue
  BY <1>1, ReportedTrue, Zenon DEF ReportsTrue, Excepted
<1> QED
  BY <1>2, <1>4, <1>5, <1>6

\* Each statement that is built has exit states and outcomes (AST::Statement).
THEOREM TreeTypeCorrect == Spec => []TypeOK
BY TreeInitInvariant, TreeStepInvariant, TreeInvariantSuffices, PTL DEF Spec

-----------------------------------------------------------------------------
(***************************************************************************)
(* SatisfyChecker, and StaticChecks.                                       *)
(***************************************************************************)
Pairs == Types \X Types
Paths == Seq(Pairs) \ {<<>>}

\* What has been asked on a path.
Asked(path) == {path[i] : i \in 1 .. Len(path)}

\* Every pair fits, and asks for pairs that are there or assumed.
Supports(pairs, assumed) ==
    \A p \in pairs : TypeFits(p[1], p[2]) /\ Questions(p[1], p[2]) \subseteq pairs \cup assumed

\* The largest such set.
Largest(assumed) == UNION {pairs \in SUBSET Pairs : Supports(pairs, assumed)}

\* What a reference was is related to what it is; one to a class keeps its class,
\* and is const if the object is.
RefInv(ref) ==
    IF IsInterface(ref.type) THEN <<ref.was, ref.type>> \in Largest({}) ELSE TypeIsTrue(ref)

Refs == [type : Types, was : ClassTypes]

CastInv ==
    /\ program \in Programs \cup {<<>>}
    /\ program = <<>> => satisfied = {} /\ refs = <<>>
    /\ satisfied \subseteq Largest({})
    /\ refs \in Seq(Refs)
    /\ \A i \in DOMAIN refs : RefInv(refs[i])

-----------------------------------------------------------------------------
\* The parts of a declaration, and the type that it stands for.
LEMMA Declarations ==
    ASSUME program \in Programs, NEW n \in TypeNames, NEW m \in DOMAIN program[n]
    PROVE  /\ program[n][m].const \in BOOLEAN /\ program[n][m].noexcept \in BOOLEAN
           /\ program[n][m].params \in Seq(Declared)
           /\ program[n][m].ret \in Declared \cup {Void}
<1>1. program[n][m] \in MethodSetElements
  BY SatisfyCheckerAssumption
<1> QED
  BY <1>1 DEF MethodSetElements

LEMMA SubstituteType ==
    ASSUME NEW t \in Declared, NEW c \in BOOLEAN
    PROVE  Substitute(t, c) \in Types /\ ~IsVoid(Substitute(t, c))
BY SatisfyCheckerAssumption DEF Declared, Types, Substitute, IsVoid

LEMMA TypeParts ==
    ASSUME NEW t \in Types
    PROVE  t.name \in TypeNames /\ t.const \in BOOLEAN /\ ~IsVoid(t)
BY SatisfyCheckerAssumption DEF Types, IsVoid

\* The casts of a method that fits are between types, or return nothing.
LEMMA CastTypes ==
    ASSUME program \in Programs, NEW c \in Types, NEW r \in Types, IsInterface(r),
           TypeFits(c, r), NEW m \in DOMAIN program[r.name], Required(r, m)
    PROVE  /\ m \in DOMAIN program[c.name]
           /\ MethodFits(c.const, program[c.name][m], program[r.name][m])
           /\ \A cast \in MethodCasts(c, r, m) : MayBeNoop(cast)
           /\ \A cast \in MethodCasts(c, r, m) : ~IsVoid(cast[1]) => cast \in Pairs
           /\ \A i \in DOMAIN program[r.name][m].params :
                 /\ ParamCast(c, r, m, i) \in MethodCasts(c, r, m)
                 /\ ParamCast(c, r, m, i) \in Pairs
                 /\ ~IsVoid(ParamCast(c, r, m, i)[1])
<1> DEFINE C == program[c.name][m]
           D == program[r.name][m]
<1>1. /\ m \in DOMAIN program[c.name] /\ MethodFits(c.const, C, D)
      /\ \A cast \in MethodCasts(c, r, m) : MayBeNoop(cast)
  BY DEF TypeFits, MethodsFit
<1>2. c.name \in TypeNames /\ c.const \in BOOLEAN /\ r.name \in TypeNames /\ r.const \in BOOLEAN
  BY TypeParts
<1>3. C.params \in Seq(Declared) /\ C.ret \in Declared \cup {Void}
  BY <1>1, <1>2, Declarations
<1>4. D.params \in Seq(Declared) /\ D.ret \in Declared \cup {Void}
  BY <1>2, Declarations
<1>5. DOMAIN C.params = DOMAIN D.params
  BY <1>1, <1>3, <1>4 DEF MethodFits
<1>6. ASSUME NEW i \in DOMAIN D.params
      PROVE  /\ ParamCast(c, r, m, i) \in MethodCasts(c, r, m)
             /\ ParamCast(c, r, m, i) \in Pairs /\ ~IsVoid(ParamCast(c, r, m, i)[1])
  <2>1. C.params[i] \in Declared /\ D.params[i] \in Declared
    BY <1>3, <1>4, <1>5, <1>6
  <2>2. Substitute(D.params[i], r.const) \in Types /\ ~IsVoid(Substitute(D.params[i], r.const))
    BY <1>2, <2>1, SubstituteType
  <2>3. Substitute(C.params[i], c.const) \in Types
    BY <1>2, <2>1, SubstituteType
  <2> QED
    BY <1>5, <2>2, <2>3 DEF ParamCast, MethodCasts, Pairs
<1>7. ASSUME ~IsVoid(ReturnCast(c, r, m)[1]) PROVE ReturnCast(c, r, m) \in Pairs
  <2>1. MayBeNoop(ReturnCast(c, r, m))
    BY <1>1 DEF MethodCasts
  <2>2. ~IsVoid(Substitute(C.ret, c.const)) /\ ~IsVoid(Substitute(D.ret, r.const))
    BY <1>7, <2>1 DEF MayBeNoop, ReturnCast
  <2>3. C.ret \in Declared /\ D.ret \in Declared
    BY <1>3, <1>4, <2>2 DEF IsVoid, Substitute, Void
  <2> QED
    BY <1>2, <2>3, SubstituteType DEF ReturnCast, Pairs
<1>8. \A cast \in MethodCasts(c, r, m) : ~IsVoid(cast[1]) => cast \in Pairs
  BY <1>5, <1>6, <1>7 DEF MethodCasts
<1> QED
  BY <1>1, <1>6, <1>8

\* What is asked is asked of types.
LEMMA QuestionTypes ==
    ASSUME program \in Programs, NEW c \in Types, NEW r \in Types, TypeFits(c, r)
    PROVE  Questions(c, r) \subseteq Pairs
BY CastTypes DEF Questions

-----------------------------------------------------------------------------
\* The answer to the last question of a path, given those to longer paths.
Answer(a, path) ==
    LET stack   == Front(path)
        check   == Last(path)[1]
        require == Last(path)[2]
    IN  \/ InProgress(stack, check, require)
        \/ /\ Len(stack) <= MaxDepth
           /\ TypeFits(check, require)
           /\ \A q \in Questions(check, require) : a[Append(path, q)]

LEMMA PathParts ==
    ASSUME NEW path \in Paths
    PROVE  /\ Len(path) \in Nat \ {0} /\ Len(Front(path)) = Len(path) - 1
           /\ Front(path) \in Seq(Pairs) /\ Last(path) \in Pairs
           /\ \A i \in 1 .. Len(path) - 1 : Front(path)[i] = path[i]
           /\ Last(path)[1] \in Types /\ Last(path)[2] \in Types
           /\ Last(path) = <<Last(path)[1], Last(path)[2]>>
           /\ \A q \in Pairs : Append(path, q) \in Paths /\ Len(Append(path, q)) = Len(path) + 1
<1>1. Len(path) \in Nat \ {0} /\ path \in Seq(Pairs)
  BY DEF Paths
<1>2. /\ Front(path) \in Seq(Pairs) /\ Len(Front(path)) = Len(path) - 1
      /\ \A i \in 1 .. Len(path) - 1 : Front(path)[i] = path[i]
  <2> DEFINE n == Len(path) - 1
  <2>1. n \in Int /\ n >= 0 /\ \A i \in 1 .. n : path[i] \in Pairs
    BY <1>1
  <2>2. /\ SubSeq(path, 1, n) \in Seq(Pairs) /\ Len(SubSeq(path, 1, n)) = n
        /\ \A i \in 1 .. n : SubSeq(path, 1, n)[i] = path[i]
    <3> HIDE DEF n
    <3>1. /\ SubSeq(path, 1, n) \in Seq(Pairs)
          /\ Len(SubSeq(path, 1, n)) = IF 1 <= n THEN n - 1 + 1 ELSE 0
          /\ \A i \in 1 .. n - 1 + 1 : SubSeq(path, 1, n)[i] = path[1 + i - 1]
      BY <2>1, SubSeqProperties
    <3>2. \A i \in 1 .. n : i \in 1 .. n - 1 + 1 /\ 1 + i - 1 = i
      BY <2>1
    <3>3. (IF 1 <= n THEN n - 1 + 1 ELSE 0) = n
      BY <2>1
    <3> QED
      BY <3>1, <3>2, <3>3
  <2> QED
    BY <2>2 DEF Front
<1>3. Last(path) \in Pairs
  BY <1>1 DEF Last
<1>4. \A q \in Pairs : Append(path, q) \in Paths /\ Len(Append(path, q)) = Len(path) + 1
  BY <1>1 DEF Paths
<1> QED
  BY <1>1, <1>2, <1>3, <1>4 DEF Pairs

\* The answer depends on the answers to paths that are one longer.
LEMMA AnswerDepends ==
    ASSUME program \in Programs, NEW a, NEW b, NEW path \in Paths,
           \A q \in Pairs : a[Append(path, q)] = b[Append(path, q)]
    PROVE  Answer(a, path) = Answer(b, path)
<1> DEFINE c == Last(path)[1]
           r == Last(path)[2]
           All(f) == \A q \in Questions(c, r) : f[Append(path, q)]
<1>1. c \in Types /\ r \in Types
  BY PathParts
<1>2. TypeFits(c, r) => Questions(c, r) \subseteq Pairs
  BY <1>1, QuestionTypes
<1>3. TypeFits(c, r) => (All(a) <=> All(b))
  BY <1>2
<1>4. \A f : Answer(f, path) = \/ InProgress(Front(path), c, r)
                               \/ Len(Front(path)) <= MaxDepth /\ TypeFits(c, r) /\ All(f)
  BY DEF Answer
<1> HIDE DEF All, c, r
<1> QED
  BY <1>3, <1>4

\* Paths are not longer than MaxDepth allows, so that there are answers.
LEMMA AnswersExist ==
    ASSUME program \in Programs
    PROVE  \E a : a = [path \in Paths |-> Answer(a, path)]
<1> DEFINE Right(a, n) ==
               /\ a = [path \in Paths |-> a[path]]
               /\ \A path \in Paths : Len(path) + n > MaxDepth + 1 => a[path] = Answer(a, path)
           S == {n \in Nat : \E a : Right(a, n)}
<1>0. MaxDepth \in Nat
  BY SatisfyCheckerAssumption
<1>1. 0 \in S
  <2> DEFINE a == [path \in Paths |-> Answer(<<>>, path)]
  <2>1. ASSUME NEW path \in Paths, Len(path) > MaxDepth + 1 PROVE a[path] = Answer(a, path)
    <3>1. ~(Len(Front(path)) <= MaxDepth)
      BY <1>0, <2>1, PathParts
    <3>2. Answer(<<>>, path) = Answer(a, path)
      <4> HIDE DEF a
      <4> QED
        BY <3>1, Zenon DEF Answer
    <3> QED
      BY <3>2
  <2>2. Right(a, 0)
    <3>0. a = [path \in Paths |-> a[path]]
      OBVIOUS
    <3> HIDE DEF a
    <3>1. \A path \in Paths : Len(path) + 0 = Len(path)
      BY PathParts
    <3> QED
      BY <2>1, <3>0, <3>1
  <2> QED
    BY <2>2
<1>2. ASSUME NEW n \in S PROVE n + 1 \in S
  <2>1. PICK a : Right(a, n)
    OBVIOUS
  <2> DEFINE b == [path \in Paths |-> IF Len(path) + n > MaxDepth + 1 THEN a[path] ELSE Answer(a, path)]
  <2>2. ASSUME NEW path \in Paths, Len(path) + (n + 1) > MaxDepth + 1 PROVE b[path] = Answer(b, path)
    <3>1. \A q \in Pairs : Append(path, q) \in Paths /\ Len(Append(path, q)) + n > MaxDepth + 1
      BY <1>0, <2>2, PathParts
    <3>2. \A q \in Pairs : b[Append(path, q)] = a[Append(path, q)]
      BY <3>1
    <3>3. Answer(b, path) = Answer(a, path)
      <4> HIDE DEF b
      <4> QED
        BY <3>2, AnswerDepends
    <3>4. b[path] = Answer(a, path)
      BY <2>1
    <3> QED
      BY <3>3, <3>4
  <2>3. Right(b, n + 1)
    <3>1. b = [path \in Paths |-> b[path]]
      OBVIOUS
    <3> HIDE DEF b
    <3> QED
      BY <2>2, <3>1
  <2> HIDE DEF b, Right
  <2> QED
    BY <2>3
<1>3. S = Nat
  <2> HIDE DEF S
  <2>1. S \subseteq Nat
    BY DEF S
  <2> QED
    BY <1>1, <1>2, <2>1, Induction
<1>4. MaxDepth + 1 \in S
  <2> HIDE DEF S
  <2> QED
    BY <1>0, <1>3
<1>5. PICK a : Right(a, MaxDepth + 1)
  <2> HIDE DEF Right
  <2> QED
    BY <1>4
<1>6. \A path \in Paths : Len(path) + (MaxDepth + 1) > MaxDepth + 1
  BY <1>0, PathParts
<1>7. a = [path \in Paths |-> Answer(a, path)]
  <2>1. \A path \in Paths : a[path] = Answer(a, path)
    BY <1>5, <1>6
  <2> QED
    BY <1>5, <2>1, Zenon
<1> QED
  BY <1>7

LEMMA AnswersDefined ==
    ASSUME program \in Programs
    PROVE  \A path \in Paths : SatisfiesWithin[path] = Answer(SatisfiesWithin, path)
<1>1. SatisfiesWithin = [path \in Paths |-> Answer(SatisfiesWithin, path)]
  BY AnswersExist, Zenon DEF SatisfiesWithin, Answer, Paths, Pairs
<1> QED
  BY <1>1, Zenon

-----------------------------------------------------------------------------
\* A union of sets that support themselves does.
LEMMA LargestIsSupported ==
    ASSUME NEW assumed
    PROVE  Largest(assumed) \subseteq Pairs /\ Supports(Largest(assumed), assumed)
<1>1. Largest(assumed) \subseteq Pairs
  BY DEF Largest
<1>2. ASSUME NEW p \in Largest(assumed)
      PROVE  TypeFits(p[1], p[2]) /\ Questions(p[1], p[2]) \subseteq Largest(assumed) \cup assumed
  <2>1. PICK pairs \in SUBSET Pairs : Supports(pairs, assumed) /\ p \in pairs
    BY DEF Largest
  <2>2. pairs \subseteq Largest(assumed)
    BY <2>1 DEF Largest
  <2> QED
    BY <2>1, <2>2 DEF Supports
<1> QED
  BY <1>1, <1>2 DEF Supports

LEMMA LargestIsLargest ==
    ASSUME NEW assumed, NEW pairs \in SUBSET Pairs, Supports(pairs, assumed)
    PROVE  pairs \subseteq Largest(assumed)
BY DEF Largest

\* What has been asked before the last question, and that question.
LEMMA AskedParts ==
    ASSUME NEW path \in Paths
    PROVE  Asked(path) = Asked(Front(path)) \cup {Last(path)}
<1> DEFINE n == Len(path)
<1>1. n \in Nat \ {0} /\ Len(Front(path)) = n - 1 /\ \A i \in 1 .. n - 1 : Front(path)[i] = path[i]
  BY PathParts
<1>2. 1 .. n = (1 .. n - 1) \cup {n}
  BY <1>1
<1>3. Asked(path) = {path[i] : i \in 1 .. n - 1} \cup {path[n]}
  BY <1>2 DEF Asked
<1>4. Asked(Front(path)) = {path[i] : i \in 1 .. n - 1}
  <2> HIDE DEF n
  <2> QED
    BY <1>1 DEF Asked
<1> QED
  BY <1>3, <1>4 DEF Last

\* A yes that was assumed of a question in progress does no harm.
LEMMA AnswersAreSupported ==
    ASSUME program \in Programs
    PROVE  \A path \in Paths : SatisfiesWithin[path]
               => Last(path) \in Largest(Asked(Front(path))) \cup Asked(Front(path))
<1> DEFINE Right(path) == SatisfiesWithin[path]
               => Last(path) \in Largest(Asked(Front(path))) \cup Asked(Front(path))
           S == {n \in Nat : \A path \in Paths : Len(path) + n > MaxDepth + 1 => Right(path)}
<1>0. MaxDepth \in Nat
  BY SatisfyCheckerAssumption
<1>1. ASSUME NEW path \in Paths, SatisfiesWithin[path]
      PROVE  \/ Last(path) \in Asked(Front(path))
             \/ /\ Len(path) <= MaxDepth + 1
                /\ TypeFits(Last(path)[1], Last(path)[2])
                /\ \A q \in Questions(Last(path)[1], Last(path)[2]) : SatisfiesWithin[Append(path, q)]
  <2> DEFINE c == Last(path)[1]
             r == Last(path)[2]
  <2>1. Answer(SatisfiesWithin, path)
    BY <1>1, AnswersDefined
  <2>2. CASE InProgress(Front(path), c, r)
    <3>1. Last(path) = <<c, r>>
      BY PathParts
    <3> QED
      BY <2>2, <3>1 DEF InProgress, Contains, Asked
  <2>3. CASE /\ Len(Front(path)) <= MaxDepth /\ TypeFits(c, r)
             /\ \A q \in Questions(c, r) : SatisfiesWithin[Append(path, q)]
    <3>1. Len(path) <= MaxDepth + 1
      BY <1>0, <2>3, PathParts
    <3> QED
      BY <2>3, <3>1
  <2> QED
    BY <2>1, <2>2, <2>3 DEF Answer
<1>2. 0 \in S
  <2>1. ASSUME NEW path \in Paths, Len(path) + 0 > MaxDepth + 1, SatisfiesWithin[path]
        PROVE  Last(path) \in Asked(Front(path))
    <3>1. ~(Len(path) <= MaxDepth + 1)
      BY <1>0, <2>1, PathParts
    <3> QED
      BY <1>1, <2>1, <3>1
  <2> QED
    BY <2>1
<1>3. ASSUME NEW n \in S PROVE n + 1 \in S
  <2>1. SUFFICES ASSUME NEW path \in Paths, Len(path) + (n + 1) > MaxDepth + 1, SatisfiesWithin[path],
                        Last(path) \notin Asked(Front(path))
                 PROVE  Last(path) \in Largest(Asked(Front(path)))
    OBVIOUS
  <2> DEFINE c == Last(path)[1]
             r == Last(path)[2]
             before == Asked(Front(path))
             found == Largest(Asked(path)) \cup {Last(path)}
  <2>2. TypeFits(c, r) /\ \A q \in Questions(c, r) : SatisfiesWithin[Append(path, q)]
    BY <1>1, <2>1
  <2>3. Questions(c, r) \subseteq Pairs
    BY <2>2, PathParts, QuestionTypes
  <2>4. Asked(path) = before \cup {Last(path)}
    BY AskedParts
  <2>5. ASSUME NEW q \in Questions(c, r) PROVE q \in Largest(Asked(path)) \cup Asked(path)
    <3>1. Append(path, q) \in Paths /\ Len(Append(path, q)) = Len(path) + 1 /\ SatisfiesWithin[Append(path, q)]
      BY <2>2, <2>3, PathParts
    <3>2. Len(Append(path, q)) + n > MaxDepth + 1
      BY <1>0, <2>1, <3>1, PathParts
    <3>3. Right(Append(path, q))
      BY <3>1, <3>2
    <3>4. path \in Seq(Pairs) /\ q \in Pairs
      BY <2>3 DEF Paths
    <3>5. Front(Append(path, q)) = path /\ Last(Append(path, q)) = q
      BY <3>4 DEF Front, Last
    <3> QED
      BY <3>1, <3>3, <3>5
  <2>6. found \subseteq Pairs
    BY LargestIsSupported, PathParts
  <2>7. Supports(found, before)
    <3>1. ASSUME NEW p \in found
          PROVE  TypeFits(p[1], p[2]) /\ Questions(p[1], p[2]) \subseteq found \cup before
      <4>1. CASE p = Last(path)
        BY <2>2, <2>4, <2>5, <4>1
      <4>2. CASE p \in Largest(Asked(path))
        <5>1. TypeFits(p[1], p[2]) /\ Questions(p[1], p[2]) \subseteq Largest(Asked(path)) \cup Asked(path)
          BY <4>2, LargestIsSupported DEF Supports
        <5> QED
          BY <2>4, <5>1
      <4> QED
        BY <4>1, <4>2
    <3> HIDE DEF found, before
    <3> QED
      BY <3>1 DEF Supports
  <2>8. found \subseteq Largest(before)
    <3> HIDE DEF found, before
    <3> QED
      BY <2>6, <2>7, LargestIsLargest
  <2> QED
    BY <2>8
<1>4. S = Nat
  <2> HIDE DEF S
  <2>1. S \subseteq Nat
    BY DEF S
  <2> QED
    BY <1>2, <1>3, <2>1, Induction
<1>5. MaxDepth + 1 \in S
  <2> HIDE DEF S
  <2> QED
    BY <1>0, <1>4
<1>6. \A path \in Paths : Len(path) + (MaxDepth + 1) > MaxDepth + 1
  BY <1>0, PathParts
<1>7. \A path \in Paths : Right(path)
  <2> HIDE DEF Right
  <2> QED
    BY <1>5, <1>6
<1> QED
  BY <1>7

\* The answers lie within the largest relation that needs no assumption.
LEMMA AnswersAreSound ==
    ASSUME program \in Programs
    PROVE  Answers \subseteq Largest({})
<1>1. ASSUME NEW path \in Paths, Len(path) = 1, SatisfiesWithin[path]
      PROVE  Last(path) \in Largest({})
  <2>1. Len(Front(path)) = 0
    <3>1. Len(Front(path)) = Len(path) - 1
      BY PathParts
    <3> QED
      BY <1>1, <3>1
  <2>2. Asked(Front(path)) = {}
    BY <2>1 DEF Asked
  <2> QED
    BY <1>1, <2>2, AnswersAreSupported
<1>2. ASSUME NEW p \in Pairs PROVE <<p>> \in Paths /\ Len(<<p>>) = 1 /\ Last(<<p>>) = p
  BY DEF Paths, Last
<1>3. \A p \in Pairs : SatisfiesWithin[<<p>>] => p \in Largest({})
  BY <1>1, <1>2
<1> QED
  BY <1>3 DEF Answers, Pairs

-----------------------------------------------------------------------------
\* A type fits itself from one to the next: what a cast in two steps is allowed
\* to do is allowed in one, if no class is cast on to an interface.
LEMMA FitsTwice ==
    ASSUME program \in Programs,
           NEW a \in Types, NEW b \in Types, NEW c \in Types, IsInterface(b), IsInterface(c),
           TypeFits(a, b), TypeFits(b, c)
    PROVE  /\ TypeFits(a, c)
           /\ \A m \in DOMAIN program[c.name] :
                 Required(c, m) => m \in DOMAIN program[b.name] /\ Required(b, m)
<1>1. ASSUME NEW m \in DOMAIN program[c.name]
      PROVE  m \in DOMAIN program[b.name] /\ m \in DOMAIN program[a.name]
  BY <1>1 DEF TypeFits, MethodsFit
<1>2. ASSUME NEW m \in DOMAIN program[c.name], Required(c, m)
      PROVE  /\ Required(b, m)
             /\ MethodFits(a.const, program[a.name][m], program[c.name][m])
             /\ \A cast \in MethodCasts(a, c, m) : MayBeNoop(cast)
  <2>1. /\ MethodFits(b.const, program[b.name][m], program[c.name][m])
        /\ \A cast \in MethodCasts(b, c, m) : MayBeNoop(cast)
    BY <1>2 DEF TypeFits, MethodsFit
  <2>2. Required(b, m)
    BY <2>1 DEF MethodFits, Required
  <2>3. /\ MethodFits(a.const, program[a.name][m], program[b.name][m])
        /\ \A cast \in MethodCasts(a, b, m) : MayBeNoop(cast)
    BY <1>1, <2>2 DEF TypeFits, MethodsFit
  <2>4. MethodFits(a.const, program[a.name][m], program[c.name][m])
    BY <2>1, <2>3 DEF MethodFits
  <2>5. MayBeNoop(ReturnCast(a, c, m))
    <3>1. MayBeNoop(ReturnCast(a, b, m)) /\ MayBeNoop(ReturnCast(b, c, m))
      BY <2>1, <2>3 DEF MethodCasts
    <3> QED
      BY <3>1 DEF MayBeNoop, ReturnCast
  <2>6. ASSUME NEW i \in DOMAIN program[a.name][m].params PROVE MayBeNoop(ParamCast(a, c, m, i))
    <3>1. i \in DOMAIN program[b.name][m].params
      <4>1. program[a.name][m].params \in Seq(Declared) /\ program[b.name][m].params \in Seq(Declared)
        BY <1>1, <1>2, TypeParts, Declarations
      <4> QED
        BY <2>3, <2>6, <4>1 DEF MethodFits
    <3>2. MayBeNoop(ParamCast(a, b, m, i)) /\ MayBeNoop(ParamCast(b, c, m, i))
      BY <2>1, <2>3, <3>1 DEF MethodCasts
    <3> QED
      BY <3>2 DEF MayBeNoop, ParamCast
  <2> QED
    BY <2>2, <2>4, <2>5, <2>6 DEF MethodCasts
<1>3. MethodsFit(a, c)
  BY <1>1, <1>2 DEF MethodsFit
<1> QED
  BY <1>1, <1>2, <1>3 DEF TypeFits

\* What the two steps ask for are two steps of what the one asks for.
LEMMA QuestionsTwice ==
    ASSUME program \in Programs,
           NEW a \in Types, NEW b \in Types, NEW c \in Types, IsInterface(b), IsInterface(c),
           TypeFits(a, b), TypeFits(b, c), NEW q \in Questions(a, c)
    PROVE  \E mid \in Types :
              /\ IsInterface(mid) \/ ~IsInterface(q[2])
              /\ \/ <<q[1], mid>> \in Questions(a, b) /\ <<mid, q[2]>> \in Questions(b, c)
                 \/ <<q[1], mid>> \in Questions(b, c) /\ <<mid, q[2]>> \in Questions(a, b)
<1>1. PICK m \in DOMAIN program[c.name] : Required(c, m) /\ q \in MethodCasts(a, c, m) /\ ~IsVoid(q[1])
  BY DEF Questions
<1>2. m \in DOMAIN program[b.name] /\ Required(b, m)
  BY <1>1, FitsTwice
<1>3. \A cast \in MethodCasts(a, b, m) :
        MayBeNoop(cast) /\ (~IsVoid(cast[1]) => cast \in Pairs /\ cast \in Questions(a, b))
  BY <1>2, CastTypes DEF Questions
<1>4. \A cast \in MethodCasts(b, c, m) :
        MayBeNoop(cast) /\ (~IsVoid(cast[1]) => cast \in Pairs /\ cast \in Questions(b, c))
  BY <1>1, CastTypes DEF Questions
<1>5. CASE q = ReturnCast(a, c, m)
  <2> DEFINE mid == Substitute(program[b.name][m].ret, b.const)
  <2>1. <<q[1], mid>> = ReturnCast(a, b, m) /\ <<mid, q[2]>> = ReturnCast(b, c, m)
    BY <1>5 DEF ReturnCast
  <2>2. <<q[1], mid>> \in MethodCasts(a, b, m) /\ <<mid, q[2]>> \in MethodCasts(b, c, m)
    BY <2>1 DEF MethodCasts
  <2> HIDE DEF mid
  <2>3. PICK u \in MethodCasts(a, b, m), v \in MethodCasts(b, c, m) : u = <<q[1], mid>> /\ v = <<mid, q[2]>>
    BY <2>2
  <2>4. ~IsVoid(mid) /\ (IsInterface(q[2]) => IsInterface(mid))
    <3>1. MayBeNoop(u) /\ MayBeNoop(v)
      BY <1>3, <1>4, <2>3
    <3> QED
      BY <1>1, <2>3, <3>1 DEF MayBeNoop
  <2>5. u \in Questions(a, b) /\ u \in Pairs /\ v \in Questions(b, c)
    <3>1. ~IsVoid(u[1]) /\ ~IsVoid(v[1])
      BY <1>1, <2>3, <2>4
    <3> QED
      BY <1>3, <1>4, <2>3, <3>1
  <2> QED
    BY <2>3, <2>4, <2>5 DEF Pairs
<1>6. ASSUME NEW i \in DOMAIN program[a.name][m].params, q = ParamCast(a, c, m, i)
      PROVE  \E mid \in Types :
                /\ IsInterface(mid) \/ ~IsInterface(q[2])
                /\ <<q[1], mid>> \in Questions(b, c) /\ <<mid, q[2]>> \in Questions(a, b)
  <2> DEFINE mid == Substitute(program[b.name][m].params[i], b.const)
  <2>0. i \in DOMAIN program[b.name][m].params
    <3>1. m \in DOMAIN program[a.name] /\ MethodFits(a.const, program[a.name][m], program[b.name][m])
      BY <1>2, CastTypes
    <3>2. program[a.name][m].params \in Seq(Declared) /\ program[b.name][m].params \in Seq(Declared)
      BY <1>2, <3>1, TypeParts, Declarations
    <3> QED
      BY <1>6, <3>1, <3>2 DEF MethodFits
  <2>1. <<q[1], mid>> = ParamCast(b, c, m, i) /\ <<mid, q[2]>> = ParamCast(a, b, m, i)
    BY <1>6 DEF ParamCast
  <2>2. <<q[1], mid>> \in MethodCasts(b, c, m) /\ <<mid, q[2]>> \in MethodCasts(a, b, m)
    BY <2>0, <2>1 DEF MethodCasts
  <2> HIDE DEF mid
  <2>3. PICK u \in MethodCasts(b, c, m), v \in MethodCasts(a, b, m) : u = <<q[1], mid>> /\ v = <<mid, q[2]>>
    BY <2>2
  <2>4. ~IsVoid(mid) /\ (IsInterface(q[2]) => IsInterface(mid))
    <3>1. MayBeNoop(u) /\ MayBeNoop(v)
      BY <1>3, <1>4, <2>3
    <3> QED
      BY <1>1, <2>3, <3>1 DEF MayBeNoop
  <2>5. u \in Questions(b, c) /\ u \in Pairs /\ v \in Questions(a, b)
    <3>1. ~IsVoid(u[1]) /\ ~IsVoid(v[1])
      BY <1>1, <2>3, <2>4
    <3> QED
      BY <1>3, <1>4, <2>3, <3>1
  <2> QED
    BY <2>3, <2>4, <2>5 DEF Pairs
<1> QED
  BY <1>1, <1>5, <1>6 DEF MethodCasts

-----------------------------------------------------------------------------
\* So pairs of the largest relation compose.
LEMMA LargestComposes ==
    ASSUME program \in Programs, NEW a, NEW b, NEW c,
           <<a, b>> \in Largest({}), <<b, c>> \in Largest({}), IsInterface(b) \/ ~IsInterface(c)
    PROVE  <<a, c>> \in Largest({})
<1> DEFINE Step(x, y, z) == /\ <<x, y>> \in Largest({}) /\ <<y, z>> \in Largest({})
                            /\ IsInterface(y) \/ ~IsInterface(z)
           twice == {p \in Pairs : \E y \in Types : Step(p[1], y, p[2])}
           both == Largest({}) \cup twice
<1>1. Largest({}) \subseteq Pairs
  BY LargestIsSupported
<1>2. ASSUME NEW p \in Largest({})
      PROVE  TypeFits(p[1], p[2]) /\ Questions(p[1], p[2]) \subseteq Largest({})
  BY LargestIsSupported DEF Supports
<1>3. ASSUME NEW p \in twice PROVE TypeFits(p[1], p[2]) /\ Questions(p[1], p[2]) \subseteq both
  <2>1. PICK x \in Types, z \in Types : p = <<x, z>>
    BY DEF Pairs
  <2>2. PICK y \in Types : Step(x, y, z)
    BY <2>1
  <2>3. TypeFits(x, y) /\ Questions(x, y) \subseteq Largest({})
    BY <1>2, <2>2
  <2>4. TypeFits(y, z) /\ Questions(y, z) \subseteq Largest({})
    BY <1>2, <2>2
  <2>5. CASE IsInterface(z)
    <3>1. IsInterface(y)
      BY <2>2, <2>5
    <3>2. TypeFits(x, z)
      BY <2>3, <2>4, <2>5, <3>1, FitsTwice
    <3>3. ASSUME NEW q \in Questions(x, z) PROVE q \in twice
      <4>1. q \in Pairs
        BY <3>2, QuestionTypes
      <4>2. PICK mid \in Types :
              /\ IsInterface(mid) \/ ~IsInterface(q[2])
              /\ \/ <<q[1], mid>> \in Questions(x, y) /\ <<mid, q[2]>> \in Questions(y, z)
                 \/ <<q[1], mid>> \in Questions(y, z) /\ <<mid, q[2]>> \in Questions(x, y)
        BY <2>3, <2>4, <2>5, <3>1, QuestionsTwice
      <4>3. Step(q[1], mid, q[2])
        BY <2>3, <2>4, <4>2
      <4> HIDE DEF Step
      <4> QED
        BY <4>1, <4>3
    <3> QED
      BY <2>1, <3>2, <3>3
  <2>6. CASE ~IsInterface(z)
    <3>1. TypeFits(x, z)
      BY <2>3, <2>4, <2>6, SatisfyCheckerAssumption DEF TypeFits, IsInterface
    <3>2. Questions(x, z) = {}
      BY <2>6 DEF Questions
    <3> QED
      BY <2>1, <3>1, <3>2
  <2> QED
    BY <2>5, <2>6
<1>4. both \subseteq Pairs
  BY <1>1
<1>5. Supports(both, {})
  <2>1. ASSUME NEW p \in both PROVE TypeFits(p[1], p[2]) /\ Questions(p[1], p[2]) \subseteq both \cup {}
    BY <1>2, <1>3
  <2> HIDE DEF both
  <2> QED
    BY <2>1 DEF Supports
<1>6. both \subseteq Largest({})
  <2> HIDE DEF both
  <2> QED
    BY <1>4, <1>5, LargestIsLargest
<1>7. <<a, c>> \in twice
  <2>1. a \in Types /\ b \in Types /\ c \in Types
    BY <1>1 DEF Pairs
  <2> QED
    BY <2>1 DEF Pairs
<1> QED
  BY <1>6, <1>7

\* What a pair of the largest relation says, if the second is an interface or not.
LEMMA LargestMeans ==
    ASSUME program \in Programs, NEW a, NEW b, <<a, b>> \in Largest({})
    PROVE  /\ a \in Types /\ b \in Types /\ TypeFits(a, b)
           /\ ~IsInterface(b) => ~IsInterface(a) /\ a.name = b.name /\ (a.const => b.const)
<1>1. a \in Types /\ b \in Types /\ TypeFits(a, b)
  BY LargestIsSupported DEF Supports, Pairs
<1> QED
  BY <1>1 DEF TypeFits, IsInterface

\* A cast that needs no code, of what a method takes or returns.
LEMMA LargestCasts ==
    ASSUME program \in Programs, NEW a, NEW b, <<a, b>> \in Largest({}), IsInterface(b),
           NEW m \in DOMAIN program[b.name], Required(b, m)
    PROVE  /\ m \in DOMAIN program[a.name]
           /\ MethodFits(a.const, program[a.name][m], program[b.name][m])
           /\ \A cast \in MethodCasts(a, b, m) : MayBeNoop(cast)
           /\ \A cast \in MethodCasts(a, b, m) : ~IsVoid(cast[1]) => cast \in Largest({})
           /\ \A i \in DOMAIN program[b.name][m].params :
                 ParamCast(a, b, m, i) \in MethodCasts(a, b, m) /\ ParamCast(a, b, m, i) \in Largest({})
<1>1. a \in Types /\ b \in Types /\ TypeFits(a, b)
  BY LargestMeans
<1>2. Questions(a, b) \subseteq Largest({})
  BY LargestIsSupported DEF Supports
<1>3. \A cast \in MethodCasts(a, b, m) : ~IsVoid(cast[1]) => cast \in Questions(a, b)
  BY DEF Questions
<1>4. /\ m \in DOMAIN program[a.name]
      /\ MethodFits(a.const, program[a.name][m], program[b.name][m])
      /\ \A cast \in MethodCasts(a, b, m) : MayBeNoop(cast)
      /\ \A i \in DOMAIN program[b.name][m].params :
            ParamCast(a, b, m, i) \in MethodCasts(a, b, m) /\ ~IsVoid(ParamCast(a, b, m, i)[1])
  BY <1>1, CastTypes
<1> QED
  BY <1>2, <1>3, <1>4

-----------------------------------------------------------------------------
\* A reference that is cast is related to what it was still.
LEMMA RetypedRef ==
    ASSUME program \in Programs, NEW ref \in Refs, RefInv(ref), NEW t,
           t = ref.type \/ <<ref.type, t>> \in Largest({})
    PROVE  Retyped(ref, t) \in Refs /\ RefInv(Retyped(ref, t))
<1> DEFINE new == Retyped(ref, t)
<1>1. new.type = t /\ new.was = AsClass(ref) /\ new = [type |-> t, was |-> AsClass(ref)]
  BY DEF Retyped
<1>2. t \in Types
  BY LargestMeans DEF Refs
<1>3. AsClass(ref) \in ClassTypes /\ AsClass(ref) \in Types
  BY DEF Refs, AsClass, ClassTypes
<1>4. new \in Refs
  BY <1>1, <1>2, <1>3 DEF Refs
<1>5. CASE IsInterface(t) /\ IsInterface(ref.type)
  <2>1. <<ref.was, ref.type>> \in Largest({})
    BY <1>5 DEF RefInv
  <2>2. <<ref.was, t>> \in Largest({})
    BY <1>5, <2>1, LargestComposes
  <2> QED
    BY <1>1, <1>4, <1>5, <2>2 DEF RefInv, AsClass
<1>6. CASE IsInterface(t) /\ ~IsInterface(ref.type)
  BY <1>1, <1>4, <1>6 DEF RefInv, AsClass
<1>7. CASE ~IsInterface(t)
  <2>1. /\ ~IsInterface(ref.type) /\ ref.type.name = t.name
        /\ ref.type.const => t.const
    BY <1>7, LargestMeans
  <2> QED
    BY <1>1, <1>4, <1>7, <2>1 DEF RefInv, AsClass, TypeIsTrue
<1> QED
  BY <1>5, <1>6, <1>7

\* A call arrives at a method that fits the one that is called, and the types of
\* the one are casts of those of the other.
LEMMA CallArrives ==
    ASSUME program \in Programs, NEW ref \in Refs, RefInv(ref), NEW m, Callable(ref.type, m)
    PROVE  LET type     == ref.type
               was      == AsClass(ref)
               declared == program[type.name][m]
               called   == Callee(ref, m)
               P(k) == Substitute(declared.params[k], type.const)
               Q(k) == Substitute(called.params[k], was.const)
               X == Substitute(called.ret, was.const)
               Y == Substitute(declared.ret, type.const)
           IN  /\ m \in DOMAIN program[was.name]
               /\ was.const => called.const
               /\ declared.noexcept => called.noexcept
               /\ Len(declared.params) = Len(called.params)
               /\ \A k \in DOMAIN declared.params : Q(k) = P(k) \/ <<P(k), Q(k)>> \in Largest({})
               /\ X \in Types => X = Y \/ (MayBeNoop(<<X, Y>>) /\ <<X, Y>> \in Largest({}))
<1> DEFINE type     == ref.type
           was      == AsClass(ref)
           declared == program[type.name][m]
           called   == Callee(ref, m)
<1>1. m \in DOMAIN program[type.name] /\ (type.const => declared.const)
  BY DEF Callable
<1>2. CASE ~IsInterface(type)
  <2>1. AsClass(ref) = ref.type
    BY <1>2 DEF AsClass
  <2>2. Callee(ref, m) = program[ref.type.name][m]
    BY <2>1 DEF Callee
  <2> QED
    BY <1>1, <2>1, <2>2, Zenon
<1>3. CASE IsInterface(type)
  <2>1. was = ref.was /\ <<was, type>> \in Largest({}) /\ called = program[was.name][m]
    BY <1>3 DEF AsClass, RefInv, Callee
  <2>2. Required(type, m)
    BY <1>1 DEF Required
  <2>3. /\ m \in DOMAIN program[was.name]
        /\ MethodFits(was.const, called, declared)
        /\ \A cast \in MethodCasts(was, type, m) : MayBeNoop(cast)
        /\ \A cast \in MethodCasts(was, type, m) : ~IsVoid(cast[1]) => cast \in Largest({})
        /\ \A i \in DOMAIN declared.params : ParamCast(was, type, m, i) \in Largest({})
    <3> HIDE DEF was
    <3> QED
      BY <1>1, <1>3, <2>1, <2>2, LargestCasts
  <2>4. /\ was.const => called.const
        /\ declared.noexcept => called.noexcept
        /\ Len(declared.params) = Len(called.params)
    BY <2>3 DEF MethodFits
  <2>5. ASSUME NEW k \in DOMAIN declared.params
        PROVE  <<Substitute(declared.params[k], type.const), Substitute(called.params[k], was.const)>>
                   \in Largest({})
    BY <2>1, <2>3 DEF ParamCast
  <2> DEFINE X == Substitute(called.ret, was.const)
             Y == Substitute(declared.ret, type.const)
  <2>6. ASSUME X \in Types PROVE MayBeNoop(<<X, Y>>) /\ <<X, Y>> \in Largest({})
    <3>1. ~IsVoid(X)
      BY <2>6, TypeParts
    <3>2. ReturnCast(was, type, m) = <<X, Y>> /\ ReturnCast(was, type, m)[1] = X
      BY <2>1 DEF ReturnCast
    <3>3. ReturnCast(was, type, m) \in MethodCasts(was, type, m)
      BY DEF MethodCasts
    <3> HIDE DEF X, Y, was, type
    <3> QED
      BY <2>3, <3>1, <3>2, <3>3
  <2> QED
    BY <2>3, <2>4, <2>5, <2>6
<1> QED
  BY <1>2, <1>3

\* What is asked of a program does not change with anything else.
LEMMA SameProgram ==
    ASSUME UNCHANGED program
    PROVE  Largest({})' = Largest({})
BY DEF Largest, Supports, TypeFits, MethodsFit, Required, Questions, MethodCasts, ReturnCast, ParamCast

LEMMA RefsChange ==
    ASSUME CastInv, program \in Programs, UNCHANGED <<program, satisfied>>, refs' \in Seq(Refs),
           \A i \in DOMAIN refs' : RefInv(refs'[i]), program # <<>>
    PROVE  CastInv'
BY SameProgram DEF CastInv, RefInv, TypeIsTrue

LEMMA RefChange ==
    ASSUME CastInv, UNCHANGED <<program, satisfied>>, NEW i \in DOMAIN refs, NEW ref \in Refs,
           program \in Programs => RefInv(ref), refs' = [refs EXCEPT ![i] = ref]
    PROVE  CastInv'
<1>1. program \in Programs /\ program # <<>>
  BY DEF CastInv
<1>2. refs' \in Seq(Refs) /\ DOMAIN refs' = DOMAIN refs
  BY DEF CastInv
<1>3. ASSUME NEW j \in DOMAIN refs' PROVE RefInv(refs'[j])
  <2>1. refs'[j] = IF j = i THEN ref ELSE refs[j]
    BY <1>2 DEF CastInv
  <2> QED
    BY <1>1, <1>2, <2>1 DEF CastInv
<1> QED
  BY <1>1, <1>2, <1>3, RefsChange

-----------------------------------------------------------------------------
LEMMA CastInitInvariant == SatisfyInit => CastInv
BY DEF SatisfyInit, CastInv

LEMMA CastStepInvariant == CastInv /\ [SatisfyNext]_satisfyVars => CastInv'
<1> SUFFICES ASSUME CastInv, [SatisfyNext]_satisfyVars PROVE CastInv'
  OBVIOUS
<1>1. ASSUME UNCHANGED satisfyVars PROVE CastInv'
  BY <1>1, SameProgram DEF satisfyVars, CastInv, RefInv, TypeIsTrue
<1>2. ASSUME Declare PROVE CastInv'
  BY <1>2 DEF Declare, CastInv
<1>3. ASSUME Check PROVE CastInv'
  <2>1. program \in Programs
    BY <1>3 DEF Check, CastInv
  <2>2. Answers \subseteq Largest({})
    BY <2>1, AnswersAreSound
  <2> QED
    BY <1>3, <2>1, <2>2, SameProgram DEF Check, CastInv, RefInv, TypeIsTrue
<1>4. ASSUME NEW t \in ClassTypes, New(t) PROVE CastInv'
  <2> DEFINE ref == [type |-> t, was |-> t]
  <2>1. program \in Programs /\ program # <<>> /\ UNCHANGED <<program, satisfied>>
    BY <1>4 DEF New, CastInv
  <2>2. ref \in Refs /\ RefInv(ref)
    BY DEF Refs, RefInv, ClassTypes, TypeIsTrue
  <2>3. refs' = Append(refs, ref)
    BY <1>4 DEF New
  <2> HIDE DEF ref
  <2>4. refs' \in Seq(Refs) /\ \A i \in DOMAIN refs' : (i \in DOMAIN refs /\ refs'[i] = refs[i]) \/ refs'[i] = ref
    BY <2>2, <2>3 DEF CastInv
  <2> QED
    BY <2>1, <2>2, <2>4, RefsChange DEF CastInv
<1>5. ASSUME NEW i \in DOMAIN refs, NEW t \in Types, Cast(i, t) PROVE CastInv'
  <2>1. <<refs[i].type, t>> \in Largest({})
    BY <1>5 DEF Cast, CanCast, Satisfies, CastInv
  <2>2. program \in Programs /\ refs[i] \in Refs /\ RefInv(refs[i])
    BY DEF CastInv
  <2>3. Retyped(refs[i], t) \in Refs /\ RefInv(Retyped(refs[i], t))
    BY <2>1, <2>2, RetypedRef
  <2>4. UNCHANGED <<program, satisfied>> /\ refs' = [refs EXCEPT ![i] = Retyped(refs[i], t)]
    BY <1>5 DEF Cast
  <2> QED
    BY <2>3, <2>4, RefChange
<1>6. ASSUME NEW i \in DOMAIN refs, NEW j \in DOMAIN refs, NEW m \in Methods, PassArgument(i, j, m)
      PROVE  CastInv'
  <2> DEFINE P(k) == Substitute(program[refs[i].type.name][m].params[k], refs[i].type.const)
             Q(k) == Substitute(Callee(refs[i], m).params[k], AsClass(refs[i]).const)
  <2>1. program \in Programs /\ \A n \in {i, j} : refs[n] \in Refs /\ RefInv(refs[n])
    BY DEF CastInv
  <2>2. PICK k \in DOMAIN program[refs[i].type.name][m].params :
            refs[j].type = P(k) /\ refs' = [refs EXCEPT ![j] = Retyped(refs[j], Q(k))]
    BY <1>6 DEF PassArgument
  <2>3. Callable(refs[i].type, m) /\ UNCHANGED <<program, satisfied>>
    BY <1>6 DEF PassArgument
  <2>4. Q(k) = P(k) \/ <<P(k), Q(k)>> \in Largest({})
    BY <2>1, <2>2, <2>3, CallArrives
  <2> HIDE DEF P, Q
  <2>5. Retyped(refs[j], Q(k)) \in Refs /\ RefInv(Retyped(refs[j], Q(k)))
    BY <2>1, <2>2, <2>4, RetypedRef
  <2> QED
    BY <2>2, <2>3, <2>5, RefChange
<1>7. ASSUME NEW i \in DOMAIN refs, NEW j \in DOMAIN refs, NEW m \in Methods, CallReturns(i, j, m)
      PROVE  CastInv'
  <2> DEFINE X == Substitute(Callee(refs[i], m).ret, AsClass(refs[i]).const)
             Y == Substitute(program[refs[i].type.name][m].ret, refs[i].type.const)
  <2>1. program \in Programs /\ refs[i] \in Refs /\ RefInv(refs[i])
    BY DEF CastInv
  <2>2. PICK t \in ClassTypes : CanCast(t, X) /\ refs' = [refs EXCEPT ![j] = [type |-> Y, was |-> t]]
    BY <1>7 DEF CallReturns
  <2>3. Callable(refs[i].type, m) /\ UNCHANGED <<program, satisfied>>
    BY <1>7 DEF CallReturns
  <2>4. X \in Types => X = Y \/ (MayBeNoop(<<X, Y>>) /\ <<X, Y>> \in Largest({}))
    BY <2>1, <2>3, CallArrives
  <2> HIDE DEF X, Y
  <2> DEFINE ref == [type |-> Y, was |-> t]
  <2>5. <<t, X>> \in Largest({})
    BY <2>2 DEF CanCast, Satisfies, CastInv
  <2>6. X \in Types /\ (~IsInterface(X) => t.name = X.name /\ (t.const => X.const))
    BY <2>1, <2>5, LargestMeans
  <2>7. Y \in Types /\ (IsInterface(Y) => IsInterface(X))
    BY <2>1, <2>4, <2>6, LargestMeans DEF MayBeNoop
  <2>8. ref \in Refs
    BY <2>7, <2>2 DEF Refs
  <2>9. RefInv(ref)
    <3>1. CASE IsInterface(Y)
      <4>1. <<t, Y>> \in Largest({})
        BY <2>1, <2>4, <2>5, <2>6, <2>7, <3>1, LargestComposes
      <4> QED
        BY <3>1, <4>1 DEF RefInv
    <3>2. CASE ~IsInterface(Y)
      <4>1. X = Y \/ (~IsInterface(X) /\ X.name = Y.name /\ (X.const => Y.const))
        BY <2>1, <2>4, <2>6, <3>2, LargestMeans
      <4>2. t.name = Y.name /\ (t.const => Y.const)
        BY <2>6, <3>2, <4>1
      <4> QED
        BY <3>2, <4>2 DEF RefInv, TypeIsTrue
    <3> QED
      BY <3>1, <3>2
  <2> HIDE DEF ref
  <2> QED
    BY <2>2, <2>3, <2>8, <2>9, RefChange DEF ref
<1> QED
  BY <1>1, <1>2, <1>3, <1>4, <1>5, <1>6, <1>7 DEF SatisfyNext

\* The invariant is enough.
LEMMA CastInvariantSuffices == CastInv => CastsAreSound
<1> SUFFICES ASSUME CastInv, NEW i \in DOMAIN refs PROVE TypeIsTrue(refs[i]) /\ CallsAreTrue(refs[i])
  BY DEF CastsAreSound
<1>1. program \in Programs /\ refs[i] \in Refs /\ RefInv(refs[i])
  BY DEF CastInv
<1>2. TypeIsTrue(refs[i])
  BY <1>1 DEF RefInv, TypeIsTrue
<1>3. CallsAreTrue(refs[i])
  BY <1>1, CallArrives DEF CallsAreTrue
<1> QED
  BY <1>2, <1>3

\* No sequence of casts, calls and returns that the compiler accepts ends in a
\* reference that says something false of its object (SatisfyChecker.cpp,
\* typeSatisfies; CastGenerator.cpp), for every program.
THEOREM CastsNeverMislead == StaticSpec => []CastsAreSound
<1>1. StaticInit => CastInv
  BY CastInitInvariant DEF StaticInit
<1>2. CastInv /\ [StaticNext]_staticVars => CastInv'
  <2>1. [StaticNext]_staticVars => [SatisfyNext]_satisfyVars
    BY DEF StaticNext, staticVars, satisfyVars
  <2> QED
    BY <2>1, CastStepInvariant
<1>3. CastInv => CastsAreSound
  BY CastInvariantSuffices
<1> QED
  BY <1>1, <1>2, <1>3, PTL DEF StaticSpec

-----------------------------------------------------------------------------
(***************************************************************************)
(* No answer is missing either, if no question is given up.                *)
(***************************************************************************)

\* Different questions, each asked to answer the one before.
Asking(path) ==
    /\ \A i, j \in 1 .. Len(path) : path[i] = path[j] => i = j
    /\ \A i \in 1 .. Len(path) - 1 :
            TypeFits(path[i][1], path[i][2]) /\ path[i + 1] \in Questions(path[i][1], path[i][2])

\* MAX_STACK_DEPTH is not exceeded (SatisfyChecker.cpp:79), whatever is asked.
DepthSuffices == \A path \in Paths : Asking(path) => Len(path) <= MaxDepth + 1

LEMMA PairsAreFinite == IsFiniteSet(Pairs)
<1>1. IsFiniteSet(Types)
  <2> DEFINE f == [t \in Types |-> <<t.name, t.const>>]
  <2>1. f \in [Types -> TypeNames \X BOOLEAN]
    BY DEF Types
  <2>2. \A t, u \in Types : f[t] = f[u] => t = u
    BY DEF Types
  <2>3. f \in Injection(Types, TypeNames \X BOOLEAN)
    <3> HIDE DEF f
    <3> QED
      BY <2>1, <2>2 DEF Injection, IsInjective
  <2>4. IsFiniteSet(TypeNames \X BOOLEAN)
    <3>1. IsFiniteSet(BOOLEAN)
      <4>1. IsFiniteSet({TRUE})
        BY FS_Singleton
      <4>2. IsFiniteSet({TRUE} \cup {FALSE})
        BY <4>1, FS_AddElement
      <4>3. BOOLEAN = {TRUE} \cup {FALSE}
        OBVIOUS
      <4> QED
        BY <4>2, <4>3, Zenon
    <3> QED
      BY <3>1, FinitelyManyTypes, FS_Product
  <2> HIDE DEF f
  <2> QED
    BY <2>3, <2>4, FS_Injection
<1> QED
  BY <1>1, FS_Product DEF Pairs

\* It is enough if the pairs of types are not more than the stack may hold.
LEMMA FewPairs ==
    ASSUME Cardinality(Pairs) <= MaxDepth + 1
    PROVE  DepthSuffices
<1>1. SUFFICES ASSUME NEW path \in Paths, Asking(path) PROVE Len(path) <= MaxDepth + 1
  BY DEF DepthSuffices
<1> DEFINE n == Len(path)
<1>2. path \in Seq(Pairs) /\ n \in Nat
  BY DEF Paths
<1>3. path \in [1 .. n -> Pairs] /\ \A i, j \in 1 .. n : path[i] = path[j] => i = j
  BY <1>1, <1>2 DEF Asking
<1>4. path \in Injection(1 .. n, Pairs)
  <2> HIDE DEF n
  <2> QED
    BY <1>3 DEF Injection, IsInjective
<1>5. Cardinality(1 .. n) <= Cardinality(Pairs)
  BY <1>4, PairsAreFinite, FS_Injection
<1>6. Cardinality(1 .. n) = n
  <2> HIDE DEF n
  <2>1. Cardinality(1 .. n) = IF 1 > n THEN 0 ELSE n - 1 + 1
    BY <1>2, FS_Interval
  <2> QED
    BY <1>2, <2>1
<1>7. Cardinality(Pairs) \in Nat /\ MaxDepth \in Nat
  BY PairsAreFinite, FS_CardinalityType, SatisfyCheckerAssumption
<1> HIDE DEF n
<1> QED
  BY <1>2, <1>5, <1>6, <1>7 DEF n

\* Such pairs are answered yes on every path of different questions.
LEMMA AnswersAreComplete ==
    ASSUME program \in Programs, DepthSuffices
    PROVE  Largest({}) \subseteq Answers
<1> DEFINE Pending(path) ==
               /\ Last(path) \in Largest({})
               /\ \A i, j \in 1 .. Len(path) - 1 : path[i] = path[j] => i = j
               /\ \A i \in 1 .. Len(path) - 1 :
                    TypeFits(path[i][1], path[i][2]) /\ path[i + 1] \in Questions(path[i][1], path[i][2])
           S == {n \in Nat : \A path \in Paths :
                    Len(path) + n > MaxDepth + 1 /\ Pending(path) => SatisfiesWithin[path]}
<1>0. MaxDepth \in Nat
  BY SatisfyCheckerAssumption
<1>1. ASSUME NEW path \in Paths, Last(path) \in Asked(Front(path)) PROVE SatisfiesWithin[path]
  <2>1. Last(path) = <<Last(path)[1], Last(path)[2]>> /\ Front(path) \in Seq(Pairs)
    BY PathParts
  <2>2. InProgress(Front(path), Last(path)[1], Last(path)[2])
    BY <1>1, <2>1 DEF InProgress, Contains, Asked
  <2>3. Answer(SatisfiesWithin, path)
    BY <2>2 DEF Answer
  <2> QED
    BY <2>3, AnswersDefined
<1>2. ASSUME NEW path \in Paths, Pending(path), Last(path) \notin Asked(Front(path))
      PROVE  Asking(path) /\ Len(path) <= MaxDepth + 1
  <2> DEFINE n == Len(path)
  <2>1. n \in Nat \ {0} /\ Len(Front(path)) = n - 1 /\ \A i \in 1 .. n - 1 : Front(path)[i] = path[i]
    BY PathParts
  <2>2. \A i \in 1 .. n - 1 : path[i] # path[n]
    BY <1>2, <2>1 DEF Asked, Last
  <2>3. \A i \in 1 .. n : i \in 1 .. n - 1 \/ i = n
    BY <2>1
  <2>4. \A i, j \in 1 .. n : path[i] = path[j] => i = j
    BY <1>2, <2>2, <2>3
  <2>5. Asking(path)
    BY <1>2, <2>4 DEF Asking
  <2> QED
    BY <2>5 DEF DepthSuffices
<1>3. 0 \in S
  <2>1. ASSUME NEW path \in Paths, Len(path) + 0 > MaxDepth + 1, Pending(path) PROVE SatisfiesWithin[path]
    <3>1. ~(Len(path) <= MaxDepth + 1)
      BY <1>0, <2>1, PathParts
    <3> QED
      BY <1>1, <1>2, <2>1, <3>1
  <2> HIDE DEF Pending
  <2> QED
    BY <2>1
<1>4. ASSUME NEW n \in S PROVE n + 1 \in S
  <2>1. SUFFICES ASSUME NEW path \in Paths, Len(path) + (n + 1) > MaxDepth + 1, Pending(path),
                        Last(path) \notin Asked(Front(path))
                 PROVE  SatisfiesWithin[path]
    <3> HIDE DEF Pending
    <3> QED
      BY <1>1
  <2> DEFINE c == Last(path)[1]
             r == Last(path)[2]
             k == Len(path)
  <2>2. Asking(path) /\ k <= MaxDepth + 1
    BY <1>2, <2>1
  <2>3. k \in Nat \ {0} /\ Len(Front(path)) = k - 1 /\ c \in Types /\ r \in Types
    BY PathParts
  <2>4. TypeFits(c, r) /\ Questions(c, r) \subseteq Largest({})
    BY <2>1, LargestIsSupported DEF Supports
  <2>5. Questions(c, r) \subseteq Pairs
    BY <2>3, <2>4, QuestionTypes
  <2>6. ASSUME NEW q \in Questions(c, r) PROVE SatisfiesWithin[Append(path, q)]
    <3> DEFINE longer == Append(path, q)
    <3>1. longer \in Paths /\ Len(longer) = k + 1
      BY <2>5, PathParts
    <3>2. path \in Seq(Pairs) /\ q \in Pairs
      BY <2>5 DEF Paths
    <3>3. Last(longer) = q /\ \A i \in 1 .. k : longer[i] = path[i]
      BY <3>2 DEF Last
    <3>4. longer[k + 1] = q /\ path[k] = Last(path)
      BY <3>2 DEF Last
    <3> HIDE DEF longer
    <3>5. \A i, j \in 1 .. k : longer[i] = longer[j] => i = j
      BY <2>2, <3>3 DEF Asking
    <3>6. ASSUME NEW i \in 1 .. k
          PROVE  TypeFits(longer[i][1], longer[i][2]) /\ longer[i + 1] \in Questions(longer[i][1], longer[i][2])
      <4>1. CASE i = k
        BY <2>4, <2>6, <3>3, <3>4, <4>1
      <4>2. CASE i # k
        <5>1. i \in 1 .. k - 1 /\ i + 1 \in 1 .. k
          BY <2>3, <4>2
        <5>2. longer[i] = path[i] /\ longer[i + 1] = path[i + 1]
          BY <3>3, <5>1
        <5> QED
          BY <2>2, <5>1, <5>2 DEF Asking
      <4> QED
        BY <4>1, <4>2
    <3>7. Len(longer) - 1 = k /\ Len(longer) + n > MaxDepth + 1
      BY <1>0, <2>1, <2>3, <3>1
    <3>8. Pending(longer)
      BY <2>4, <3>3, <3>5, <3>6, <3>7
    <3> HIDE DEF Pending
    <3> QED
      BY <3>1, <3>7, <3>8 DEF longer
  <2>7. Len(Front(path)) <= MaxDepth
    BY <1>0, <2>2, <2>3
  <2>8. Answer(SatisfiesWithin, path)
    BY <2>4, <2>6, <2>7 DEF Answer
  <2> QED
    BY <2>8, AnswersDefined
<1>5. S = Nat
  <2> HIDE DEF S
  <2>1. S \subseteq Nat
    BY DEF S
  <2> QED
    BY <1>3, <1>4, <2>1, Induction
<1>6. MaxDepth + 1 \in S
  <2> HIDE DEF S
  <2> QED
    BY <1>0, <1>5
<1>7. ASSUME NEW p \in Largest({}) PROVE p \in Answers
  <2>1. p \in Pairs
    BY LargestIsSupported
  <2>2. <<p>> \in Paths /\ Len(<<p>>) = 1 /\ Last(<<p>>) = p
    BY <2>1 DEF Paths, Last
  <2>3. Pending(<<p>>) /\ Len(<<p>>) + (MaxDepth + 1) > MaxDepth + 1
    BY <1>0, <2>2
  <2>4. SatisfiesWithin[<<p>>]
    <3> HIDE DEF Pending
    <3> QED
      BY <1>6, <2>2, <2>3
  <2> QED
    BY <2>1, <2>4 DEF Answers, Pairs
<1> QED
  BY <1>7

-----------------------------------------------------------------------------
\* The pairs that are left when those that fail are removed once.
Hold(pairs) == {p \in pairs : TypeFits(p[1], p[2]) /\ Questions(p[1], p[2]) \subseteq pairs}

LEMMA HoldIsSmaller ==
    ASSUME NEW pairs \in SUBSET Pairs, Hold(pairs) # pairs
    PROVE  /\ Hold(pairs) \in SUBSET Pairs
           /\ Cardinality(pairs) \in Nat /\ Cardinality(Hold(pairs)) \in Nat
           /\ Cardinality(Hold(pairs)) < Cardinality(pairs)
<1>1. Hold(pairs) \in SUBSET pairs
  BY DEF Hold
<1>2. IsFiniteSet(pairs) /\ Cardinality(pairs) \in Nat
  BY PairsAreFinite, FS_Subset, FS_CardinalityType
<1>3. /\ IsFiniteSet(Hold(pairs)) /\ Cardinality(Hold(pairs)) <= Cardinality(pairs)
      /\ Cardinality(pairs) = Cardinality(Hold(pairs)) => pairs = Hold(pairs)
  BY <1>1, <1>2, FS_Subset
<1>4. Cardinality(Hold(pairs)) \in Nat
  BY <1>3, FS_CardinalityType
<1> QED
  BY <1>1, <1>2, <1>3, <1>4

Removed(f, pairs) == IF Hold(pairs) = pairs THEN pairs ELSE f[Hold(pairs)]

\* As there are finitely many, this comes to an end.
LEMMA RemovalEnds == \E f : f = [pairs \in SUBSET Pairs |-> Removed(f, pairs)]
<1> DEFINE Right(f, n) ==
               /\ f = [pairs \in SUBSET Pairs |-> f[pairs]]
               /\ \A pairs \in SUBSET Pairs : Cardinality(pairs) < n => f[pairs] = Removed(f, pairs)
           S == {n \in Nat : \E f : Right(f, n)}
<1>0. \A pairs \in SUBSET Pairs : Cardinality(pairs) \in Nat /\ Cardinality(pairs) <= Cardinality(Pairs)
  BY PairsAreFinite, FS_Subset, FS_CardinalityType
<1>1. 0 \in S
  <2> DEFINE f == [pairs \in SUBSET Pairs |-> pairs]
  <2>1. f = [pairs \in SUBSET Pairs |-> f[pairs]]
    OBVIOUS
  <2> HIDE DEF f
  <2>2. Right(f, 0)
    BY <1>0, <2>1
  <2> QED
    BY <2>2
<1>2. ASSUME NEW n \in S PROVE n + 1 \in S
  <2>1. PICK f : Right(f, n)
    OBVIOUS
  <2> DEFINE g == [pairs \in SUBSET Pairs |-> IF Cardinality(pairs) < n THEN f[pairs] ELSE Removed(f, pairs)]
  <2>2. ASSUME NEW pairs \in SUBSET Pairs, Cardinality(pairs) < n + 1 PROVE g[pairs] = Removed(g, pairs)
    <3>1. g[pairs] = Removed(f, pairs)
      BY <2>1
    <3>2. ASSUME Hold(pairs) # pairs PROVE g[Hold(pairs)] = f[Hold(pairs)]
      <4>1. Hold(pairs) \in SUBSET Pairs /\ Cardinality(Hold(pairs)) < n
        BY <2>2, <3>2, HoldIsSmaller
      <4> QED
        BY <4>1
    <3> HIDE DEF g
    <3> QED
      BY <3>1, <3>2 DEF Removed
  <2>3. g = [pairs \in SUBSET Pairs |-> g[pairs]]
    OBVIOUS
  <2> HIDE DEF g
  <2>4. Right(g, n + 1)
    BY <2>2, <2>3
  <2> HIDE DEF Right
  <2> QED
    BY <2>4
<1>3. S = Nat
  <2> HIDE DEF S
  <2>1. S \subseteq Nat
    BY DEF S
  <2> QED
    BY <1>1, <1>2, <2>1, Induction
<1>4. Cardinality(Pairs) + 1 \in S
  <2> HIDE DEF S
  <2> QED
    BY <1>0, <1>3
<1>5. PICK f : Right(f, Cardinality(Pairs) + 1)
  <2> HIDE DEF Right
  <2> QED
    BY <1>4
<1>6. \A pairs \in SUBSET Pairs : f[pairs] = Removed(f, pairs)
  <2>1. \A pairs \in SUBSET Pairs : Cardinality(pairs) < Cardinality(Pairs) + 1
    BY <1>0
  <2> QED
    BY <1>5, <2>1
<1> QED
  BY <1>5, <1>6, Zenon

LEMMA ConsistentDefined == \A pairs \in SUBSET Pairs : Consistent[pairs] = Removed(Consistent, pairs)
<1>1. \E f : f = [pairs \in SUBSET Pairs |-> Removed(f, pairs)] /\ Consistent = f
  BY RemovalEnds, Zenon DEF Consistent, Removed, Hold, Pairs
<1>2. Consistent = [pairs \in SUBSET Pairs |-> Removed(Consistent, pairs)]
  BY <1>1
<1> QED
  BY <1>2, Zenon

\* The largest relation is never touched, and what is left at the end is a part of it.
LEMMA ConsistentIsLargest == Consistent[Pairs] = Largest({})
<1> DEFINE S == {n \in Nat : \A pairs \in SUBSET Pairs :
                    Cardinality(pairs) < n /\ Largest({}) \subseteq pairs => Consistent[pairs] = Largest({})}
<1>1. 0 \in S
  BY PairsAreFinite, FS_Subset, FS_CardinalityType
<1>2. ASSUME NEW n \in S PROVE n + 1 \in S
  <2>1. SUFFICES ASSUME NEW pairs \in SUBSET Pairs, Cardinality(pairs) < n + 1, Largest({}) \subseteq pairs
                 PROVE  Consistent[pairs] = Largest({})
    OBVIOUS
  <2>2. CASE Hold(pairs) = pairs
    <3>1. Supports(pairs, {})
      BY <2>2 DEF Hold, Supports
    <3>2. pairs \subseteq Largest({})
      BY <3>1, LargestIsLargest
    <3>3. Consistent[pairs] = pairs
      BY <2>2, ConsistentDefined DEF Removed
    <3> QED
      BY <2>1, <3>2, <3>3
  <2>3. CASE Hold(pairs) # pairs
    <3>1. Consistent[pairs] = Consistent[Hold(pairs)]
      BY <2>3, ConsistentDefined DEF Removed
    <3>2. Largest({}) \subseteq Hold(pairs)
      BY <2>1, LargestIsSupported DEF Supports, Hold
    <3>3. Hold(pairs) \in SUBSET Pairs /\ Cardinality(Hold(pairs)) < n
      BY <2>1, <2>3, HoldIsSmaller
    <3> QED
      BY <3>1, <3>2, <3>3
  <2> QED
    BY <2>2, <2>3
<1>3. S = Nat
  <2> HIDE DEF S
  <2>1. S \subseteq Nat
    BY DEF S
  <2> QED
    BY <1>1, <1>2, <2>1, Induction
<1>4. Cardinality(Pairs) \in Nat
  BY PairsAreFinite, FS_CardinalityType
<1>5. Cardinality(Pairs) + 1 \in S
  <2> HIDE DEF S
  <2> QED
    BY <1>3, <1>4
<1> QED
  BY <1>4, <1>5, LargestIsSupported

-----------------------------------------------------------------------------
\* A type, and the same type that may be const where the first is not; unless
\* parameters are selfconst a type satisfies such a type too.
Looser == {p \in Pairs : /\ p[1].name = p[2].name /\ (p[1].const => p[2].const)
                         /\ p[1] = p[2] \/ ~TakesSelfConst}

LEMMA LooserCasts ==
    ASSUME program \in Programs, NEW a \in Types, NEW b \in Types, <<a, b>> \in Looser,
           NEW m \in DOMAIN program[b.name]
    PROVE  /\ ~IsVoid(ReturnCast(a, b, m)[1]) => ReturnCast(a, b, m) \in Looser
           /\ \A i \in DOMAIN program[a.name][m].params :
                ParamCast(a, b, m, i)[1] = ParamCast(a, b, m, i)[2] /\ ParamCast(a, b, m, i) \in Looser
           /\ \A cast \in MethodCasts(a, b, m) : MayBeNoop(cast)
<1> DEFINE M == program[b.name][m]
<1>1. /\ a.name = b.name /\ (a.const => b.const) /\ (a = b \/ ~TakesSelfConst)
      /\ a.const \in BOOLEAN /\ b.const \in BOOLEAN /\ b.name \in TypeNames
  BY TypeParts DEF Looser
<1>2. M.params \in Seq(Declared) /\ M.ret \in Declared \cup {Void}
  BY <1>1, Declarations
<1>3. ReturnCast(a, b, m) = <<Substitute(M.ret, a.const), Substitute(M.ret, b.const)>>
  BY <1>1 DEF ReturnCast
<1>4. ASSUME ~IsVoid(ReturnCast(a, b, m)[1]) PROVE ReturnCast(a, b, m) \in Looser
  <2>1. M.ret \in Declared
    BY <1>2, <1>3, <1>4 DEF IsVoid, Substitute, Void
  <2>2. ReturnCast(a, b, m) \in Pairs
    BY <1>1, <1>3, <2>1, SubstituteType DEF Pairs
  <2> QED
    BY <1>1, <1>3, <2>2 DEF Looser, Substitute
<1>5. ASSUME NEW i \in DOMAIN program[a.name][m].params
      PROVE  ParamCast(a, b, m, i)[1] = ParamCast(a, b, m, i)[2] /\ ParamCast(a, b, m, i) \in Looser
  <2>1. M.params[i] \in Declared
    BY <1>1, <1>2, <1>5
  <2>2. ParamCast(a, b, m, i) = <<Substitute(M.params[i], b.const), Substitute(M.params[i], a.const)>>
    BY <1>1 DEF ParamCast
  <2>3. a = b \/ M.params[i].const # "self"
    BY <1>1, <1>5 DEF TakesSelfConst
  <2>4. Substitute(M.params[i], b.const) = Substitute(M.params[i], a.const)
    BY <2>3 DEF Substitute
  <2>5. Substitute(M.params[i], b.const) \in Types
    BY <1>1, <2>1, SubstituteType
  <2> QED
    BY <2>2, <2>4, <2>5 DEF Looser, Pairs
<1>6. MayBeNoop(ReturnCast(a, b, m))
  BY <1>3 DEF MayBeNoop, Substitute, IsVoid, IsInterface
<1>7. ASSUME NEW i \in DOMAIN program[a.name][m].params PROVE MayBeNoop(ParamCast(a, b, m, i))
  BY <1>5 DEF MayBeNoop
<1> QED
  BY <1>4, <1>5, <1>6, <1>7 DEF MethodCasts

LEMMA LooserHolds ==
    ASSUME program \in Programs
    PROVE  Looser \subseteq Largest({})
<1>1. ASSUME NEW a \in Types, NEW b \in Types, <<a, b>> \in Looser
      PROVE  TypeFits(a, b) /\ Questions(a, b) \subseteq Looser
  <2>1. a.name = b.name /\ (a.const => b.const) /\ a.name \in TypeNames
    BY <1>1, TypeParts DEF Looser
  <2>2. ASSUME NEW m \in DOMAIN program[b.name], Required(b, m)
        PROVE  MethodFits(a.const, program[a.name][m], program[b.name][m])
    BY <2>1, <2>2 DEF MethodFits, Required
  <2>3. MethodsFit(a, b)
    BY <1>1, <2>1, <2>2, LooserCasts DEF MethodsFit
  <2>4. ASSUME NEW q \in Questions(a, b) PROVE q \in Looser
    <3>1. PICK m \in DOMAIN program[b.name] : q \in MethodCasts(a, b, m) /\ ~IsVoid(q[1])
      BY DEF Questions
    <3> QED
      BY <1>1, <3>1, LooserCasts DEF MethodCasts
  <2> QED
    BY <2>1, <2>3, <2>4 DEF TypeFits
<1>2. Looser \in SUBSET Pairs
  BY DEF Looser
<1>3. Supports(Looser, {})
  <2>1. ASSUME NEW p \in Looser PROVE TypeFits(p[1], p[2]) /\ Questions(p[1], p[2]) \subseteq Looser
    <3>1. p = <<p[1], p[2]>> /\ p[1] \in Types /\ p[2] \in Types
      BY DEF Looser, Pairs
    <3> QED
      BY <1>1, <3>1
  <2> QED
    BY <2>1 DEF Supports
<1> QED
  BY <1>2, <1>3, LargestIsLargest

\* What a class satisfies, so does the same class if it is const less often.
LEMMA LooserComposes ==
    ASSUME program \in Programs, NEW a \in Types, NEW b \in Types, NEW c \in Types,
           <<a, b>> \in Looser, <<b, c>> \in Largest({}), IsInterface(c)
    PROVE  /\ TypeFits(a, c)
           /\ \A q \in Questions(a, c) : \E mid \in Types : <<q[1], mid>> \in Looser /\ <<mid, q[2]>> \in Largest({})
<1>1. /\ a.name = b.name /\ (a.const => b.const) /\ (a = b \/ ~TakesSelfConst)
      /\ a.const \in BOOLEAN /\ b.const \in BOOLEAN /\ b.name \in TypeNames
  BY TypeParts DEF Looser
<1>2. TypeFits(b, c) /\ MethodsFit(b, c)
  BY LargestMeans DEF TypeFits
<1>3. ASSUME NEW m \in DOMAIN program[c.name], Required(c, m)
      PROVE  /\ m \in DOMAIN program[b.name]
             /\ MethodFits(a.const, program[a.name][m], program[c.name][m])
             /\ \A cast \in MethodCasts(a, c, m) : MayBeNoop(cast)
             /\ \A q \in MethodCasts(a, c, m) : ~IsVoid(q[1]) =>
                    \E mid \in Types : <<q[1], mid>> \in Looser /\ <<mid, q[2]>> \in Largest({})
  <2>1. /\ m \in DOMAIN program[b.name] /\ MethodFits(b.const, program[b.name][m], program[c.name][m])
        /\ \A cast \in MethodCasts(b, c, m) : MayBeNoop(cast)
        /\ \A cast \in MethodCasts(b, c, m) : ~IsVoid(cast[1]) => cast \in Largest({})
    BY <1>3, LargestCasts
  <2>2. MethodFits(a.const, program[a.name][m], program[c.name][m])
    BY <1>1, <2>1 DEF MethodFits
  <2> DEFINE mid == Substitute(program[b.name][m].ret, b.const)
             x == Substitute(program[b.name][m].ret, a.const)
             y == Substitute(program[c.name][m].ret, c.const)
  <2>3. ReturnCast(a, c, m) = <<x, y>> /\ ReturnCast(b, c, m) = <<mid, y>> /\ ReturnCast(a, b, m) = <<x, mid>>
    BY <1>1 DEF ReturnCast
  <2>4. x.name = mid.name
    BY DEF Substitute
  <2> HIDE DEF x, y, mid
  <2>5. MayBeNoop(<<mid, y>>)
    BY <2>1, <2>3 DEF MethodCasts
  <2>6. MayBeNoop(ReturnCast(a, c, m))
    BY <2>3, <2>4, <2>5 DEF MayBeNoop, IsVoid, IsInterface
  <2>7. ASSUME ~IsVoid(x) PROVE mid \in Types /\ <<x, mid>> \in Looser /\ <<mid, y>> \in Largest({})
    <3>1. ~IsVoid(<<x, mid>>[1]) /\ ~IsVoid(<<mid, y>>[1])
      BY <2>4, <2>7 DEF IsVoid
    <3>2. <<x, mid>> \in Looser
      BY <2>1, <2>3, <3>1, LooserCasts
    <3>3. <<mid, y>> \in MethodCasts(b, c, m)
      BY <2>3 DEF MethodCasts
    <3>4. <<mid, y>> \in Largest({})
      BY <2>1, <3>1, <3>3
    <3> QED
      BY <3>2, <3>4 DEF Looser, Pairs
  <2>8. ASSUME NEW i \in DOMAIN program[a.name][m].params
        PROVE  /\ MayBeNoop(ParamCast(a, c, m, i))
               /\ ParamCast(a, c, m, i)[1] \in Types
               /\ <<ParamCast(a, c, m, i)[1], ParamCast(a, c, m, i)[1]>> \in Looser
               /\ <<ParamCast(a, c, m, i)[1], ParamCast(a, c, m, i)[2]>> \in Largest({})
    <3> DEFINE p == Substitute(program[c.name][m].params[i], c.const)
               r == Substitute(program[b.name][m].params[i], b.const)
               s == Substitute(program[a.name][m].params[i], a.const)
    <3>1. ParamCast(a, c, m, i) = <<p, s>> /\ ParamCast(b, c, m, i) = <<p, r>> /\ ParamCast(a, b, m, i) = <<r, s>>
      BY DEF ParamCast
    <3> HIDE DEF p, r, s
    <3>2. <<r, s>>[1] = <<r, s>>[2]
      BY <2>1, <3>1, LooserCasts
    <3>3. r = s
      BY <3>2
    <3>4. <<p, r>> \in MethodCasts(b, c, m)
      BY <1>1, <3>1 DEF MethodCasts
    <3>5. i \in DOMAIN program[c.name][m].params
      <4>1. program[b.name][m].params \in Seq(Declared) /\ program[c.name][m].params \in Seq(Declared)
        BY <1>1, <1>3, <2>1, TypeParts, Declarations
      <4> QED
        BY <1>1, <2>1, <4>1 DEF MethodFits
    <3>6. <<p, r>> \in Largest({})
      BY <1>3, <3>1, <3>5, LargestCasts
    <3>7. p \in Types /\ r \in Types
      BY <3>6, LargestMeans
    <3>8. <<p, p>> \in Looser
      BY <3>7 DEF Looser, Pairs
    <3> QED
      BY <2>1, <3>1, <3>3, <3>4, <3>6, <3>7, <3>8
  <2>9. ASSUME NEW q \in MethodCasts(a, c, m), ~IsVoid(q[1])
        PROVE  \E u \in Types : <<q[1], u>> \in Looser /\ <<u, q[2]>> \in Largest({})
    <3>1. CASE q = ReturnCast(a, c, m)
      BY <2>3, <2>7, <2>9, <3>1
    <3>2. ASSUME NEW i \in DOMAIN program[a.name][m].params, q = ParamCast(a, c, m, i)
          PROVE  \E u \in Types : <<q[1], u>> \in Looser /\ <<u, q[2]>> \in Largest({})
      BY <2>8, <3>2
    <3> QED
      BY <3>1, <3>2 DEF MethodCasts
  <2>10. \A cast \in MethodCasts(a, c, m) : MayBeNoop(cast)
    BY <2>6, <2>8 DEF MethodCasts
  <2> QED
    BY <2>1, <2>2, <2>9, <2>10
<1>4. \A m \in DOMAIN program[c.name] : m \in DOMAIN program[a.name]
  BY <1>1, <1>2 DEF MethodsFit
<1>5. MethodsFit(a, c)
  BY <1>3, <1>4 DEF MethodsFit
<1>6. TypeFits(a, c)
  BY <1>5 DEF TypeFits
<1>7. ASSUME NEW q \in Questions(a, c)
      PROVE  \E mid \in Types : <<q[1], mid>> \in Looser /\ <<mid, q[2]>> \in Largest({})
  <2>1. PICK m \in DOMAIN program[c.name] : Required(c, m) /\ q \in MethodCasts(a, c, m) /\ ~IsVoid(q[1])
    BY DEF Questions
  <2> QED
    BY <1>3, <2>1
<1> QED
  BY <1>6, <1>7

\* Unless parameters are selfconst, casts in two steps are casts in one.
LEMMA LargestIsTransitive ==
    ASSUME program \in Programs, ~TakesSelfConst, NEW a, NEW b, NEW c,
           <<a, b>> \in Largest({}), <<b, c>> \in Largest({})
    PROVE  <<a, c>> \in Largest({})
<1> DEFINE Step(x, y, z) == <<x, y>> \in Looser /\ <<y, z>> \in Largest({})
           looser == {p \in Pairs : \E y \in Types : Step(p[1], y, p[2])}
           both == Largest({}) \cup looser
<1>1. a \in Types /\ b \in Types /\ c \in Types
  BY LargestMeans
<1>2. Largest({}) \subseteq Pairs /\ Looser \subseteq Largest({})
  BY LargestIsSupported, LooserHolds
<1>3. ASSUME NEW p \in looser PROVE TypeFits(p[1], p[2]) /\ Questions(p[1], p[2]) \subseteq both
  <2>1. PICK x \in Types, z \in Types : p = <<x, z>>
    BY DEF Pairs
  <2>2. PICK y \in Types : Step(x, y, z)
    BY <2>1
  <2>3. CASE IsInterface(z)
    <3>1. TypeFits(x, z)
      BY <2>2, <2>3, LooserComposes
    <3>2. Questions(x, z) \subseteq Pairs
      BY <3>1, QuestionTypes
    <3>3. \A q \in Questions(x, z) : \E mid \in Types : Step(q[1], mid, q[2])
      BY <2>2, <2>3, LooserComposes
    <3>4. Questions(x, z) \subseteq looser
      <4> HIDE DEF Step
      <4> QED
        BY <3>2, <3>3
    <3> QED
      BY <2>1, <3>1, <3>4
  <2>4. CASE ~IsInterface(z)
    <3>1. x.name = y.name /\ (x.const => y.const) /\ y.name = z.name /\ (y.const => z.const)
      BY <2>2, <2>4, LargestMeans DEF Looser
    <3>2. TypeFits(x, z) /\ Questions(x, z) = {}
      BY <2>4, <3>1 DEF TypeFits, Questions
    <3> QED
      BY <2>1, <3>2
  <2> QED
    BY <2>3, <2>4
<1>4. both \subseteq Largest({})
  <2>1. both \in SUBSET Pairs
    BY <1>2
  <2>2. ASSUME NEW p \in both PROVE TypeFits(p[1], p[2]) /\ Questions(p[1], p[2]) \subseteq both \cup {}
    BY <1>3, LargestIsSupported DEF Supports
  <2> HIDE DEF both
  <2> QED
    BY <2>1, <2>2, LargestIsLargest DEF Supports
<1>5. CASE IsInterface(b) \/ ~IsInterface(c)
  BY <1>5, LargestComposes
<1>6. CASE ~IsInterface(b) /\ IsInterface(c)
  <2>1. <<a, b>> \in Looser
    BY <1>1, <1>6, LargestMeans DEF Looser, Pairs
  <2>2. <<a, c>> \in Pairs
    BY <1>1 DEF Pairs
  <2>3. <<a, c>> \in looser
    BY <1>1, <2>1, <2>2
  <2> QED
    BY <1>4, <2>3
<1> QED
  BY <1>5, <1>6

-----------------------------------------------------------------------------
\* Once a program is checked, what is satisfied is the largest relation.
AnswersInv == CastInv /\ (satisfied # {} /\ DepthSuffices => satisfied = Largest({}))

LEMMA SameDepth ==
    ASSUME UNCHANGED program
    PROVE  DepthSuffices' = DepthSuffices
BY DEF DepthSuffices, Asking, Paths, Pairs, TypeFits, MethodsFit, Required, Questions, MethodCasts, ReturnCast, ParamCast

LEMMA AnswersStepInvariant == AnswersInv /\ [SatisfyNext]_satisfyVars => AnswersInv'
<1> SUFFICES ASSUME AnswersInv, [SatisfyNext]_satisfyVars PROVE AnswersInv'
  OBVIOUS
<1>1. CastInv /\ CastInv'
  BY CastStepInvariant DEF AnswersInv
<1>2. CASE UNCHANGED <<program, satisfied>>
  BY <1>1, <1>2, SameProgram, SameDepth DEF AnswersInv
<1>3. CASE Declare
  BY <1>1, <1>3 DEF AnswersInv, CastInv, Declare
<1>4. CASE Check
  <2>1. program \in Programs /\ UNCHANGED program /\ satisfied' = Answers
    BY <1>1, <1>4 DEF Check, CastInv
  <2>2. DepthSuffices => Answers = Largest({})
    BY <2>1, AnswersAreSound, AnswersAreComplete
  <2> QED
    BY <1>1, <2>1, <2>2, SameProgram, SameDepth DEF AnswersInv
<1> QED
  BY <1>2, <1>3, <1>4 DEF SatisfyNext, satisfyVars, New, Cast, PassArgument, CallReturns

LEMMA AnswersInvariantSuffices == AnswersInv => (DepthSuffices => SatisfiesIsLargest)
<1> SUFFICES ASSUME AnswersInv, DepthSuffices, satisfied # {}
             PROVE  /\ satisfied = Consistent[Types \X Types]
                    /\ \A t \in Types : Satisfies(t, t)
                    /\ TakesSelfConst \/
                          \A p, q \in satisfied : p[2] = q[1] => Satisfies(p[1], q[2])
  BY DEF SatisfiesIsLargest
<1>1. program \in Programs /\ satisfied = Largest({})
  BY DEF AnswersInv, CastInv
<1>2. satisfied = Consistent[Types \X Types]
  BY <1>1, ConsistentIsLargest DEF Pairs
<1>3. ASSUME NEW t \in Types PROVE Satisfies(t, t)
  <2>1. <<t, t>> \in Looser
    BY DEF Looser, Pairs
  <2> QED
    BY <1>1, <2>1, LooserHolds DEF Satisfies
<1>4. ASSUME ~TakesSelfConst, NEW p \in satisfied, NEW q \in satisfied, p[2] = q[1]
      PROVE  Satisfies(p[1], q[2])
  <2>1. p = <<p[1], p[2]>> /\ q = <<q[1], q[2]>>
    BY <1>1, LargestIsSupported DEF Pairs
  <2>2. <<p[1], q[1]>> \in Largest({}) /\ <<q[1], q[2]>> \in Largest({})
    BY <1>1, <1>4, <2>1
  <2> QED
    BY <1>1, <1>4, <2>2, LargestIsTransitive DEF Satisfies
<1> QED
  BY <1>2, <1>3, <1>4

\* The answers are the same whatever is asked first, for every program: a yes that is assumed of
\* a question in progress (SatisfyChecker.cpp:68) does no harm, and no answer is missing, unless the
\* stack of questions gets too deep.
THEOREM SatisfactionIsLargest == StaticSpec => [](DepthSuffices => SatisfiesIsLargest)
<1>1. StaticInit => AnswersInv
  BY CastInitInvariant DEF StaticInit, SatisfyInit, AnswersInv
<1>2. AnswersInv /\ [StaticNext]_staticVars => AnswersInv'
  <2>1. [StaticNext]_staticVars => [SatisfyNext]_satisfyVars
    BY DEF StaticNext, staticVars, satisfyVars
  <2> QED
    BY <2>1, AnswersStepInvariant
<1>3. AnswersInv => (DepthSuffices => SatisfiesIsLargest)
  BY AnswersInvariantSuffices
<1> QED
  BY <1>1, <1>2, <1>3, PTL DEF StaticSpec

-----------------------------------------------------------------------------
(***************************************************************************)
(* Layout.  Nothing in this part depends on the others, but Induction.     *)
(***************************************************************************)
\* Rounding up.
Multiple(n, a) == \E q \in Nat : n = q * a

LEMMA NextTimes ==
    ASSUME NEW p \in Nat, NEW q \in Nat, NEW a \in Nat, p < q
    PROVE  p * a + a <= q * a
<1>1. PICK k \in Nat : q = p + 1 + k
  <2>1. q - p - 1 \in Nat /\ q = p + 1 + (q - p - 1)
    OBVIOUS
  <2> QED
    BY <2>1
<1>2. q * a = p * a + a + k * a
  BY <1>1
<1>3. k * a \in Nat /\ p * a \in Nat
  OBVIOUS
<1> QED
  BY <1>2, <1>3

LEMMA RoundUpIs ==
    ASSUME NEW n \in Nat, NEW a \in Nat \ {0}
    PROVE  RoundUp(n, a) \in Nat /\ Multiple(RoundUp(n, a), a) /\ n <= RoundUp(n, a) /\ RoundUp(n, a) < n + a
<1> DEFINE q == (n + a - 1) \div a
           r == (n + a - 1) % a
<1>1. q \in Nat /\ r \in 0 .. a - 1 /\ n + a - 1 = a * q + r
  OBVIOUS
<1> HIDE DEF q, r
<1>2. q * a \in Nat /\ q * a = a * q
  BY <1>1
<1>3. n <= q * a /\ q * a < n + a
  BY <1>1, <1>2
<1> QED
  BY <1>1, <1>2, <1>3 DEF RoundUp, Multiple, q

LEMMA RoundUpUnique ==
    ASSUME NEW n \in Nat, NEW a \in Nat \ {0}, NEW r \in Nat, Multiple(r, a), n <= r, r < n + a
    PROVE  RoundUp(n, a) = r
<1>1. PICK q \in Nat : r = q * a
  BY DEF Multiple
<1>2. PICK p \in Nat : RoundUp(n, a) = p * a /\ n <= p * a /\ p * a < n + a
  BY RoundUpIs DEF Multiple
<1>3. ~(p < q) /\ ~(q < p)
  <2>1. p * a \in Nat /\ q * a \in Nat
    OBVIOUS
  <2>2. p < q => p * a + a <= q * a
    BY NextTimes
  <2>3. q < p => q * a + a <= p * a
    BY NextTimes
  <2> QED
    BY <1>1, <1>2, <2>1, <2>2, <2>3
<1>4. p = q
  BY <1>3
<1> QED
  BY <1>1, <1>2, <1>4

LEMMA RoundUpMultiple ==
    ASSUME NEW n \in Nat, NEW a \in Nat \ {0}, Multiple(n, a)
    PROVE  RoundUp(n, a) = n
BY RoundUpUnique

LEMMA MultipleSum ==
    ASSUME NEW x \in Nat, NEW y \in Nat, NEW a \in Nat, Multiple(x, a), Multiple(y, a)
    PROVE  Multiple(x + y, a)
<1>1. PICK p \in Nat, q \in Nat : x = p * a /\ y = q * a
  BY DEF Multiple
<1>2. x + y = (p + q) * a /\ p + q \in Nat
  BY <1>1
<1> QED
  BY <1>2 DEF Multiple

LEMMA MultipleOfMultiple ==
    ASSUME NEW x \in Nat, NEW b \in Nat, NEW a \in Nat, Multiple(x, b), Multiple(b, a)
    PROVE  Multiple(x, a)
<1>1. PICK p \in Nat, q \in Nat : x = p * b /\ b = q * a
  BY DEF Multiple
<1>2. x = (p * q) * a /\ p * q \in Nat
  BY <1>1
<1> QED
  BY <1>2 DEF Multiple

LEMMA RoundUpShift ==
    ASSUME NEW x \in Nat, NEW d \in Nat, NEW a \in Nat \ {0}, Multiple(x, a)
    PROVE  RoundUp(x + d, a) = x + RoundUp(d, a)
<1>1. RoundUp(d, a) \in Nat /\ Multiple(RoundUp(d, a), a) /\ d <= RoundUp(d, a) /\ RoundUp(d, a) < d + a
  BY RoundUpIs
<1>2. Multiple(x + RoundUp(d, a), a)
  BY <1>1, MultipleSum
<1>3. x + d \in Nat /\ x + RoundUp(d, a) \in Nat /\ x + d <= x + RoundUp(d, a) /\ x + RoundUp(d, a) < x + d + a
  BY <1>1
<1> QED
  BY <1>2, <1>3, RoundUpUnique

LEMMA RoundUpWithin ==
    ASSUME NEW n \in Nat, NEW b \in Nat, NEW a \in Nat \ {0}, n <= b, Multiple(b, a)
    PROVE  RoundUp(n, a) <= b
<1>1. PICK q \in Nat : b = q * a
  BY DEF Multiple
<1>2. PICK p \in Nat : RoundUp(n, a) = p * a /\ n <= p * a /\ p * a < n + a
  BY RoundUpIs DEF Multiple
<1>3. q < p => q * a + a <= p * a
  BY NextTimes
<1>4. p < q => p * a + a <= q * a
  BY NextTimes
<1>5. p * a \in Nat /\ q * a \in Nat
  OBVIOUS
<1> QED
  BY <1>1, <1>2, <1>3, <1>4, <1>5

\* Fields one after the other.
IsField(f) == f.known \in BOOLEAN /\ f.size \in Nat \ {0} /\ f.align \in Nat \ {0}

IsFields(F) ==
    /\ Len(F) \in Nat /\ F = [i \in 1 .. Len(F) |-> F[i]]
    /\ \A i \in 1 .. Len(F) : IsField(F[i])

LEMMA FieldsSeq ==
    ASSUME NEW F, IsFields(F)
    PROVE  /\ Len(F) \in Nat /\ DOMAIN F = 1 .. Len(F)
           /\ F \in Seq({F[i] : i \in 1 .. Len(F)})
           /\ F = <<>> <=> Len(F) = 0
<1> DEFINE n == Len(F)
           X == {F[i] : i \in 1 .. n}
<1>1. n \in Nat /\ F = [i \in 1 .. n |-> F[i]]
  BY DEF IsFields
<1>2. DOMAIN F = 1 .. n
  BY <1>1
<1>3. F \in [1 .. n -> X]
  BY <1>1
<1> HIDE DEF X
<1>4. F \in Seq(X)
  BY <1>1, <1>3, SeqDef
<1>5. F = <<>> <=> n = 0
  BY <1>4, EmptySeq
<1> QED
  BY <1>1, <1>2, <1>4, <1>5 DEF X

IsEnds(e, k, F, start) ==
    e = [i \in 0 .. k |-> IF i = 0 THEN start ELSE RoundUp(e[i - 1], F[i].align) + F[i].size]

LEMMA EndsExist ==
    ASSUME NEW F, NEW start
    PROVE  \A k \in Nat : \E e : IsEnds(e, k, F, start)
<1> USE DEF IsEnds
<1> DEFINE Is(e, k) == IsEnds(e, k, F, start)
           S == {k \in Nat : \E e : Is(e, k)}
<1>1. 0 \in S
  <2> DEFINE f == [i \in 0 .. 0 |-> start]
  <2>1. f = [i \in 0 .. 0 |-> IF i = 0 THEN start ELSE RoundUp(f[i - 1], F[i].align) + F[i].size]
    OBVIOUS
  <2> QED
    BY <2>1
<1>2. ASSUME NEW k \in S PROVE k + 1 \in S
  <2>1. PICK f : Is(f, k)
    OBVIOUS
  <2> DEFINE last == RoundUp(f[k], F[k + 1].align) + F[k + 1].size
             g == [i \in 0 .. k + 1 |-> IF i = k + 1 THEN last ELSE f[i]]
  <2>2. k \in Nat /\ k + 1 \in Nat
    OBVIOUS
  <2>3. \A i \in 0 .. k : g[i] = f[i]
    BY <2>2
  <2>4. \A i \in 0 .. k : f[i] = IF i = 0 THEN start ELSE RoundUp(f[i - 1], F[i].align) + F[i].size
    BY <2>1
  <2>5. ASSUME NEW i \in 0 .. k + 1
        PROVE  g[i] = IF i = 0 THEN start ELSE RoundUp(g[i - 1], F[i].align) + F[i].size
    <3>1. CASE i = k + 1
      <4>1. g[i] = last /\ i # 0 /\ i - 1 = k /\ g[k] = f[k]
        BY <2>2, <2>3, <3>1
      <4> QED
        BY <3>1, <4>1
    <3>2. CASE i # k + 1 /\ i # 0
      <4>1. i \in 0 .. k /\ i - 1 \in 0 .. k
        BY <2>2, <3>2
      <4>2. g[i] = f[i] /\ g[i - 1] = f[i - 1]
        BY <2>3, <4>1
      <4> QED
        BY <2>4, <4>1, <4>2, <3>2
    <3>3. CASE i = 0
      <4>1. i \in 0 .. k
        BY <2>2, <3>3
      <4>2. g[i] = f[i]
        BY <2>3, <4>1
      <4> QED
        BY <2>4, <4>1, <4>2, <3>3
    <3> QED
      BY <3>1, <3>2, <3>3
  <2>6. g = [i \in 0 .. k + 1 |-> g[i]]
    OBVIOUS
  <2> HIDE DEF g
  <2>7. Is(g, k + 1)
    BY <2>5, <2>6
  <2> QED
    BY <2>2, <2>7
<1> HIDE DEF S
<1>3. S = Nat
  <2>1. S \in SUBSET Nat
    BY DEF S
  <2> QED
    BY <1>1, <1>2, <2>1, Induction
<1> QED
  BY <1>3 DEF S

\* Offset and end of each field.
Offset(F, start, i) == RoundUp(Ends(F, start)[i - 1], F[i].align)

LEMMA EndsAre ==
    ASSUME NEW F, IsFields(F), NEW start \in Nat
    PROVE  /\ Ends(F, start)[0] = start
           /\ \A i \in 1 .. Len(F) : Ends(F, start)[i] = Offset(F, start, i) + F[i].size
<1> DEFINE n == Len(F)
           val(h, i) == IF i = 0 THEN start ELSE RoundUp(h[i - 1], F[i].align) + F[i].size
<1>1. n \in Nat
  BY DEF IsFields
<1>2. \E e : e = [i \in 0 .. n |-> val(e, i)]
  <2>1. \E e : IsEnds(e, n, F, start)
    BY <1>1, EndsExist
  <2> QED
    BY <2>1, Zenon DEF IsEnds
<1>3. \E e : e = [i \in 0 .. n |-> val(e, i)] /\ Ends(F, start) = e
  BY <1>2, Zenon DEF Ends
<1>4. Ends(F, start) = [i \in 0 .. n |-> val(Ends(F, start), i)]
  BY <1>3
<1> DEFINE e == Ends(F, start)
<1>5. \A i \in 0 .. n : e[i] = val(e, i)
  <2> HIDE DEF e, val, n
  <2> QED
    BY <1>4 DEF e
<1>6. e[0] = start
  BY <1>1, <1>5
<1>7. \A i \in 1 .. n : i \in 0 .. n /\ i # 0
  BY <1>1
<1>8. \A i \in 1 .. n : e[i] = RoundUp(e[i - 1], F[i].align) + F[i].size
  BY <1>5, <1>7
<1> QED
  BY <1>6, <1>8 DEF Offset

\* They ascend.
LEMMA EndsAscend ==
    ASSUME NEW F, IsFields(F), NEW start \in Nat
    PROVE  /\ \A i \in 0 .. Len(F) : Ends(F, start)[i] \in Nat
           /\ \A i \in 1 .. Len(F) :
                /\ Offset(F, start, i) \in Nat
                /\ Ends(F, start)[i - 1] <= Offset(F, start, i)
                /\ Offset(F, start, i) < Ends(F, start)[i]
           /\ \A j \in 0 .. Len(F) : \A i \in 0 .. j : Ends(F, start)[i] <= Ends(F, start)[j]
<1> DEFINE n == Len(F)
           e == Ends(F, start)
           o(i) == Offset(F, start, i)
           S == {k \in Nat : k <= n => \A i \in 0 .. k : e[i] \in Nat /\ e[i] <= e[k]}
<1>1. n \in Nat /\ \A i \in 1 .. n : F[i].size \in Nat \ {0} /\ F[i].align \in Nat \ {0}
  BY DEF IsFields, IsField
<1>2. e[0] = start /\ \A i \in 1 .. n : e[i] = o(i) + F[i].size /\ o(i) = RoundUp(e[i - 1], F[i].align)
  BY EndsAre DEF Offset
<1> HIDE DEF n, e, o
<1>3. 0 \in S
  BY <1>2
<1>4. \A i \in 1 .. n : e[i - 1] \in Nat => o(i) \in Nat /\ e[i - 1] <= o(i) /\ o(i) < e[i] /\ e[i] \in Nat
  <2>1. SUFFICES ASSUME NEW i \in 1 .. n, e[i - 1] \in Nat
                 PROVE  o(i) \in Nat /\ e[i - 1] <= o(i) /\ o(i) < e[i] /\ e[i] \in Nat
    OBVIOUS
  <2>2. o(i) \in Nat /\ e[i - 1] <= o(i)
    BY <1>1, <1>2, <2>1, RoundUpIs
  <2> QED
    BY <1>1, <1>2, <2>2
<1>5. ASSUME NEW k \in S PROVE k + 1 \in S
  <2>1. SUFFICES ASSUME k + 1 <= n, NEW i \in 0 .. k + 1 PROVE e[i] \in Nat /\ e[i] <= e[k + 1]
    OBVIOUS
  <2>2. k \in Nat /\ k <= n /\ k + 1 \in 1 .. n /\ (k + 1) - 1 = k /\ k \in 0 .. k
    BY <1>1, <2>1
  <2>3. \A j \in 0 .. k : e[j] \in Nat /\ e[j] <= e[k]
    BY <2>2
  <2>4. e[k + 1] \in Nat /\ e[k] <= e[k + 1] /\ e[k] \in Nat
    BY <1>4, <2>2, <2>3
  <2>5. i = k + 1 \/ i \in 0 .. k
    BY <2>2
  <2> QED
    BY <2>3, <2>4, <2>5
<1>6. S = Nat
  <2> HIDE DEF S
  <2>1. S \in SUBSET Nat
    BY DEF S
  <2> QED
    BY <1>3, <1>5, <2>1, Induction
<1>7. \A k \in 0 .. n : \A i \in 0 .. k : e[i] \in Nat /\ e[i] <= e[k]
  <2>1. SUFFICES ASSUME NEW k \in 0 .. n PROVE \A i \in 0 .. k : e[i] \in Nat /\ e[i] <= e[k]
    OBVIOUS
  <2>2. k \in S /\ k <= n
    BY <1>1, <1>6
  <2> QED
    BY <2>2
<1>8. \A i \in 0 .. n : e[i] \in Nat
  BY <1>1, <1>7
<1>9. \A i \in 1 .. n : i - 1 \in 0 .. n
  BY <1>1
<1>10. \A i \in 1 .. n : o(i) \in Nat /\ e[i - 1] <= o(i) /\ o(i) < e[i]
  BY <1>4, <1>8, <1>9
<1> QED
  BY <1>7, <1>8, <1>10 DEF n, e, o

LEMMA Least ==
    ASSUME NEW S \in SUBSET Nat, S # {}
    PROVE  Min(S) \in S /\ \A i \in S : Min(S) <= i
<1> DEFINE R == OpToRel(<, Nat)
<1>1. IsWellFoundedOn(R, Nat)
  BY NatLessThanWellFounded
<1>2. PICK m \in S : \A y \in S : ~(<<y, m>> \in R)
  <2> HIDE DEF R
  <2> QED
    BY <1>1, WFMin
<1>3. \A y \in S : m <= y
  <2>1. \A y \in S : ~(y < m)
    BY <1>2 DEF OpToRel
  <2> QED
    BY <2>1
<1>4. \E x \in S : \A y \in S : x <= y
  BY <1>3
<1> QED
  BY <1>4, Zenon DEF Min

LEMMA Greatest ==
    ASSUME NEW b \in Nat, NEW g
    PROVE  \A n \in Nat : (\A i \in 1 .. n : g[i] \in Nat) =>
               LET S == {b} \cup {g[i] : i \in 1 .. n} IN Max(S) \in S /\ \A y \in S : y <= Max(S)
<1> DEFINE S(n) == {b} \cup {g[i] : i \in 1 .. n}
           typed(n) == \A i \in 1 .. n : g[i] \in Nat
           N == {n \in Nat : typed(n) => \E x \in S(n) : \A y \in S(n) : y <= x}
<1>1. 0 \in N
  <2>1. S(0) = {b} /\ b <= b
    OBVIOUS
  <2>2. \E x \in S(0) : \A y \in S(0) : y <= x
    BY <2>1
  <2> HIDE DEF S
  <2> QED
    BY <2>2
<1>2. ASSUME NEW n \in N PROVE n + 1 \in N
  <2>1. SUFFICES ASSUME typed(n + 1) PROVE \E x \in S(n + 1) : \A y \in S(n + 1) : y <= x
    OBVIOUS
  <2>2. n \in Nat /\ (\A i \in 1 .. n : i \in 1 .. n + 1) /\ n + 1 \in 1 .. n + 1
    OBVIOUS
  <2>3. typed(n)
    BY <2>1, <2>2
  <2>4. PICK x \in S(n) : \A y \in S(n) : y <= x
    BY <2>3
  <2>5. S(n + 1) = S(n) \cup {g[n + 1]} /\ g[n + 1] \in Nat
    BY <2>1, <2>2
  <2>6. S(n) \subseteq Nat
    BY <2>3
  <2>7. CASE g[n + 1] <= x
    <3>1. x \in S(n + 1) /\ \A y \in S(n + 1) : y <= x
      BY <2>4, <2>5, <2>7
    <3> QED
      BY <3>1
  <2>8. CASE ~(g[n + 1] <= x)
    <3>1. x \in Nat /\ x <= g[n + 1]
      BY <2>4, <2>5, <2>6, <2>8
    <3>2. \A y \in S(n + 1) : y <= g[n + 1]
      <4>1. SUFFICES ASSUME NEW y \in S(n) PROVE y <= g[n + 1]
        BY <2>5
      <4>2. y \in Nat /\ y <= x
        BY <2>4, <2>6
      <4> QED
        BY <2>5, <3>1, <4>2
    <3> QED
      BY <2>5, <3>2
  <2> QED
    BY <2>7, <2>8
<1>3. N = Nat
  <2> HIDE DEF N
  <2>1. N \in SUBSET Nat
    BY DEF N
  <2> QED
    BY <1>1, <1>2, <2>1, Induction
<1>4. ASSUME NEW n \in Nat, typed(n) PROVE Max(S(n)) \in S(n) /\ \A y \in S(n) : y <= Max(S(n))
  <2>1. PICK x \in S(n) : \A y \in S(n) : y <= x
    BY <1>3, <1>4
  <2>2. S(n) \subseteq Nat
    BY <1>4
  <2> HIDE DEF S
  <2>3. \A y \in S(n) : x >= y
    BY <2>1, <2>2
  <2>4. \E z \in S(n) : \A y \in S(n) : z >= y
    BY <2>3
  <2>5. Max(S(n)) \in S(n) /\ \A y \in S(n) : Max(S(n)) >= y
    BY <2>4, Zenon DEF Max
  <2> QED
    BY <2>2, <2>5
<1> QED
  BY <1>4

\* What Place gives.
LEMMA PlaceIs ==
    ASSUME NEW F, IsFields(F), NEW start \in Nat
    PROVE  /\ Place(F, start).offsets = [i \in 1 .. Len(F) |-> Offset(F, start, i)]
           /\ Place(F, start).end = Ends(F, start)[Len(F)]
           /\ Place(F, start).gap = -1 =>
                \A i \in 1 .. Len(F) : Offset(F, start, i) = Ends(F, start)[i - 1]
           /\ Place(F, start).gap # -1 =>
                \E g \in 1 .. Len(F) : /\ Offset(F, start, g) # Ends(F, start)[g - 1]
                                       /\ Place(F, start).gap = Ends(F, start)[g - 1]
<1> DEFINE n == Len(F)
           e == Ends(F, start)
           gaps == {i \in DOMAIN F : Offset(F, start, i) # e[i - 1]}
<1>1. n \in Nat /\ DOMAIN F = 1 .. n
  BY FieldsSeq
<1>2. Place(F, start) = [offsets |-> [i \in 1 .. n |-> Offset(F, start, i)], end |-> e[n],
                         gap |-> IF gaps = {} THEN -1 ELSE e[Min(gaps) - 1]]
  BY <1>1 DEF Place, Offset
<1>3. \A i \in 1 .. n : i - 1 \in 0 .. n
  BY <1>1
<1>4. \A i \in 1 .. n : e[i - 1] \in Nat
  BY <1>3, EndsAscend
<1> HIDE DEF e
<1>5. CASE gaps = {}
  <2>1. \A i \in 1 .. n : Offset(F, start, i) = e[i - 1]
    BY <1>1, <1>5
  <2> QED
    BY <1>2, <1>5, <2>1 DEF e
<1>6. CASE gaps # {}
  <2>1. Min(gaps) \in gaps
    <3>1. gaps \in SUBSET Nat
      BY <1>1
    <3> HIDE DEF gaps
    <3> QED
      BY <1>6, <3>1, Least
  <2>2. Min(gaps) \in 1 .. n /\ Offset(F, start, Min(gaps)) # e[Min(gaps) - 1] /\ e[Min(gaps) - 1] # -1
    BY <1>1, <1>4, <2>1
  <2> HIDE DEF gaps
  <2> QED
    BY <1>2, <1>6, <2>2 DEF e
<1> QED
  BY <1>5, <1>6

\* Fields of equal sizes and alignments end at equal offsets.
LEMMA EndsAgree ==
    ASSUME NEW F, NEW G, IsFields(F), IsFields(G), NEW start \in Nat, NEW k \in Nat,
           k <= Len(F), k <= Len(G),
           \A i \in 1 .. k : F[i].size = G[i].size /\ F[i].align = G[i].align
    PROVE  /\ \A i \in 0 .. k : Ends(F, start)[i] = Ends(G, start)[i]
           /\ \A i \in 1 .. k : Offset(F, start, i) = Offset(G, start, i)
<1> DEFINE e == Ends(F, start)
           h == Ends(G, start)
           S == {j \in Nat : j <= k => e[j] = h[j]}
<1>1. Len(F) \in Nat /\ Len(G) \in Nat
  BY DEF IsFields
<1>2. e[0] = start /\ \A i \in 1 .. Len(F) : e[i] = RoundUp(e[i - 1], F[i].align) + F[i].size
  BY EndsAre DEF Offset
<1>3. h[0] = start /\ \A i \in 1 .. Len(G) : h[i] = RoundUp(h[i - 1], G[i].align) + G[i].size
  BY EndsAre DEF Offset
<1> HIDE DEF e, h
<1>4. 0 \in S
  BY <1>2, <1>3
<1>5. ASSUME NEW j \in S PROVE j + 1 \in S
  <2>1. SUFFICES ASSUME j + 1 <= k PROVE e[j + 1] = h[j + 1]
    OBVIOUS
  <2>2. /\ j \in Nat /\ j + 1 \in 1 .. k /\ j + 1 \in 1 .. Len(F) /\ j + 1 \in 1 .. Len(G)
        /\ (j + 1) - 1 = j /\ e[j] = h[j]
    BY <1>1, <2>1
  <2> QED
    BY <1>2, <1>3, <2>2
<1>6. S = Nat
  <2> HIDE DEF S
  <2>1. S \in SUBSET Nat
    BY DEF S
  <2> QED
    BY <1>4, <1>5, <2>1, Induction
<1>7. \A i \in 0 .. k : e[i] = h[i]
  <2>1. SUFFICES ASSUME NEW i \in 0 .. k PROVE e[i] = h[i]
    OBVIOUS
  <2>2. i \in S /\ i <= k
    BY <1>6
  <2> QED
    BY <2>2
<1>8. \A i \in 1 .. k : i - 1 \in 0 .. k
  OBVIOUS
<1>9. \A i \in 1 .. k : e[i - 1] = h[i - 1]
  BY <1>7, <1>8
<1> QED
  BY <1>7, <1>9 DEF Offset, e, h

Same(F, G) ==
    /\ IsFields(F) /\ IsFields(G) /\ Len(F) = Len(G)
    /\ \A i \in 1 .. Len(F) : F[i].size = G[i].size /\ F[i].align = G[i].align

LEMMA SamePlace ==
    ASSUME NEW F, NEW G, Same(F, G), NEW start \in Nat
    PROVE  /\ Place(F, start).offsets = Place(G, start).offsets
           /\ Place(F, start).end = Place(G, start).end
           /\ MaxAlign(F) = MaxAlign(G) /\ MaxSize(F) = MaxSize(G)
<1> DEFINE n == Len(F)
<1>1. n \in Nat /\ n <= n /\ Len(G) = n /\ n \in 0 .. n /\ IsFields(F) /\ IsFields(G)
  BY DEF Same, IsFields
<1>2. \A i \in 1 .. n : F[i].size = G[i].size /\ F[i].align = G[i].align
  BY DEF Same
<1>3. DOMAIN F = 1 .. n /\ DOMAIN G = 1 .. n
  BY <1>1, FieldsSeq
<1> HIDE DEF n
<1>4. /\ \A i \in 0 .. n : Ends(F, start)[i] = Ends(G, start)[i]
      /\ \A i \in 1 .. n : Offset(F, start, i) = Offset(G, start, i)
  <2>1. n <= Len(F) /\ n <= Len(G)
    BY <1>1 DEF n
  <2> QED
    BY <1>1, <1>2, <2>1, EndsAgree
<1>5. Place(F, start).offsets = Place(G, start).offsets
  <2>1. Place(F, start).offsets = [i \in 1 .. n |-> Offset(F, start, i)]
    BY <1>1, PlaceIs DEF n
  <2>2. Place(G, start).offsets = [i \in 1 .. n |-> Offset(G, start, i)]
    BY <1>1, PlaceIs
  <2> QED
    BY <1>4, <2>1, <2>2
<1>6. Place(F, start).end = Place(G, start).end
  <2>1. Place(F, start).end = Ends(F, start)[n]
    BY <1>1, PlaceIs DEF n
  <2>2. Place(G, start).end = Ends(G, start)[n]
    BY <1>1, PlaceIs
  <2> QED
    BY <1>1, <1>4, <2>1, <2>2
<1>7. {F[i].align : i \in DOMAIN F} = {G[i].align : i \in DOMAIN G}
  BY <1>2, <1>3
<1>8. {F[i].size : i \in DOMAIN F} = {G[i].size : i \in DOMAIN G}
  BY <1>2, <1>3
<1> QED
  BY <1>5, <1>6, <1>7, <1>8 DEF MaxAlign, MaxSize

\* Alignments of which one divides the other.
IsChain(C) ==
    /\ C \subseteq Nat \ {0} /\ 1 \in C
    /\ \A a, b \in C : Multiple(a, b) \/ Multiple(b, a)

AlignedIn(F, C) == IsFields(F) /\ \A i \in 1 .. Len(F) : F[i].align \in C

LEMMA MaxAlignIs ==
    ASSUME NEW F, NEW C, IsChain(C), AlignedIn(F, C)
    PROVE  /\ MaxAlign(F) \in C
           /\ MaxAlign(F) \in Nat \ {0}
           /\ \A i \in 1 .. Len(F) : Multiple(MaxAlign(F), F[i].align) /\ F[i].align \in Nat \ {0}
<1> DEFINE n == Len(F)
           g == [i \in 1 .. n |-> F[i].align]
           S == {1} \cup {g[i] : i \in 1 .. n}
           A == Max(S)
<1>1. n \in Nat /\ DOMAIN F = 1 .. n /\ IsFields(F) /\ \A i \in 1 .. n : F[i].align \in C
  BY FieldsSeq DEF AlignedIn
<1>2. C \subseteq Nat \ {0} /\ 1 \in C
  BY DEF IsChain
<1>3. \A i \in 1 .. n : g[i] = F[i].align /\ g[i] \in C
  BY <1>1
<1>4. MaxAlign(F) = A
  <2>1. {F[i].align : i \in DOMAIN F} = {g[i] : i \in 1 .. n}
    BY <1>1, <1>3
  <2> HIDE DEF g, n
  <2> QED
    BY <2>1 DEF MaxAlign
<1>5. A \in S /\ \A y \in S : y <= A
  <2>1. (\A i \in 1 .. n : g[i] \in Nat) /\ 1 \in Nat
    BY <1>2, <1>3
  <2> HIDE DEF n, g
  <2>2. \A b \in Nat : LET Z == {b} \cup {g[i] : i \in 1 .. n} IN Max(Z) \in Z /\ \A y \in Z : y <= Max(Z)
    BY <1>1, <2>1, Greatest
  <2> QED
    BY <2>1, <2>2
<1> HIDE DEF A
<1>6. A \in C
  BY <1>2, <1>3, <1>5
<1>7. ASSUME NEW i \in 1 .. n PROVE Multiple(A, F[i].align)
  <2> DEFINE a == F[i].align
  <2>1. a \in C /\ a <= A
    BY <1>3, <1>5, <1>7
  <2>2. Multiple(A, a) \/ Multiple(a, A)
    BY <1>6, <2>1 DEF IsChain
  <2>3. a \in Nat \ {0} /\ A \in Nat \ {0}
    BY <1>2, <1>6, <2>1
  <2> HIDE DEF a
  <2>4. ASSUME Multiple(a, A) PROVE a = A
    <3>1. PICK q \in Nat : a = q * A
      BY <2>4 DEF Multiple
    <3>2. q # 0
      BY <2>3, <3>1
    <3>3. ~(1 < q)
      <4>1. 1 < q => 1 * A + A <= q * A
        BY <2>3, NextTimes
      <4> QED
        BY <2>1, <2>3, <3>1, <4>1
    <3>4. q = 1
      BY <3>2, <3>3
    <3> QED
      BY <2>3, <3>1, <3>4
  <2>5. Multiple(a, a)
    <3>1. a = 1 * a
      BY <2>3
    <3> QED
      BY <3>1 DEF Multiple
  <2> QED
    BY <2>2, <2>4, <2>5 DEF a
<1> QED
  BY <1>1, <1>2, <1>4, <1>6, <1>7

LEMMA MaxSizeIs ==
    ASSUME NEW F, IsFields(F), Len(F) # 0
    PROVE  MaxSize(F) \in Nat \ {0}
<1> DEFINE n == Len(F)
           g == [i \in 1 .. n |-> F[i].size]
           S == {g[1]} \cup {g[i] : i \in 1 .. n}
<1>1. n \in Nat /\ DOMAIN F = 1 .. n /\ 1 \in 1 .. n /\ \A i \in 1 .. n : F[i].size \in Nat \ {0}
  BY FieldsSeq DEF IsFields, IsField
<1>2. \A i \in 1 .. n : g[i] = F[i].size
  OBVIOUS
<1>3. S = {F[i].size : i \in DOMAIN F}
  BY <1>1, <1>2
<1>4. Max(S) \in S
  <2>1. g[1] \in Nat /\ \A i \in 1 .. n : g[i] \in Nat
    BY <1>1, <1>2
  <2> HIDE DEF n, g
  <2> QED
    BY <1>1, <2>1, Greatest
<1> QED
  BY <1>1, <1>3, <1>4 DEF MaxSize

\* The first fields of some, and one more field.
LEMMA FirstFields ==
    ASSUME NEW F, IsFields(F), NEW k \in 0 .. Len(F)
    PROVE  LET G == SubSeq(F, 1, k)
           IN  IsFields(G) /\ Len(G) = k /\ \A i \in 1 .. k : G[i] = F[i]
<1> DEFINE G == SubSeq(F, 1, k)
           n == Len(F)
<1>1. n \in Nat /\ k \in Nat /\ k <= n
  BY FieldsSeq
<1>2. G = [i \in 1 .. k |-> F[i]] /\ Len(G) = k
  <2>1. F \in Seq({F[i] : i \in 1 .. n})
    BY FieldsSeq
  <2>2. 1 \in 1 .. Len(F) + 1 /\ k \in 1 - 1 .. Len(F) /\ k - 1 + 1 = k
    BY <1>1
  <2>3. G = [i \in 1 .. k - 1 + 1 |-> F[1 + i - 1]] /\ Len(G) = k - 1 + 1
    BY <1>1, <2>1, <2>2, SubSeqProperties DEF SubSeq
  <2>4. \A i \in 1 .. k : 1 + i - 1 = i
    BY <1>1
  <2> QED
    BY <2>2, <2>3, <2>4
<1>3. \A i \in 1 .. k : G[i] = F[i] /\ i \in 1 .. n
  BY <1>1, <1>2
<1>4. \A i \in 1 .. k : IsField(G[i])
  BY <1>3 DEF IsFields
<1>5. G = [i \in 1 .. k |-> G[i]]
  BY <1>2
<1> HIDE DEF G
<1> QED
  BY <1>1, <1>2, <1>3, <1>4, <1>5 DEF IsFields, G

LEMMA OneMoreField ==
    ASSUME NEW F, IsFields(F), NEW f, IsField(f)
    PROVE  LET G == Append(F, f)
           IN  /\ IsFields(G) /\ Len(G) = Len(F) + 1 /\ G[Len(F) + 1] = f
               /\ \A i \in 1 .. Len(F) : G[i] = F[i]
<1> DEFINE G == Append(F, f)
           n == Len(F)
           X == {F[i] : i \in 1 .. n} \cup {f}
<1>1. n \in Nat /\ F \in Seq({F[i] : i \in 1 .. n}) /\ \A i \in 1 .. n : IsField(F[i])
  BY FieldsSeq DEF IsFields
<1>2. F \in Seq(X)
  BY <1>1
<1>3. Len(G) = n + 1 /\ G[n + 1] = f /\ \A i \in 1 .. n : G[i] = F[i]
  BY <1>1, <1>2
<1>4. G \in Seq(X)
  BY <1>2
<1>5. G = [i \in 1 .. n + 1 |-> G[i]]
  <2> HIDE DEF G, X, n
  <2> QED
    BY <1>1, <1>3, <1>4
<1>6. \A i \in 1 .. n + 1 : IsField(G[i])
  <2>1. \A i \in 1 .. n + 1 : i = n + 1 \/ i \in 1 .. n
    BY <1>1
  <2> QED
    BY <1>1, <1>3, <2>1
<1> HIDE DEF G, n
<1> QED
  BY <1>1, <1>3, <1>5, <1>6 DEF IsFields, G, n

LEMMA PlaceEnd ==
    ASSUME NEW F, IsFields(F), NEW start \in Nat
    PROVE  Place(F, start).end = Ends(F, start)[Len(F)]
BY PlaceIs

LEMMA PlaceGap ==
    ASSUME NEW F, IsFields(F)
    PROVE  /\ Place(F, 0).gap = -1 => \A i \in 1 .. Len(F) : Offset(F, 0, i) = Ends(F, 0)[i - 1]
           /\ Place(F, 0).gap # -1 =>
                \E g \in 1 .. Len(F) : /\ Offset(F, 0, g) # Ends(F, 0)[g - 1]
                                       /\ Place(F, 0).gap = Ends(F, 0)[g - 1]
<1>1. 0 \in Nat
  OBVIOUS
<1> QED
  BY <1>1, PlaceIs

\* The bytes of field i.
FieldBytes(F, i) == Offset(F, 0, i) .. Offset(F, 0, i) + F[i].size - 1

\* Where the fields before the first one of unknown size are, they are in all.
LEMMA KnownPrefixIs ==
    ASSUME NEW F, IsFields(F)
    PROVE  \E k \in 0 .. Len(F) :
              /\ IsFields(KnownPrefix(F)) /\ Len(KnownPrefix(F)) = k
              /\ \A i \in 0 .. k : Ends(KnownPrefix(F), 0)[i] = Ends(F, 0)[i]
              /\ \A i \in 1 .. k : Offset(KnownPrefix(F), 0, i) = Offset(F, 0, i)
<1> DEFINE n == Len(F)
           unknown == {i \in DOMAIN F : ~F[i].known}
           G == KnownPrefix(F)
<1>1. n \in Nat /\ DOMAIN F = 1 .. n /\ F \in Seq({F[i] : i \in 1 .. n})
  BY FieldsSeq
<1>2. PICK k \in 0 .. n : IsFields(G) /\ Len(G) = k /\ \A i \in 1 .. k : G[i] = F[i]
  <2>1. CASE unknown = {}
    <3>1. G = F
      BY <2>1 DEF KnownPrefix
    <3>2. n \in 0 .. n
      BY <1>1
    <3> QED
      BY <3>1, <3>2
  <2>2. CASE unknown # {}
    <3>1. Min(unknown) \in unknown
      <4>1. unknown \in SUBSET Nat
        BY <1>1
      <4> HIDE DEF unknown
      <4> QED
        BY <2>2, <4>1, Least
    <3>2. Min(unknown) - 1 \in 0 .. n
      BY <1>1, <3>1
    <3>3. G = SubSeq(F, 1, Min(unknown) - 1)
      BY <2>2 DEF KnownPrefix
    <3> HIDE DEF G, unknown
    <3> QED
      BY <3>2, <3>3, FirstFields
  <2> QED
    BY <2>1, <2>2
<1> HIDE DEF G
<1>3. /\ \A i \in 0 .. k : Ends(G, 0)[i] = Ends(F, 0)[i]
      /\ \A i \in 1 .. k : Offset(G, 0, i) = Offset(F, 0, i)
  <2>1. k \in Nat /\ k <= Len(F) /\ k <= Len(G)
    BY <1>1, <1>2
  <2> QED
    BY <1>2, <2>1, EndsAgree
<1> QED
  BY <1>2, <1>3 DEF G

LEMMA GapIsFree ==
    ASSUME NEW F, IsFields(F), GapByteOffset(F) # -1
    PROVE  /\ \A i \in 1 .. Len(F) : GapByteOffset(F) \notin FieldBytes(F, i)
           /\ GapByteOffset(F) \in Nat /\ GapByteOffset(F) < Place(F, 0).end
<1> DEFINE n == Len(F)
           e == Ends(F, 0)
           o(i) == Offset(F, 0, i)
           at == GapByteOffset(F)
           K == KnownPrefix(F)
<1>1. n \in Nat /\ n \in 0 .. n /\ Place(F, 0).end = e[n]
  BY FieldsSeq, PlaceEnd
<1>2. PICK k \in 0 .. n :
         /\ IsFields(K) /\ Len(K) = k
         /\ \A i \in 0 .. k : Ends(K, 0)[i] = e[i]
         /\ \A i \in 1 .. k : Offset(K, 0, i) = o(i)
  BY KnownPrefixIs
<1>3. PICK g \in 1 .. k : Offset(K, 0, g) # Ends(K, 0)[g - 1] /\ at = Ends(K, 0)[g - 1]
  <2>1. at # -1 /\ at = Place(K, 0).gap
    BY DEF GapByteOffset
  <2> HIDE DEF K, at
  <2> QED
    BY <1>2, <2>1, PlaceGap
<1>4. g \in 1 .. n /\ g - 1 \in 0 .. k /\ o(g) # e[g - 1] /\ at = e[g - 1]
  BY <1>1, <1>2, <1>3
<1>5. /\ \A i \in 0 .. n : e[i] \in Nat
      /\ \A i \in 1 .. n : o(i) \in Nat /\ e[i - 1] <= o(i) /\ o(i) < e[i]
      /\ \A j \in 0 .. n : \A i \in 0 .. j : e[i] <= e[j]
  BY EndsAscend
<1>6. \A i \in 1 .. n : e[i] = o(i) + F[i].size /\ F[i].size \in Nat
  BY EndsAre DEF IsFields, IsField
<1> HIDE DEF n, e, o, at, K
<1>7. at \in Nat /\ at < o(g) /\ o(g) < e[g]
  <2>1. g - 1 \in 0 .. n
    BY <1>1, <1>4
  <2> QED
    BY <1>4, <1>5, <2>1
<1>8. at < e[n]
  <2>1. g \in 0 .. n
    BY <1>1, <1>4
  <2>2. e[g] <= e[n] /\ e[g] \in Nat /\ e[n] \in Nat /\ o(g) \in Nat
    BY <1>1, <1>4, <1>5, <2>1
  <2> QED
    BY <1>7, <2>2
<1>9. ASSUME NEW i \in 1 .. n PROVE at \notin o(i) .. o(i) + F[i].size - 1
  <2>1. CASE i < g
    <3>1. g - 1 \in 0 .. n /\ i \in 0 .. g - 1
      BY <1>1, <1>4, <2>1
    <3>2. e[i] <= at
      BY <1>4, <1>5, <3>1
    <3>3. e[i] = o(i) + F[i].size /\ e[i] \in Nat /\ o(i) \in Nat /\ F[i].size \in Nat
      BY <1>5, <1>6, <3>1
    <3> QED
      BY <1>7, <3>2, <3>3
  <2>2. CASE g <= i
    <3>1. g = i \/ (g \in 0 .. i - 1 /\ i - 1 \in 0 .. n)
      BY <1>1, <1>4, <2>2
    <3>2. g = i \/ (e[g] <= e[i - 1] /\ e[g] \in Nat /\ e[i - 1] \in Nat)
      <4>1. g \in 0 .. n
        BY <1>1, <1>4
      <4> QED
        BY <1>5, <3>1, <4>1
    <3>3. e[i - 1] <= o(i) /\ o(i) \in Nat /\ o(g) \in Nat
      BY <1>4, <1>5
    <3>4. at < o(i)
      BY <1>7, <3>2, <3>3
    <3> QED
      BY <1>7, <3>3, <3>4
  <2>3. i \in Nat /\ g \in Nat
    BY <1>1, <1>4
  <2> QED
    BY <2>1, <2>2, <2>3
<1> QED
  BY <1>1, <1>7, <1>8, <1>9 DEF FieldBytes, n, o, at

LEMMA SuffixIsFree ==
    ASSUME NEW F, NEW C, IsChain(C), AlignedIn(F, C)
    PROVE  /\ SuffixByteOffset(F) \in Nat
           /\ \A i \in 1 .. Len(F) : SuffixByteOffset(F) \notin FieldBytes(F, i)
           /\ Place(F, 0).end \in Nat /\ Place(F, 0).end <= SuffixByteOffset(F)
<1> DEFINE n == Len(F)
           e == Ends(F, 0)
           at == SuffixByteOffset(F)
<1>1. IsFields(F)
  BY DEF AlignedIn
<1>2. n \in Nat /\ n \in 0 .. n /\ Place(F, 0).end = e[n]
  BY <1>1, FieldsSeq, PlaceEnd
<1>3. /\ \A i \in 0 .. n : e[i] \in Nat
      /\ \A i \in 1 .. n : Offset(F, 0, i) \in Nat
      /\ \A j \in 0 .. n : \A i \in 0 .. j : e[i] <= e[j]
  BY <1>1, EndsAscend
<1>4. e[n] \in Nat /\ at \in Nat /\ e[n] <= at
  <2>1. MaxAlign(F) \in Nat \ {0}
    BY MaxAlignIs
  <2>2. at = RoundUp(e[n], MaxAlign(F)) /\ e[n] \in Nat
    BY <1>2, <1>3 DEF SuffixByteOffset
  <2> HIDE DEF at, e
  <2> QED
    BY <2>1, <2>2, RoundUpIs
<1>5. \A i \in 1 .. n : e[i] = Offset(F, 0, i) + F[i].size /\ F[i].size \in Nat
  BY <1>1, EndsAre DEF IsFields, IsField
<1> HIDE DEF e, at, n
<1>6. ASSUME NEW i \in 1 .. n PROVE at \notin FieldBytes(F, i)
  <2>1. i \in 0 .. n
    BY <1>2
  <2>2. e[i] <= e[n] /\ e[i] \in Nat
    BY <1>2, <1>3, <2>1
  <2>3. Offset(F, 0, i) + F[i].size - 1 < at
    BY <1>3, <1>4, <1>5, <2>2
  <2> QED
    BY <1>3, <1>4, <1>5, <2>3 DEF FieldBytes
<1> QED
  BY <1>2, <1>4, <1>6 DEF at, n

LEMMA AtLeastOne ==
    ASSUME NEW x \in Nat
    PROVE  Max({1, x}) = IF x = 0 THEN 1 ELSE x
<1> DEFINE S == {1, x}
           y == IF x = 0 THEN 1 ELSE x
<1>1. y \in S /\ \A z \in S : y >= z
  OBVIOUS
<1>2. \A w \in S : (\A z \in S : w >= z) => w = y
  OBVIOUS
<1> HIDE DEF S, y
<1>3. Max(S) = y
  BY <1>1, <1>2 DEF Max
<1> QED
  BY <1>3 DEF S, y

\* Without padding, fields that begin one byte later end at most an alignment later.
LEMMA OneByteLater ==
    ASSUME NEW F, NEW C, IsChain(C), AlignedIn(F, C),
           \A i \in 1 .. Len(F) : Offset(F, 0, i) = Ends(F, 0)[i - 1]
    PROVE  \E d \in 1 .. MaxAlign(F) : Ends(F, 1)[Len(F)] = Ends(F, 0)[Len(F)] + d
<1> DEFINE n == Len(F)
           A == MaxAlign(F)
           e == Ends(F, 0)
           h == Ends(F, 1)
           S == {k \in Nat : k <= n => \E d \in 1 .. A : h[k] = e[k] + d}
<1>1. IsFields(F) /\ n \in Nat /\ A \in Nat \ {0} /\ 0 \in Nat /\ 1 \in Nat
  BY MaxAlignIs DEF AlignedIn, IsFields
<1>2. \A i \in 1 .. n : F[i].align \in Nat \ {0} /\ Multiple(A, F[i].align) /\ F[i].size \in Nat
  BY MaxAlignIs, <1>1 DEF IsFields, IsField
<1>3. e[0] = 0 /\ \A i \in 1 .. n : e[i] = Offset(F, 0, i) + F[i].size
  BY <1>1, EndsAre
<1>4. h[0] = 1 /\ \A i \in 1 .. n : h[i] = RoundUp(h[i - 1], F[i].align) + F[i].size
  BY <1>1, EndsAre DEF Offset
<1>5. \A i \in 1 .. n : RoundUp(e[i - 1], F[i].align) = e[i - 1]
  BY DEF Offset
<1>6. \A i \in 0 .. n : e[i] \in Nat
  BY <1>1, EndsAscend
<1>7. \A i \in 1 .. n : Offset(F, 0, i) = e[i - 1]
  OBVIOUS
<1> HIDE DEF n, A, e, h
<1>8. 0 \in S
  <2>1. 1 \in 1 .. A /\ h[0] = e[0] + 1
    BY <1>1, <1>3, <1>4
  <2> QED
    BY <2>1
<1>9. ASSUME NEW k \in S PROVE k + 1 \in S
  <2>1. SUFFICES ASSUME k + 1 <= n PROVE \E d \in 1 .. A : h[k + 1] = e[k + 1] + d
    OBVIOUS
  <2>2. k \in Nat /\ k <= n /\ k + 1 \in 1 .. n /\ (k + 1) - 1 = k /\ k \in 0 .. n
    BY <1>1, <2>1
  <2>3. PICK d \in 1 .. A : h[k] = e[k] + d
    BY <2>2
  <2> DEFINE a == F[k + 1].align
             s == F[k + 1].size
             r == RoundUp(d, a)
  <2>4. a \in Nat \ {0} /\ Multiple(A, a) /\ s \in Nat /\ e[k] \in Nat /\ d \in Nat /\ d <= A
    BY <1>1, <1>2, <1>6, <2>2
  <2>5. Multiple(e[k], a)
    <3>1. RoundUp(e[k], a) = e[k]
      BY <1>5, <2>2
    <3> HIDE DEF a
    <3> QED
      BY <2>4, <3>1, RoundUpIs
  <2>6. h[k + 1] = RoundUp(e[k] + d, a) + s /\ e[k + 1] = e[k] + s
    BY <1>3, <1>4, <1>7, <2>2, <2>3
  <2> HIDE DEF a, s, r
  <2>7. RoundUp(e[k] + d, a) = e[k] + r
    BY <2>4, <2>5, RoundUpShift DEF r
  <2>8. r \in Nat /\ d <= r /\ r <= A
    BY <1>1, <2>4, RoundUpIs, RoundUpWithin DEF r
  <2>9. r \in 1 .. A /\ h[k + 1] = e[k + 1] + r
    BY <1>1, <2>3, <2>4, <2>6, <2>7, <2>8
  <2> QED
    BY <2>9
<1>10. S = Nat
  <2> HIDE DEF S
  <2>1. S \in SUBSET Nat
    BY DEF S
  <2> QED
    BY <1>8, <1>9, <2>1, Induction
<1>11. \E d \in 1 .. A : h[n] = e[n] + d
  BY <1>1, <1>10
<1> QED
  BY <1>11 DEF n, A, e, h

\* The structure type has a byte more if the liveness is in it, or if it has nothing.
LEMMA ABIFieldsAre ==
    ASSUME NEW F, NEW C, IsChain(C), AlignedIn(F, C), NEW l
    PROVE  /\ MaxAlign(ABIFields(F, l)) = MaxAlign(F)
           /\ IF l.kind = "suffix" \/ F = <<>> THEN Place(ABIFields(F, l), 0).end = Place(F, 0).end + 1
              ELSE ABIFields(F, l) = F
<1> DEFINE n == Len(F)
           G == Append(F, Byte)
<1>1. IsFields(F) /\ n \in Nat /\ DOMAIN F = 1 .. n
  BY FieldsSeq DEF AlignedIn
<1>2. IsField(Byte) /\ Byte.align = 1 /\ Byte.size = 1
  BY DEF IsField, Byte
<1>3. IsFields(G) /\ Len(G) = n + 1 /\ G[n + 1] = Byte /\ \A i \in 1 .. n : G[i] = F[i]
  BY <1>1, <1>2, OneMoreField
<1>4. DOMAIN G = 1 .. n + 1
  <2>1. DOMAIN G = 1 .. Len(G)
    BY <1>3, FieldsSeq
  <2> QED
    BY <1>3, <2>1
<1>5. ABIFields(F, l) = IF l.kind = "suffix" \/ F = <<>> THEN G ELSE F
  <2>1. ASSUME F = <<>> PROVE <<Byte>> = G
    BY <2>1
  <2>2. G # <<>>
    <3> HIDE DEF G
    <3>1. G = <<>> <=> Len(G) = 0
      BY <1>3, FieldsSeq
    <3> QED
      BY <1>1, <1>3, <3>1
  <2> QED
    BY <2>1, <2>2 DEF ABIFields, AtLeastOneByte
<1> HIDE DEF G
<1>6. MaxAlign(G) = MaxAlign(F)
  <2>1. {1} \cup {G[i].align : i \in DOMAIN G} = {1} \cup {F[i].align : i \in DOMAIN F}
    <3>1. \A i \in 1 .. n + 1 : i = n + 1 \/ i \in 1 .. n
      BY <1>1
    <3>2. \A i \in 1 .. n : i \in 1 .. n + 1
      BY <1>1
    <3> HIDE DEF n
    <3>3. ASSUME NEW i \in 1 .. n + 1 PROVE G[i].align \in {1} \cup {F[j].align : j \in 1 .. n}
      BY <1>2, <1>3, <3>1
    <3>4. ASSUME NEW i \in 1 .. n PROVE F[i].align \in {G[j].align : j \in 1 .. n + 1}
      BY <1>3, <3>2
    <3> QED
      BY <1>1, <1>4, <3>3, <3>4
  <2> QED
    BY <2>1 DEF MaxAlign
<1>7. Place(G, 0).end = Place(F, 0).end + 1
  <2>1. Place(G, 0).end = Ends(G, 0)[n + 1] /\ Place(F, 0).end = Ends(F, 0)[n]
    BY <1>1, <1>3, PlaceEnd
  <2>2. Ends(G, 0)[n + 1] = RoundUp(Ends(G, 0)[n], 1) + 1
    <3>1. n + 1 \in 1 .. Len(G) /\ (n + 1) - 1 = n
      BY <1>1, <1>3
    <3>2. \A i \in 1 .. Len(G) : Ends(G, 0)[i] = RoundUp(Ends(G, 0)[i - 1], G[i].align) + G[i].size
      BY <1>3, EndsAre DEF Offset
    <3> QED
      BY <1>2, <1>3, <3>1, <3>2
  <2>3. Ends(G, 0)[n] = Ends(F, 0)[n] /\ Ends(F, 0)[n] \in Nat
    <3>1. n \in Nat /\ n <= Len(F) /\ n <= Len(G) /\ n \in 0 .. n /\ 0 \in Nat
      BY <1>1, <1>3
    <3>2. \A i \in 1 .. n : F[i].size = G[i].size /\ F[i].align = G[i].align
      BY <1>3
    <3>3. \A i \in 0 .. n : Ends(F, 0)[i] = Ends(G, 0)[i]
      <4> HIDE DEF n
      <4> QED
        BY <1>1, <1>3, <3>1, <3>2, EndsAgree
    <3>4. \A i \in 0 .. n : Ends(F, 0)[i] \in Nat
      BY <1>1, EndsAscend
    <3> QED
      BY <3>1, <3>3, <3>4
  <2>4. RoundUp(Ends(F, 0)[n], 1) = Ends(F, 0)[n]
    BY <2>3 DEF RoundUp
  <2> QED
    BY <2>1, <2>2, <2>3, <2>4
<1> QED
  BY <1>5, <1>6, <1>7

KnownSizeOf(F, l) == RoundUp(Place(ABIFields(F, l), 0).end, MaxAlign(ABIFields(F, l)))

WithoutPadding(F) == Place(F, 0).gap = -1 /\ RoundUp(Place(F, 0).end, MaxAlign(F)) = Place(F, 0).end

\* The size of the structure type, and the size that the module adds up.
LEMMA SizesAre ==
    ASSUME NEW F, NEW C, IsChain(C), AlignedIn(F, C), NEW l
    PROVE  /\ KnownSizeOf(F, l) \in Nat \ {0} /\ Place(F, 0).end <= KnownSizeOf(F, l)
           /\ l.kind = "suffix" => Place(F, 0).end < KnownSizeOf(F, l)
           /\ EmittedSizeOf(F, l) \in Nat \ {0}
           /\ (l.kind = "suffix" => WithoutPadding(F)) => KnownSizeOf(F, l) = EmittedSizeOf(F, l)
<1> DEFINE n == Len(F)
           A == MaxAlign(F)
           E == Place(F, 0).end
           E1 == Place(F, 1).end
<1>1. IsFields(F) /\ n \in Nat /\ A \in Nat \ {0} /\ (F = <<>> <=> n = 0)
  BY MaxAlignIs, FieldsSeq DEF AlignedIn
<1>2. /\ E = Ends(F, 0)[n] /\ E1 = Ends(F, 1)[n] /\ Ends(F, 0)[0] = 0
      /\ \A i \in 0 .. n : Ends(F, 0)[i] \in Nat /\ Ends(F, 1)[i] \in Nat
      /\ \A j \in 0 .. n : \A i \in 0 .. j : Ends(F, 0)[i] <= Ends(F, 0)[j] /\ Ends(F, 1)[i] <= Ends(F, 1)[j]
      /\ \A i \in 1 .. n : Ends(F, 0)[i - 1] <= Offset(F, 0, i) /\ Offset(F, 0, i) < Ends(F, 0)[i]
                           /\ Offset(F, 0, i) \in Nat
  <2>1. 0 \in Nat /\ 1 \in Nat
    OBVIOUS
  <2>2. E = Ends(F, 0)[n] /\ E1 = Ends(F, 1)[n] /\ Ends(F, 0)[0] = 0
    BY <1>1, <2>1, PlaceEnd, EndsAre
  <2> HIDE DEF E, E1
  <2> QED
    BY <1>1, <2>1, <2>2, EndsAscend
<1>3. E \in Nat /\ E1 \in Nat /\ (n = 0 => E = 0) /\ (n # 0 => E # 0)
  <2>1. n \in 0 .. n
    BY <1>1
  <2>2. ASSUME n # 0 PROVE E # 0
    <3>1. n \in 1 .. n /\ n - 1 \in 0 .. n
      BY <1>1, <2>2
    <3> HIDE DEF n, E
    <3> QED
      BY <1>2, <3>1
  <2> HIDE DEF n, E, E1
  <2> QED
    BY <1>2, <2>1, <2>2
<1>4. /\ MaxAlign(ABIFields(F, l)) = A
      /\ IF l.kind = "suffix" \/ F = <<>> THEN Place(ABIFields(F, l), 0).end = E + 1 ELSE ABIFields(F, l) = F
  BY ABIFieldsAre
<1>5. KnownSizeOf(F, l) = IF l.kind = "suffix" \/ n = 0 THEN RoundUp(E + 1, A) ELSE RoundUp(E, A)
  BY <1>1, <1>4 DEF KnownSizeOf
<1>6. EmittedSizeOf(F, l) = IF l.kind = "suffix" THEN RoundUp(Max({1, E1}), A) ELSE RoundUp(Max({1, E}), A)
  BY DEF EmittedSizeOf
<1>7. Max({1, E}) = (IF E = 0 THEN 1 ELSE E) /\ Max({1, E1}) = IF E1 = 0 THEN 1 ELSE E1
  BY <1>3, AtLeastOne
<1>8. ASSUME WithoutPadding(F) PROVE \E d \in 1 .. A : E1 = E + d
  <2>1. \A i \in 1 .. n : Offset(F, 0, i) = Ends(F, 0)[i - 1]
    BY <1>1, <1>8, PlaceGap DEF WithoutPadding
  <2>2. \E d \in 1 .. A : Ends(F, 1)[n] = Ends(F, 0)[n] + d
    BY <2>1, OneByteLater
  <2> QED
    BY <1>2, <2>2
<1>9. ASSUME WithoutPadding(F) PROVE RoundUp(E, A) = E /\ Multiple(E, A)
  <2>1. RoundUp(E, A) = E
    BY <1>9 DEF WithoutPadding
  <2> HIDE DEF E, A
  <2> QED
    BY <1>1, <1>3, <2>1, RoundUpIs
<1>10. KnownSizeOf(F, l) \in Nat \ {0} /\ E <= KnownSizeOf(F, l) /\ (l.kind = "suffix" => E < KnownSizeOf(F, l))
  <2> HIDE DEF E, A, n
  <2>1. E + 1 <= RoundUp(E + 1, A) /\ RoundUp(E + 1, A) \in Nat /\ E <= RoundUp(E, A) /\ RoundUp(E, A) \in Nat
    <3>1. E + 1 \in Nat
      BY <1>3
    <3> QED
      BY <1>1, <1>3, <3>1, RoundUpIs
  <2> QED
    BY <1>3, <1>5, <2>1
<1>11. EmittedSizeOf(F, l) \in Nat \ {0}
  <2> HIDE DEF E, E1, A, n
  <2>1. \A x \in Nat : Max({1, x}) \in Nat \ {0}
    <3>1. SUFFICES ASSUME NEW x \in Nat PROVE Max({1, x}) \in Nat \ {0}
      OBVIOUS
    <3>2. Max({1, x}) = IF x = 0 THEN 1 ELSE x
      BY AtLeastOne
    <3> QED
      BY <3>2
  <2>2. PICK x \in {E, E1} : EmittedSizeOf(F, l) = RoundUp(Max({1, x}), A)
    BY <1>6
  <2>3. x \in Nat
    BY <1>3
  <2>4. PICK y : y = Max({1, x})
    OBVIOUS
  <2>5. y \in Nat \ {0} /\ EmittedSizeOf(F, l) = RoundUp(y, A)
    BY <2>1, <2>2, <2>3, <2>4
  <2>6. y <= RoundUp(y, A) /\ RoundUp(y, A) \in Nat
    BY <1>1, <2>5, RoundUpIs
  <2> QED
    BY <2>5, <2>6
<1>12. ASSUME l.kind # "suffix" PROVE KnownSizeOf(F, l) = EmittedSizeOf(F, l)
  <2> HIDE DEF E, E1, A, n
  <2>1. CASE n = 0
    <3>1. E = 0 /\ E + 1 = 1
      BY <1>3, <2>1
    <3> QED
      BY <1>5, <1>6, <1>7, <1>12, <2>1, <3>1
  <2>2. CASE n # 0
    BY <1>3, <1>5, <1>6, <1>7, <1>12, <2>2
  <2> QED
    BY <2>1, <2>2
<1>13. ASSUME l.kind = "suffix", WithoutPadding(F) PROVE KnownSizeOf(F, l) = EmittedSizeOf(F, l)
  <2>1. PICK d \in 1 .. A : E1 = E + d
    BY <1>8, <1>13
  <2>2. Multiple(E, A)
    BY <1>9, <1>13
  <2> HIDE DEF E, E1, A, n
  <2>3. d \in Nat /\ 1 <= d /\ d <= A /\ E1 # 0
    BY <1>1, <1>3, <2>1
  <2>4. KnownSizeOf(F, l) = RoundUp(E + 1, A) /\ EmittedSizeOf(F, l) = RoundUp(E + d, A)
    BY <1>5, <1>6, <1>7, <1>13, <2>1, <2>3
  <2>5. RoundUp(E + 1, A) = E + RoundUp(1, A) /\ RoundUp(E + d, A) = E + RoundUp(d, A)
    BY <1>1, <1>3, <2>2, <2>3, RoundUpShift
  <2>6. RoundUp(1, A) = A /\ RoundUp(d, A) = A
    <3>1. Multiple(A, A)
      <4>1. A = 1 * A
        BY <1>1
      <4> QED
        BY <4>1 DEF Multiple
    <3>2. 1 <= A /\ A < 1 + A /\ d <= A /\ A < d + A /\ 1 \in Nat
      BY <1>1, <2>3
    <3> QED
      BY <1>1, <2>3, <3>1, <3>2, RoundUpUnique
  <2> QED
    BY <2>4, <2>5, <2>6
<1> QED
  BY <1>10, <1>11, <1>12, <1>13

\* The size of a variant: whether the union is rounded up makes no difference.
LEMMA VariantSizesAre ==
    ASSUME NEW F, NEW C, IsChain(C), AlignedIn(F, C), Len(F) # 0
    PROVE  /\ EmittedVariantSize(F) \in Nat \ {0}
           /\ LET u == UnionOf(F) IN /\ u.align = MaxAlign(F)
                                     /\ RoundUp(RoundUp(1, u.align) + u.size, u.align) = EmittedVariantSize(F)
<1> DEFINE A == MaxAlign(F)
           M == MaxSize(F)
           x == RoundUp(1, A)
           r == RoundUp(M, A)
<1>1. A \in Nat \ {0} /\ M \in Nat \ {0} /\ 1 \in Nat
  BY MaxAlignIs, MaxSizeIs DEF AlignedIn
<1>2. UnionOf(F).align = A /\ UnionOf(F).size = r
  BY DEF UnionOf
<1> HIDE DEF A, M
<1>3. x \in Nat /\ Multiple(x, A) /\ r \in Nat /\ Multiple(r, A) /\ M <= r
  BY <1>1, RoundUpIs
<1>4. EmittedVariantSize(F) = RoundUp(x + M, A)
  BY DEF EmittedVariantSize, ValueOffset, A, M
<1> HIDE DEF x, r
<1>5. RoundUp(x + M, A) = x + r
  BY <1>1, <1>3, RoundUpShift DEF r
<1>6. RoundUp(x + r, A) = x + r
  <2>1. Multiple(x + r, A) /\ x + r \in Nat
    BY <1>1, <1>3, MultipleSum
  <2> QED
    BY <1>1, <2>1, RoundUpMultiple
<1>7. x + r \in Nat \ {0}
  BY <1>1, <1>3
<1>8. RoundUp(RoundUp(1, UnionOf(F).align) + UnionOf(F).size, UnionOf(F).align) = RoundUp(x + r, A)
  BY <1>2 DEF x, r
<1> QED
  BY <1>2, <1>4, <1>5, <1>6, <1>7, <1>8 DEF A

\* Every type is seen through its members: as no type is a part of itself, there is
\* one way to see them all.
Members(T, t) == {T[t].members[i] : i \in DOMAIN T[t].members}

FieldsOf(T, f, t, m) == [i \in DOMAIN T[t].members |-> f[T[t].members[i], LaidOutBy(T, t, m)]]

SeenBy(T, f, t, m) == ViewOf(T, t, m, FieldsOf(T, f, t, m))

Solves(T, f, S) ==
    /\ S \subseteq DOMAIN T /\ \A t \in S : Members(T, t) \subseteq S
    /\ \A t \in S, m \in Modules : f[t, m] = SeenBy(T, f, t, m)

Alike(f, g, t) == \A m \in Modules : f[t, m] = g[t, m]

\* A type of S whose members are all outside S.
LEMMA Bottom ==
    ASSUME NEW T, IsTable(T), NEW S \in SUBSET DOMAIN T, S # {}
    PROVE  \E t \in S : \A u \in Members(T, t) : u \in DOMAIN T /\ u \notin S
<1>1. PICK t \in S : \A i \in DOMAIN T[t].members : T[t].members[i] \notin S
  BY DEF IsTable
<1>2. T[t].members \in Seq(DOMAIN T)
  BY DEF IsTable
<1>3. \A i \in DOMAIN T[t].members : T[t].members[i] \in DOMAIN T
  BY <1>2
<1> QED
  BY <1>1, <1>3 DEF Members

LEMMA SeenAlike ==
    ASSUME NEW T, NEW f, NEW g, NEW t \in DOMAIN T, NEW m \in Modules, IsTable(T),
           \A u \in Members(T, t) : Alike(f, g, u)
    PROVE  SeenBy(T, f, t, m) = SeenBy(T, g, t, m)
<1>1. LaidOutBy(T, t, m) \in Modules
  BY DEF LaidOutBy, IsTable
<1>2. \A i \in DOMAIN T[t].members :
        f[T[t].members[i], LaidOutBy(T, t, m)] = g[T[t].members[i], LaidOutBy(T, t, m)]
  BY <1>1 DEF Members, Alike
<1>3. [i \in DOMAIN T[t].members |-> f[T[t].members[i], LaidOutBy(T, t, m)]]
        = [i \in DOMAIN T[t].members |-> g[T[t].members[i], LaidOutBy(T, t, m)]]
  BY <1>2
<1> QED
  BY <1>3 DEF SeenBy, FieldsOf

LEMMA SolutionsAgree ==
    ASSUME NEW T, IsTable(T), NEW f, NEW R, NEW g, NEW S, Solves(T, f, R), Solves(T, g, S)
    PROVE  \A t \in R \cap S : Alike(f, g, t)
<1> DEFINE bad == {t \in R \cap S : ~Alike(f, g, t)}
<1>1. SUFFICES ASSUME bad # {} PROVE FALSE
  OBVIOUS
<1>2. bad \in SUBSET DOMAIN T
  BY DEF Solves
<1>3. PICK t \in bad : \A u \in Members(T, t) : u \notin bad
  <2> HIDE DEF bad
  <2> QED
    BY <1>1, <1>2, Bottom
<1>4. t \in R /\ t \in S /\ t \in DOMAIN T
  BY <1>2
<1>5. \A u \in Members(T, t) : Alike(f, g, u)
  <2>1. \A u \in Members(T, t) : u \in R \cap S
    BY <1>4 DEF Solves
  <2> QED
    BY <1>3, <2>1
<1>6. ASSUME NEW m \in Modules PROVE f[t, m] = g[t, m]
  <2>1. f[t, m] = SeenBy(T, f, t, m) /\ g[t, m] = SeenBy(T, g, t, m)
    BY <1>4 DEF Solves
  <2>2. SeenBy(T, f, t, m) = SeenBy(T, g, t, m)
    BY <1>4, <1>5, SeenAlike
  <2> QED
    BY <2>1, <2>2
<1> QED
  BY <1>3, <1>6 DEF Alike

LEMMA SolutionExists ==
    ASSUME NEW T, IsTable(T)
    PROVE  \E f : f = [x \in (DOMAIN T) \X Modules |-> SeenBy(T, f, x[1], x[2])]
<1> DEFINE Solved(t) == \E f, S : Solves(T, f, S) /\ t \in S
           G == {t \in DOMAIN T : Solved(t)}
           Value(t, m, y) == \E f, S : Solves(T, f, S) /\ t \in S /\ y = f[t, m]
           V == [x \in (DOMAIN T) \X Modules |-> CHOOSE y : Value(x[1], x[2], y)]
<1>1. ASSUME NEW f, NEW S, Solves(T, f, S), NEW t \in S, NEW m \in Modules
      PROVE  V[t, m] = f[t, m]
  <2>1. t \in DOMAIN T /\ <<t, m>> \in (DOMAIN T) \X Modules
    BY <1>1 DEF Solves
  <2>2. Value(t, m, f[t, m])
    BY <1>1
  <2>3. \A y : Value(t, m, y) => y = f[t, m]
    <3>1. SUFFICES ASSUME NEW y, Value(t, m, y) PROVE y = f[t, m]
      OBVIOUS
    <3>2. PICK g, R : Solves(T, g, R) /\ t \in R /\ y = g[t, m]
      BY <3>1
    <3>3. \A x \in R \cap S : Alike(g, f, x)
      <4> HIDE DEF Value, V
      <4> QED
        BY <1>1, <3>2, SolutionsAgree
    <3>4. t \in R \cap S
      BY <3>2
    <3> QED
      BY <3>2, <3>3, <3>4 DEF Alike
  <2>4. V[t, m] = CHOOSE y : Value(t, m, y)
    <3> HIDE DEF Value
    <3> QED
      BY <2>1
  <2> HIDE DEF Value, V
  <2> QED
    BY <2>2, <2>3, <2>4
<1>0. V = [x \in (DOMAIN T) \X Modules |-> V[x]]
  <2> HIDE DEF Value
  <2> QED
    OBVIOUS
<1> HIDE DEF V
<1>2. Solves(T, V, G)
  <2>1. ASSUME NEW t \in G PROVE Members(T, t) \subseteq G
    <3>1. PICK f, S : Solves(T, f, S) /\ t \in S
      OBVIOUS
    <3>2. \A u \in Members(T, t) : u \in S /\ u \in DOMAIN T
      BY <3>1 DEF Solves
    <3> QED
      BY <3>1, <3>2
  <2>2. ASSUME NEW t \in G, NEW m \in Modules PROVE V[t, m] = SeenBy(T, V, t, m)
    <3>1. PICK f, S : Solves(T, f, S) /\ t \in S
      OBVIOUS
    <3>2. V[t, m] = f[t, m] /\ f[t, m] = SeenBy(T, f, t, m)
      BY <1>1, <3>1 DEF Solves
    <3>3. \A u \in Members(T, t) : Alike(f, V, u)
      <4>1. \A u \in Members(T, t) : u \in S
        BY <3>1 DEF Solves
      <4> QED
        BY <1>1, <3>1, <4>1 DEF Alike
    <3>4. SeenBy(T, f, t, m) = SeenBy(T, V, t, m)
      BY <3>3, SeenAlike
    <3> QED
      BY <3>2, <3>4
  <2>3. G \subseteq DOMAIN T
    OBVIOUS
  <2> HIDE DEF G
  <2> QED
    BY <2>1, <2>2, <2>3 DEF Solves
<1>3. G = DOMAIN T
  <2> DEFINE bad == DOMAIN T \ G
  <2>1. SUFFICES ASSUME bad # {} PROVE FALSE
    OBVIOUS
  <2>2. bad \in SUBSET DOMAIN T
    OBVIOUS
  <2> HIDE DEF G
  <2>3. PICK t \in bad : \A u \in Members(T, t) : u \in DOMAIN T /\ u \notin bad
    <3> HIDE DEF bad
    <3> QED
      BY <2>1, <2>2, Bottom
  <2>4. Members(T, t) \subseteq G /\ t \in DOMAIN T /\ t \notin G
    BY <2>3
  <2> DEFINE W == [x \in (DOMAIN T) \X Modules |->
                      IF x[1] = t THEN SeenBy(T, V, t, x[2]) ELSE V[x]]
  <2>5. G \subseteq DOMAIN T
    BY DEF G
  <2>6. \A u \in G, o \in Modules : W[u, o] = V[u, o]
    BY <2>4, <2>5
  <2>7. \A o \in Modules : W[t, o] = SeenBy(T, V, t, o)
    BY <2>4
  <2> HIDE DEF W
  <2>8. \A u \in G \cup {t} : Members(T, u) \subseteq G \cup {t}
    BY <1>2, <2>4 DEF Solves
  <2>9. ASSUME NEW u \in G \cup {t}, NEW o \in Modules PROVE W[u, o] = SeenBy(T, W, u, o)
    <3>1. Members(T, u) \subseteq G /\ u \in DOMAIN T
      BY <1>2, <2>4, <2>5 DEF Solves
    <3>2. SeenBy(T, W, u, o) = SeenBy(T, V, u, o)
      <4>1. \A w \in Members(T, u) : Alike(W, V, w)
        BY <2>6, <3>1 DEF Alike
      <4> QED
        BY <3>1, <4>1, SeenAlike
    <3>3. W[u, o] = SeenBy(T, V, u, o)
      BY <1>2, <2>6, <2>7 DEF Solves
    <3> QED
      BY <3>2, <3>3
  <2>10. Solves(T, W, G \cup {t})
    BY <2>4, <2>5, <2>8, <2>9 DEF Solves
  <2>11. t \in G
    BY <2>4, <2>10 DEF G
  <2> QED
    BY <2>4, <2>11
<1>4. \A x \in (DOMAIN T) \X Modules : V[x] = SeenBy(T, V, x[1], x[2])
  <2>1. \A t \in DOMAIN T, m \in Modules : V[t, m] = SeenBy(T, V, t, m)
    <3> HIDE DEF G
    <3> QED
      BY <1>2, <1>3 DEF Solves
  <2>2. \A x \in (DOMAIN T) \X Modules : x = <<x[1], x[2]>> /\ x[1] \in DOMAIN T /\ x[2] \in Modules
    OBVIOUS
  <2> QED
    BY <2>1, <2>2
<1>5. V = [x \in (DOMAIN T) \X Modules |-> SeenBy(T, V, x[1], x[2])]
  BY <1>0, <1>4
<1> QED
  BY <1>5

LEMMA ViewIs ==
    ASSUME NEW T, IsTable(T), NEW t \in DOMAIN T, NEW m \in Modules
    PROVE  View(T)[t, m] = SeenBy(T, View(T), t, m)
<1>1. \E f : f = [x \in (DOMAIN T) \X Modules |-> SeenBy(T, f, x[1], x[2])]
  BY SolutionExists
<1>2. \E f : f = [x \in (DOMAIN T) \X Modules |-> SeenBy(T, f, x[1], x[2])] /\ View(T) = f
  BY <1>1, Zenon DEF View, SeenBy, FieldsOf
<1>3. View(T) = [x \in (DOMAIN T) \X Modules |-> SeenBy(T, View(T), x[1], x[2])]
  BY <1>2
<1>4. <<t, m>> \in (DOMAIN T) \X Modules
  OBVIOUS
<1> HIDE DEF View
<1> QED
  BY <1>3, <1>4

Aligns(T) == {1} \cup {T[x].align : x \in {y \in DOMAIN T : T[y].kind \in {"prim", "ref"}}}

LEMMA AlignsChain ==
    ASSUME NEW T, IsTable(T)
    PROVE  IsChain(Aligns(T))
<1> DEFINE S == {y \in DOMAIN T : T[y].kind \in {"prim", "ref"}}
<1>1. \A x \in S : T[x].align \in Nat \ {0}
  BY DEF IsTable
<1>2. Aligns(T) \subseteq Nat \ {0} /\ 1 \in Aligns(T)
  BY <1>1 DEF Aligns
<1>3. \A a \in Nat \ {0}, b \in Nat : Divides(a, b) => Multiple(b, a)
  <2>1. SUFFICES ASSUME NEW a \in Nat \ {0}, NEW b \in Nat, b % a = 0 PROVE Multiple(b, a)
    BY DEF Divides
  <2>2. PICK q, r : q = b \div a /\ r = b % a
    OBVIOUS
  <2>3. q \in Nat /\ b = a * q + r /\ a * q = q * a /\ q * a \in Nat
    BY <2>2
  <2>4. q \in Nat /\ b = q * a
    BY <2>1, <2>2, <2>3
  <2> QED
    BY <2>4 DEF Multiple
<1>4. \A b \in Nat : Multiple(b, 1)
  <2>1. \A b \in Nat : b = b * 1
    OBVIOUS
  <2> QED
    BY <2>1 DEF Multiple
<1>5. \A x, y \in S : Divides(T[x].align, T[y].align) \/ Divides(T[y].align, T[x].align)
  BY DEF IsTable
<1>6. ASSUME NEW a \in Aligns(T), NEW b \in Aligns(T) PROVE Multiple(a, b) \/ Multiple(b, a)
  <2>1. a \in Nat \ {0} /\ b \in Nat \ {0}
    BY <1>2
  <2>2. CASE a = 1 \/ b = 1
    BY <1>4, <2>1, <2>2
  <2>3. CASE a # 1 /\ b # 1
    <3>1. PICK x \in S, y \in S : a = T[x].align /\ b = T[y].align
      BY <2>3 DEF Aligns
    <3>2. Divides(a, b) \/ Divides(b, a)
      BY <1>5, <3>1
    <3> QED
      BY <1>3, <2>1, <3>2
  <2> QED
    BY <2>2, <2>3
<1> QED
  BY <1>2, <1>6 DEF IsChain

\* What the indicator is.
LEMMA LivenessIs ==
    ASSUME NEW T, NEW t, NEW F
    PROVE  LET l == LivenessIndicator(T, t, F)
           IN  /\ ~T[t].destroy /\ ~T[t].move => l.kind # "suffix"
               /\ l.kind = "gap" => l.at = GapByteOffset(F) /\ GapByteOffset(F) # -1
               /\ l.kind = "suffix" => l.at = SuffixByteOffset(F)
<1> DEFINE l == LivenessIndicator(T, t, F)
           needed == T[t].destroy \/ T[t].move
           valid == {i \in DOMAIN F : T[T[t].members[i]].kind = "ref"}
           gap == GapByteOffset(F)
<1>1. CASE ~needed
  <2>1. l.kind = "none"
    BY <1>1 DEF LivenessIndicator
  <2> QED
    BY <2>1
<1>2. CASE needed /\ T[t].custom
  <2>1. l.kind = "custom"
    BY <1>2 DEF LivenessIndicator
  <2> HIDE DEF l, needed
  <2> QED
    BY <1>2, <2>1 DEF l, needed
<1>3. CASE needed /\ ~T[t].custom /\ valid # {}
  <2>1. l.kind = "member"
    BY <1>3 DEF LivenessIndicator
  <2> HIDE DEF l, valid
  <2> QED
    BY <1>3, <2>1 DEF l
<1>4. CASE needed /\ ~T[t].custom /\ valid = {} /\ gap # -1
  <2>1. l = [kind |-> "gap", at |-> gap]
    BY <1>4 DEF LivenessIndicator
  <2> HIDE DEF l, valid
  <2> QED
    BY <1>4, <2>1 DEF l
<1>5. CASE needed /\ ~T[t].custom /\ valid = {} /\ gap = -1
  <2>1. l = [kind |-> "suffix", at |-> SuffixByteOffset(F)]
    BY <1>5 DEF LivenessIndicator
  <2> HIDE DEF l, valid
  <2> QED
    BY <1>5, <2>1 DEF l
<1> HIDE DEF l, needed, valid, gap
<1> QED
  BY <1>1, <1>2, <1>3, <1>4, <1>5

\* What a module sees, by the kind of the type.
LEMMA SimpleSeen ==
    ASSUME NEW T, NEW t, NEW m, NEW F, T[t].kind \in {"prim", "ref"}
    PROVE  LET v == ViewOf(T, t, m, F)
           IN  v.known \in BOOLEAN /\ v.size = T[t].size /\ v.align = T[t].align /\ v.offsets = <<>>
BY DEF ViewOf

AllKnown(F) == \A i \in DOMAIN F : F[i].known

IsObjectView(T, t, m, F, v) ==
    LET l == LivenessIndicator(T, t, F)
    IN  /\ v.known \in BOOLEAN
        /\ v.known <=> AllKnown(F) /\ (T[t].kind = "class" => m = T[t].home)
        /\ v.size = IF v.known THEN KnownSizeOf(F, l) ELSE EmittedSizeOf(F, l)
        /\ v.align = MaxAlign(F) /\ v.offsets = Place(F, 0).offsets /\ v.liveness = l

LEMMA ObjectSeen ==
    ASSUME NEW T, NEW t, NEW m, NEW F, NEW C, IsChain(C), AlignedIn(F, C), T[t].kind \in {"class", "datatype"}
    PROVE  IsObjectView(T, t, m, F, ViewOf(T, t, m, F))
<1> DEFINE l == LivenessIndicator(T, t, F)
           known == (\A i \in DOMAIN F : F[i].known) /\ (T[t].kind = "class" => m = T[t].home)
<1>1. MaxAlign(ABIFields(F, l)) = MaxAlign(F)
  BY ABIFieldsAre
<1>2. T[t].kind \notin {"prim", "ref"} /\ T[t].kind # "variant"
  OBVIOUS
<1>3. CASE known
  <2>1. ViewOf(T, t, m, F) =
          [known |-> known, size |-> RoundUp(Place(ABIFields(F, l), 0).end, MaxAlign(ABIFields(F, l))),
           align |-> MaxAlign(ABIFields(F, l)), offsets |-> Place(F, 0).offsets, liveness |-> l]
    <3> HIDE DEF l
    <3> QED
      BY <1>2, <1>3 DEF ViewOf, l
  <2> HIDE DEF l
  <2>2. known <=> TRUE
    BY <1>3
  <2>3. AllKnown(F) /\ (T[t].kind = "class" => m = T[t].home)
    BY <1>3 DEF AllKnown
  <2> HIDE DEF known
  <2>4. PICK b \in {TRUE} : b = known
    BY <2>2
  <2> QED
    BY <1>1, <2>1, <2>3, <2>4 DEF KnownSizeOf, IsObjectView, l
<1>4. CASE ~known
  <2>1. ViewOf(T, t, m, F) =
          [known |-> known, size |-> EmittedSizeOf(F, l),
           align |-> MaxAlign(F), offsets |-> Place(F, 0).offsets, liveness |-> l]
    <3> HIDE DEF l
    <3> QED
      BY <1>2, <1>4 DEF ViewOf, l
  <2> HIDE DEF l
  <2>2. known <=> FALSE
    BY <1>4
  <2>3. ~(AllKnown(F) /\ (T[t].kind = "class" => m = T[t].home))
    BY <1>4 DEF AllKnown
  <2> HIDE DEF known
  <2>4. PICK b \in {FALSE} : b = known
    BY <2>2
  <2> QED
    BY <2>1, <2>3, <2>4 DEF IsObjectView, l
<1> QED
  BY <1>3, <1>4

LEMMA VariantSeen ==
    ASSUME NEW T, NEW t, NEW m, NEW F, NEW C, IsChain(C), AlignedIn(F, C), Len(F) # 0, T[t].kind = "variant"
    PROVE  LET v == ViewOf(T, t, m, F)
           IN  /\ v.known = AllKnown(F) /\ v.size = EmittedVariantSize(F)
               /\ v.align = MaxAlign(F) /\ v.offsets = <<ValueOffset(F)>>
<1> DEFINE l == LivenessIndicator(T, t, F)
           known == (\A i \in DOMAIN F : F[i].known) /\ (T[t].kind = "class" => m = T[t].home)
           u == UnionOf(F)
<1>1. u.align = MaxAlign(F) /\ RoundUp(RoundUp(1, u.align) + u.size, u.align) = EmittedVariantSize(F)
  BY VariantSizesAre
<1>2. known = AllKnown(F)
  BY DEF AllKnown
<1>3. CASE known
  <2>1. ViewOf(T, t, m, F) =
          [known |-> known, size |-> RoundUp(RoundUp(1, u.align) + u.size, u.align),
           align |-> u.align, offsets |-> <<RoundUp(1, u.align)>>, liveness |-> l]
    <3> HIDE DEF l, u
    <3> QED
      BY <1>3 DEF ViewOf, l, u
  <2> HIDE DEF l, u, known
  <2> QED
    BY <1>1, <1>2, <2>1 DEF ValueOffset
<1>4. CASE ~known
  <2>1. ViewOf(T, t, m, F) =
          [known |-> known, size |-> EmittedVariantSize(F),
           align |-> MaxAlign(F), offsets |-> <<ValueOffset(F)>>, liveness |-> l]
    <3> HIDE DEF l
    <3> QED
      BY <1>4 DEF ViewOf, l
  <2> HIDE DEF l, known
  <2> QED
    BY <1>2, <2>1
<1> QED
  BY <1>3, <1>4

\* Every view is that of a field, aligned as some simple type is.
IsSeen(T, t, m) == IsField(View(T)[t, m]) /\ View(T)[t, m].align \in Aligns(T)

SeenFields(T, t, m) == FieldsOf(T, View(T), t, m)

LEMMA FieldsSeen ==
    ASSUME NEW T, IsTable(T), NEW t \in DOMAIN T, NEW m \in Modules
    PROVE  /\ Len(SeenFields(T, t, m)) = Len(T[t].members) /\ Len(T[t].members) \in Nat
           /\ DOMAIN SeenFields(T, t, m) = 1 .. Len(T[t].members) /\ DOMAIN T[t].members = 1 .. Len(T[t].members)
           /\ \A i \in 1 .. Len(T[t].members) :
                /\ T[t].members[i] \in DOMAIN T /\ T[t].members[i] \in Members(T, t)
                /\ SeenFields(T, t, m)[i] = View(T)[T[t].members[i], LaidOutBy(T, t, m)]
           /\ SeenFields(T, t, m) = [i \in 1 .. Len(T[t].members) |-> SeenFields(T, t, m)[i]]
           /\ LaidOutBy(T, t, m) \in Modules
<1> DEFINE F == SeenFields(T, t, m)
           n == Len(T[t].members)
<1>1. T[t].members \in Seq(DOMAIN T) /\ T[t].home \in Modules
  BY DEF IsTable
<1>2. n \in Nat /\ DOMAIN T[t].members = 1 .. n /\ \A i \in 1 .. n : T[t].members[i] \in DOMAIN T
  BY <1>1
<1>3. F = [i \in 1 .. n |-> View(T)[T[t].members[i], LaidOutBy(T, t, m)]]
  BY <1>2 DEF SeenFields, FieldsOf
<1> HIDE DEF F, n
<1>4. \A i \in 1 .. n : F[i] = View(T)[T[t].members[i], LaidOutBy(T, t, m)]
  BY <1>3
<1>5. F = [i \in 1 .. n |-> F[i]] /\ DOMAIN F = 1 .. n
  BY <1>3
<1>6. Len(F) = n
  <2>1. F \in [1 .. n -> {F[i] : i \in 1 .. n}]
    BY <1>5
  <2> QED
    BY <1>2, <2>1, LenProperties, SeqDef
<1>7. \A i \in 1 .. n : T[t].members[i] \in Members(T, t)
  BY <1>2 DEF Members
<1>8. LaidOutBy(T, t, m) \in Modules
  BY <1>1 DEF LaidOutBy
<1> QED
  BY <1>2, <1>4, <1>5, <1>6, <1>7, <1>8 DEF F, n

LEMMA FieldsAligned ==
    ASSUME NEW T, IsTable(T), NEW t \in DOMAIN T, NEW m \in Modules,
           \A u \in Members(T, t), o \in Modules : IsSeen(T, u, o)
    PROVE  AlignedIn(SeenFields(T, t, m), Aligns(T))
<1> DEFINE F == SeenFields(T, t, m)
           n == Len(T[t].members)
<1>1. /\ Len(F) = n /\ n \in Nat /\ F = [i \in 1 .. n |-> F[i]] /\ LaidOutBy(T, t, m) \in Modules
      /\ \A i \in 1 .. n : T[t].members[i] \in Members(T, t) /\ F[i] = View(T)[T[t].members[i], LaidOutBy(T, t, m)]
  BY FieldsSeen
<1> HIDE DEF F, n
<1>2. \A i \in 1 .. n : IsField(F[i]) /\ F[i].align \in Aligns(T)
  BY <1>1 DEF IsSeen
<1> QED
  BY <1>1, <1>2 DEF AlignedIn, IsFields, F

LEMMA VariantHasFields ==
    ASSUME NEW T, IsTable(T), NEW t \in DOMAIN T, NEW m \in Modules, T[t].kind = "variant"
    PROVE  Len(SeenFields(T, t, m)) # 0
<1>1. T[t].members \in Seq(DOMAIN T) /\ T[t].members # <<>>
  BY DEF IsTable
<1>2. Len(T[t].members) # 0
  BY <1>1, EmptySeq
<1> QED
  BY <1>2, FieldsSeen

LEMMA AllSeen ==
    ASSUME NEW T, IsTable(T)
    PROVE  \A t \in DOMAIN T, m \in Modules : IsSeen(T, t, m)
<1> DEFINE bad == {t \in DOMAIN T : ~ \A m \in Modules : IsSeen(T, t, m)}
<1>1. SUFFICES ASSUME bad # {} PROVE FALSE
  OBVIOUS
<1>2. bad \in SUBSET DOMAIN T
  OBVIOUS
<1>3. PICK t \in bad : \A u \in Members(T, t) : u \in DOMAIN T /\ u \notin bad
  <2> HIDE DEF bad
  <2> QED
    BY <1>1, <1>2, Bottom
<1>4. \A u \in Members(T, t), o \in Modules : IsSeen(T, u, o)
  BY <1>3
<1>5. t \in DOMAIN T
  OBVIOUS
<1>6. ASSUME NEW m \in Modules PROVE IsSeen(T, t, m)
  <2> DEFINE F == SeenFields(T, t, m)
             v == ViewOf(T, t, m, F)
             C == Aligns(T)
  <2>1. View(T)[t, m] = v
    BY <1>5, ViewIs DEF SeenBy, SeenFields
  <2>2. IsChain(C) /\ AlignedIn(F, C)
    BY <1>4, <1>5, AlignsChain, FieldsAligned
  <2>3. T[t].kind \in {"prim", "ref", "class", "datatype", "variant"}
    BY <1>5 DEF IsTable
  <2>4. CASE T[t].kind \in {"prim", "ref"}
    <3>1. T[t].size \in Nat \ {0} /\ T[t].align \in Nat \ {0}
      BY <1>5, <2>4 DEF IsTable
    <3>2. T[t].align \in C
      BY <1>5, <2>4 DEF Aligns
    <3> HIDE DEF F, C
    <3>3. v.known \in BOOLEAN /\ v.size = T[t].size /\ v.align = T[t].align
      BY <2>4, SimpleSeen
    <3> HIDE DEF v
    <3> QED
      BY <2>1, <3>1, <3>2, <3>3 DEF IsSeen, IsField, C
  <2>5. CASE T[t].kind \in {"class", "datatype"}
    <3> DEFINE l == LivenessIndicator(T, t, F)
    <3> HIDE DEF F, C
    <3>1. /\ v.known \in BOOLEAN
          /\ v.size = IF v.known THEN KnownSizeOf(F, l) ELSE EmittedSizeOf(F, l)
          /\ v.align = MaxAlign(F)
      <4>1. IsObjectView(T, t, m, F, v)
        BY <2>2, <2>5, ObjectSeen
      <4> HIDE DEF v
      <4> QED
        BY <4>1 DEF IsObjectView
    <3>2. KnownSizeOf(F, l) \in Nat \ {0} /\ EmittedSizeOf(F, l) \in Nat \ {0}
      BY <2>2, SizesAre
    <3>3. MaxAlign(F) \in C /\ MaxAlign(F) \in Nat \ {0}
      BY <2>2, MaxAlignIs
    <3> HIDE DEF v, l
    <3> QED
      BY <2>1, <3>1, <3>2, <3>3 DEF IsSeen, IsField, C
  <2>6. CASE T[t].kind = "variant"
    <3>1. Len(F) # 0
      BY <1>5, <2>6, VariantHasFields
    <3> HIDE DEF F, C
    <3>2. v.known = AllKnown(F) /\ v.size = EmittedVariantSize(F) /\ v.align = MaxAlign(F)
      BY <2>2, <2>6, <3>1, VariantSeen
    <3>3. EmittedVariantSize(F) \in Nat \ {0}
      BY <2>2, <3>1, VariantSizesAre
    <3>4. MaxAlign(F) \in C /\ MaxAlign(F) \in Nat \ {0}
      BY <2>2, MaxAlignIs
    <3>5. AllKnown(F) \in BOOLEAN
      BY DEF AllKnown
    <3> HIDE DEF v
    <3> QED
      BY <2>1, <3>2, <3>3, <3>4, <3>5 DEF IsSeen, IsField, C
  <2> QED
    BY <2>3, <2>4, <2>5, <2>6
<1> QED
  BY <1>3, <1>6

LEMMA FieldsAre ==
    ASSUME NEW T, IsTable(T), NEW t \in DOMAIN T, NEW m \in Modules
    PROVE  /\ View(T)[t, m] = ViewOf(T, t, m, SeenFields(T, t, m))
           /\ IsChain(Aligns(T)) /\ AlignedIn(SeenFields(T, t, m), Aligns(T))
<1>1. View(T)[t, m] = ViewOf(T, t, m, SeenFields(T, t, m))
  BY ViewIs DEF SeenBy, SeenFields
<1>2. \A u \in Members(T, t), o \in Modules : IsSeen(T, u, o)
  <2>1. Members(T, t) \subseteq DOMAIN T
    BY DEF Members, IsTable
  <2> QED
    BY <2>1, AllSeen
<1> QED
  BY <1>1, <1>2, AlignsChain, FieldsAligned

LEMMA SuffixPadded ==
    ASSUME NEW T, IsTable(T), NEW t \in DOMAIN T, T[t].kind = "class",
           ~SuffixWithPadding(T, View(T), t),
           LivenessIndicator(T, t, SeenFields(T, t, T[t].home)).kind = "suffix"
    PROVE  WithoutPadding(SeenFields(T, t, T[t].home))
<1> DEFINE h == T[t].home
           F == SeenFields(T, t, h)
<1>1. h \in Modules
  BY DEF IsTable
<1>2. View(T)[t, h].liveness = LivenessIndicator(T, t, F)
  <2>1. View(T)[t, h] = ViewOf(T, t, h, F) /\ IsChain(Aligns(T)) /\ AlignedIn(F, Aligns(T))
    BY <1>1, FieldsAre
  <2> HIDE DEF F, h
  <2>2. T[t].kind \in {"class", "datatype"}
    OBVIOUS
  <2>3. ViewOf(T, t, h, F).liveness = LivenessIndicator(T, t, F)
    <3>1. IsObjectView(T, t, h, F, ViewOf(T, t, h, F))
      BY <2>1, <2>2, ObjectSeen
    <3> QED
      BY <3>1 DEF IsObjectView
  <2> QED
    BY <2>1, <2>3
<1>3. F = [i \in DOMAIN T[t].members |-> View(T)[T[t].members[i], h]]
  BY DEF SeenFields, FieldsOf, LaidOutBy
<1> HIDE DEF F
<1> QED
  BY <1>2, <1>3 DEF SuffixWithPadding, WithoutPadding, F

LEMMA LivenessFree ==
    ASSUME NEW T, IsTable(T), NEW t \in DOMAIN T, T[t].kind = "class"
    PROVE  LivenessByteFree(T, View(T), t)
<1> DEFINE h == T[t].home
           F == SeenFields(T, t, h)
           n == Len(T[t].members)
           own == View(T)[t, h]
           l == LivenessIndicator(T, t, F)
           C == Aligns(T)
<1>1. h \in Modules /\ LaidOutBy(T, t, h) = h
  BY DEF IsTable, LaidOutBy
<1>2. own = ViewOf(T, t, h, F) /\ IsChain(C) /\ AlignedIn(F, C)
  BY <1>1, FieldsAre
<1>3. /\ Len(F) = n /\ n \in Nat
      /\ \A i \in 1 .. n : F[i] = View(T)[T[t].members[i], h]
  <2> HIDE DEF h, F, n
  <2>1. /\ Len(SeenFields(T, t, h)) = Len(T[t].members) /\ Len(T[t].members) \in Nat
        /\ \A i \in 1 .. Len(T[t].members) :
             SeenFields(T, t, h)[i] = View(T)[T[t].members[i], LaidOutBy(T, t, h)]
    BY <1>1, FieldsSeen
  <2> QED
    BY <1>1, <2>1 DEF F, n
<1>4. IsFields(F)
  BY <1>2 DEF AlignedIn
<1> HIDE DEF F, C, h
<1>5. /\ own.size = IF own.known THEN KnownSizeOf(F, l) ELSE EmittedSizeOf(F, l)
      /\ own.offsets = Place(F, 0).offsets /\ own.liveness = l
  <2> DEFINE x == ViewOf(T, t, h, F)
  <2>1. /\ x.size = IF x.known THEN KnownSizeOf(F, l) ELSE EmittedSizeOf(F, l)
        /\ x.offsets = Place(F, 0).offsets /\ x.liveness = l
    <3>1. T[t].kind \in {"class", "datatype"}
      OBVIOUS
    <3>2. IsObjectView(T, t, h, F, x)
      BY <1>2, <3>1, ObjectSeen
    <3> HIDE DEF x, l
    <3> QED
      BY <3>2 DEF IsObjectView, l
  <2> HIDE DEF x, own, l
  <2>2. own = x
    BY <1>2 DEF x
  <2> QED
    BY <2>1, <2>2
<1>6. own.offsets = [i \in 1 .. n |-> Offset(F, 0, i)]
  <2>1. Place(F, 0).offsets = [i \in 1 .. Len(F) |-> Offset(F, 0, i)]
    <3>1. 0 \in Nat
      OBVIOUS
    <3> QED
      BY <1>4, <3>1, PlaceIs
  <2> QED
    BY <1>3, <1>5, <2>1
<1> HIDE DEF own, l, n
<1>7. ASSUME NEW i \in 1 .. n PROVE MemberBytes(T, View(T), t, i) = FieldBytes(F, i)
  <2>1. View(T)[t, T[t].home].offsets[i] = Offset(F, 0, i)
    BY <1>6 DEF own, h
  <2>2. View(T)[T[t].members[i], T[t].home].size = F[i].size
    BY <1>3 DEF h
  <2> QED
    BY <2>1, <2>2 DEF MemberBytes, FieldBytes
<1>8. DOMAIN own.offsets = 1 .. n
  BY <1>6
<1>9. ASSUME l.kind = "gap"
      PROVE  (\A i \in 1 .. n : l.at \notin FieldBytes(F, i)) /\ l.at < own.size
  <2>1. l.at = GapByteOffset(F) /\ GapByteOffset(F) # -1
    BY <1>9, LivenessIs DEF l
  <2>2. /\ \A i \in 1 .. n : l.at \notin FieldBytes(F, i)
        /\ l.at \in Nat /\ l.at < Place(F, 0).end
    BY <1>3, <1>4, <2>1, GapIsFree
  <2>3. own.size = KnownSizeOf(F, l) /\ KnownSizeOf(F, l) \in Nat /\ Place(F, 0).end <= KnownSizeOf(F, l)
    BY <1>2, <1>5, <1>9, SizesAre
  <2>4. Place(F, 0).end \in Nat
    BY <1>2, SuffixIsFree
  <2> QED
    BY <2>2, <2>3, <2>4
<1>10. ASSUME l.kind = "suffix"
       PROVE  /\ \A i \in 1 .. n : l.at \notin FieldBytes(F, i)
              /\ ~SuffixWithPadding(T, View(T), t) => l.at < own.size
  <2>1. l.at = SuffixByteOffset(F)
    BY <1>10, LivenessIs DEF l
  <2>2. \A i \in 1 .. n : l.at \notin FieldBytes(F, i)
    BY <1>2, <1>3, <2>1, SuffixIsFree
  <2>3. ASSUME ~SuffixWithPadding(T, View(T), t) PROVE l.at < own.size
    <3>1. WithoutPadding(F)
      BY <1>10, <2>3, SuffixPadded DEF l, F, h
    <3>2. l.at = Place(F, 0).end
      BY <2>1, <3>1 DEF WithoutPadding, SuffixByteOffset
    <3>3. own.size = KnownSizeOf(F, l) /\ Place(F, 0).end < KnownSizeOf(F, l)
      BY <1>2, <1>5, <1>10, <3>1, SizesAre
    <3> QED
      BY <3>2, <3>3
  <2> QED
    BY <2>2, <2>3
<1>11. l.kind \in {"gap", "suffix"} =>
          /\ \A i \in 1 .. n : l.at \notin MemberBytes(T, View(T), t, i)
          /\ ~SuffixWithPadding(T, View(T), t) => l.at < own.size
  BY <1>7, <1>9, <1>10
<1>12. own.liveness.kind \in {"gap", "suffix"} =>
         /\ \A i \in DOMAIN own.offsets : own.liveness.at \notin MemberBytes(T, View(T), t, i)
         /\ ~SuffixWithPadding(T, View(T), t) => own.liveness.at < own.size
  <2>1. own.liveness = l
    BY <1>5
  <2> QED
    BY <1>8, <1>11, <2>1
<1> QED
  BY <1>12, Zenon DEF LivenessByteFree, own, h

\* Two modules agree on a type.
AgreeOn(T, t) ==
    \A m, n \in Modules : /\ View(T)[t, m].size = View(T)[t, n].size
                          /\ View(T)[t, m].align = View(T)[t, n].align
                          /\ View(T)[t, m].offsets = View(T)[t, n].offsets

LEMMA ClassAgrees ==
    ASSUME NEW T, IsTable(T), NEW t \in DOMAIN T, T[t].kind = "class",
           View(T)[t, T[t].home].known => ~SuffixWithPadding(T, View(T), t)
    PROVE  AgreeOn(T, t)
<1> DEFINE h == T[t].home
           F == SeenFields(T, t, h)
           l == LivenessIndicator(T, t, F)
           C == Aligns(T)
           v(m) == View(T)[t, m]
<1>1. h \in Modules
  BY DEF IsTable
<1>2. \A m \in Modules : SeenFields(T, t, m) = F
  BY DEF SeenFields, FieldsOf, LaidOutBy
<1>3. \A m \in Modules : v(m) = ViewOf(T, t, m, F)
  <2>1. \A m \in Modules : v(m) = ViewOf(T, t, m, SeenFields(T, t, m))
    BY FieldsAre
  <2> HIDE DEF F, v
  <2> QED
    BY <1>2, <2>1
<1>4. IsChain(C) /\ AlignedIn(F, C)
  BY <1>1, FieldsAre
<1>5. ASSUME l.kind = "suffix", v(h).known PROVE WithoutPadding(F)
  BY <1>5, SuffixPadded
<1> HIDE DEF F, C, h
<1>6. ASSUME NEW m \in Modules
      PROVE  /\ v(m).known <=> AllKnown(F) /\ m = h
             /\ v(m).size = IF v(m).known THEN KnownSizeOf(F, l) ELSE EmittedSizeOf(F, l)
             /\ v(m).align = MaxAlign(F) /\ v(m).offsets = Place(F, 0).offsets
  <2>1. v(m) = ViewOf(T, t, m, F)
    BY <1>3
  <2> DEFINE x == ViewOf(T, t, m, F)
  <2>2. /\ x.known <=> AllKnown(F) /\ m = h
        /\ x.size = IF x.known THEN KnownSizeOf(F, l) ELSE EmittedSizeOf(F, l)
        /\ x.align = MaxAlign(F) /\ x.offsets = Place(F, 0).offsets
    <3>1. T[t].kind \in {"class", "datatype"} /\ (T[t].kind = "class" => m = T[t].home) = (m = h)
      BY DEF h
    <3>2. IsObjectView(T, t, m, F, x)
      BY <1>4, <3>1, ObjectSeen
    <3> HIDE DEF x, l
    <3> QED
      BY <3>1, <3>2 DEF IsObjectView, l
  <2> HIDE DEF v, x, l
  <2>3. v(m) = x
    BY <2>1 DEF x
  <2> QED
    BY <2>2, <2>3
<1> HIDE DEF v, l
<1>7. ASSUME NEW m \in Modules PROVE v(m).size = EmittedSizeOf(F, l)
  <2>1. CASE v(m).known
    <3>1. m = h /\ v(h).known
      BY <1>6, <2>1
    <3>2. l.kind = "suffix" => WithoutPadding(F)
      BY <1>5, <3>1
    <3>3. KnownSizeOf(F, l) = EmittedSizeOf(F, l)
      BY <1>4, <3>2, SizesAre
    <3> QED
      BY <1>6, <2>1, <3>3
  <2>2. CASE ~v(m).known
    BY <1>6, <2>2
  <2> QED
    BY <2>1, <2>2
<1>8. \A m, n \in Modules : v(m).size = v(n).size /\ v(m).align = v(n).align /\ v(m).offsets = v(n).offsets
  BY <1>6, <1>7
<1> QED
  BY <1>8 DEF AgreeOn, v

LEMMA OthersAgree ==
    ASSUME NEW T, IsTable(T), NEW t \in DOMAIN T, T[t].kind # "class",
           \A u \in Members(T, t) : AgreeOn(T, u)
    PROVE  AgreeOn(T, t)
<1>1. SUFFICES ASSUME NEW m \in Modules, NEW n \in Modules
               PROVE  /\ View(T)[t, m].size = View(T)[t, n].size
                      /\ View(T)[t, m].align = View(T)[t, n].align
                      /\ View(T)[t, m].offsets = View(T)[t, n].offsets
  BY DEF AgreeOn
<1> DEFINE F(o) == SeenFields(T, t, o)
           v(o) == View(T)[t, o]
           C == Aligns(T)
<1>2. \A o \in Modules : v(o) = ViewOf(T, t, o, F(o)) /\ IsChain(C) /\ AlignedIn(F(o), C)
  BY FieldsAre
<1>3. Same(F(m), F(n))
  <2>1. LaidOutBy(T, t, m) = m /\ LaidOutBy(T, t, n) = n
    BY DEF LaidOutBy
  <2>2. Len(F(m)) = Len(F(n)) /\ IsFields(F(m)) /\ IsFields(F(n)) /\ Len(F(m)) = Len(T[t].members)
    BY <1>2, FieldsSeen DEF AlignedIn
  <2>3. ASSUME NEW i \in 1 .. Len(T[t].members)
        PROVE  F(m)[i].size = F(n)[i].size /\ F(m)[i].align = F(n)[i].align
    <3>1. /\ T[t].members[i] \in Members(T, t)
          /\ F(m)[i] = View(T)[T[t].members[i], m] /\ F(n)[i] = View(T)[T[t].members[i], n]
      <4>1. ASSUME NEW o \in {m, n}
            PROVE  /\ T[t].members[i] \in Members(T, t)
                   /\ SeenFields(T, t, o)[i] = View(T)[T[t].members[i], LaidOutBy(T, t, o)]
        BY FieldsSeen
      <4> QED
        BY <2>1, <4>1
    <3> QED
      BY <3>1 DEF AgreeOn
  <2> HIDE DEF F
  <2> QED
    BY <2>2, <2>3 DEF Same
<1>4. /\ Place(F(m), 0).offsets = Place(F(n), 0).offsets /\ Place(F(m), 0).end = Place(F(n), 0).end
      /\ MaxAlign(F(m)) = MaxAlign(F(n)) /\ MaxSize(F(m)) = MaxSize(F(n))
  <2>1. 0 \in Nat
    OBVIOUS
  <2> HIDE DEF F
  <2> QED
    BY <1>3, <2>1, SamePlace
<1>5. T[t].kind \in {"prim", "ref", "datatype", "variant"} /\ (~T[t].destroy /\ ~T[t].move)
  BY DEF IsTable
<1>6. CASE T[t].kind \in {"prim", "ref"}
  <2>1. ASSUME NEW o \in {m, n} PROVE v(o).size = T[t].size /\ v(o).align = T[t].align /\ v(o).offsets = <<>>
    <3>1. v(o) = ViewOf(T, t, o, F(o))
      BY <1>2
    <3> DEFINE x == ViewOf(T, t, o, F(o))
    <3> HIDE DEF v, F
    <3>2. x.size = T[t].size /\ x.align = T[t].align /\ x.offsets = <<>>
      BY <1>6, SimpleSeen
    <3> QED
      BY <3>1, <3>2
  <2> QED
    BY <2>1
<1>7. CASE T[t].kind = "datatype"
  <2>1. ASSUME NEW o \in {m, n}
        PROVE  /\ v(o).size = RoundUp(Max({1, Place(F(o), 0).end}), MaxAlign(F(o)))
               /\ v(o).align = MaxAlign(F(o)) /\ v(o).offsets = Place(F(o), 0).offsets
    <3> DEFINE l == LivenessIndicator(T, t, F(o))
    <3>1. v(o) = ViewOf(T, t, o, F(o)) /\ IsChain(C) /\ AlignedIn(F(o), C)
      BY <1>2
    <3>2. l.kind # "suffix"
      BY <1>5, LivenessIs
    <3> HIDE DEF v, F, C, l
    <3>3. KnownSizeOf(F(o), l) = EmittedSizeOf(F(o), l)
      BY <3>1, <3>2, SizesAre
    <3>4. /\ v(o).size = IF v(o).known THEN KnownSizeOf(F(o), l) ELSE EmittedSizeOf(F(o), l)
          /\ v(o).align = MaxAlign(F(o)) /\ v(o).offsets = Place(F(o), 0).offsets
      <4>1. IsObjectView(T, t, o, F(o), ViewOf(T, t, o, F(o)))
        BY <1>7, <3>1, ObjectSeen
      <4> QED
        BY <3>1, <4>1 DEF IsObjectView, l
    <3>5. EmittedSizeOf(F(o), l) = RoundUp(Max({1, Place(F(o), 0).end}), MaxAlign(F(o)))
      BY <3>2 DEF EmittedSizeOf
    <3> QED
      BY <3>3, <3>4, <3>5
  <2> HIDE DEF v, F
  <2>2. v(m).size = v(n).size /\ v(m).align = v(n).align /\ v(m).offsets = v(n).offsets
    BY <1>4, <2>1
  <2> QED
    BY <2>2 DEF v
<1>8. CASE T[t].kind = "variant"
  <2>1. ASSUME NEW o \in {m, n}
        PROVE  /\ v(o).size = EmittedVariantSize(F(o))
               /\ v(o).align = MaxAlign(F(o)) /\ v(o).offsets = <<ValueOffset(F(o))>>
    <3>1. v(o) = ViewOf(T, t, o, F(o)) /\ IsChain(C) /\ AlignedIn(F(o), C)
      BY <1>2
    <3>2. Len(F(o)) # 0
      BY <1>8, VariantHasFields
    <3> HIDE DEF v, F, C
    <3> QED
      BY <1>8, <3>1, <3>2, VariantSeen
  <2>2. EmittedVariantSize(F(m)) = EmittedVariantSize(F(n)) /\ ValueOffset(F(m)) = ValueOffset(F(n))
    <3> HIDE DEF F
    <3> QED
      BY <1>4 DEF EmittedVariantSize, ValueOffset
  <2> HIDE DEF v, F
  <2>3. v(m).size = v(n).size /\ v(m).align = v(n).align /\ v(m).offsets = v(n).offsets
    BY <1>4, <2>1, <2>2
  <2> QED
    BY <2>3 DEF v
<1> QED
  BY <1>5, <1>6, <1>7, <1>8

LEMMA AllAgree ==
    ASSUME NEW T, IsTable(T),
           \A t \in DOMAIN T : T[t].kind = "class" /\ View(T)[t, T[t].home].known => ~SuffixWithPadding(T, View(T), t)
    PROVE  ModulesAgree(T, View(T))
<1> DEFINE bad == {t \in DOMAIN T : ~AgreeOn(T, t)}
<1>1. bad = {}
  <2>1. SUFFICES ASSUME bad # {} PROVE FALSE
    OBVIOUS
  <2>2. bad \in SUBSET DOMAIN T
    OBVIOUS
  <2>3. PICK t \in bad : \A u \in Members(T, t) : u \in DOMAIN T /\ u \notin bad
    <3> HIDE DEF bad
    <3> QED
      BY <2>1, <2>2, Bottom
  <2>4. t \in DOMAIN T /\ ~AgreeOn(T, t) /\ \A u \in Members(T, t) : AgreeOn(T, u)
    BY <2>3
  <2>5. CASE T[t].kind = "class"
    BY <2>4, <2>5, ClassAgrees
  <2>6. CASE T[t].kind # "class"
    BY <2>4, <2>6, OthersAgree
  <2> QED
    BY <2>5, <2>6
<1>2. \A t \in DOMAIN T : AgreeOn(T, t)
  BY <1>1
<1> HIDE DEF bad
<1> QED
  BY <1>2 DEF ModulesAgree, AgreeOn

-----------------------------------------------------------------------------
LEMMA TreeInvariant == StaticSpec => []TreeInv
<1>1. StaticInit => TreeInv
  BY TreeInitInvariant DEF StaticInit
<1>2. TreeInv /\ [StaticNext]_staticVars => TreeInv'
  <2>1. [StaticNext]_staticVars => [Next]_vars
    BY DEF StaticNext, staticVars, vars
  <2> QED
    BY <2>1, TreeStepInvariant
<1> QED
  BY <1>1, <1>2, PTL DEF StaticSpec

\* However the statements of a scope are nested, it is left only by its exit states, and
\* does not throw where its noexcept predicate is true (ScopeExitStates.cpp, Statement.cpp).
THEOREM ExitsAreCovered == StaticSpec => []ExitsCoverOutcomes
BY TreeInvariant, TreeInvariantSuffices, PTL

\* Scope::exitStates invents no exit of a scope whose statements are exact, whichever
\* scope(success) blocks it has.
THEOREM NoExitsInvented == StaticSpec => []ScopeIsExact
BY TreeInvariant, TreeInvariantSuffices, PTL

\* What the search for dead code reports as never executed never is, but for a scope(failure)
\* above a scope(success) that may throw and may not (DeadCodeSearchScope).
THEOREM OnlyDeadCodeReported == StaticSpec => []ReportsTrue
BY TreeInvariant, TreeInvariantSuffices, PTL

-----------------------------------------------------------------------------
\* What is laid out is a table of the compiler's, as every module sees it.
LayoutInv ==
    laidOut = <<>> \/ \E T \in Tables : laidOut = [table |-> T, view |-> View(T)]

LEMMA LayoutInvariant == StaticSpec => []LayoutInv
<1>1. StaticInit => LayoutInv
  BY DEF StaticInit, LayoutInv
<1>2. LayoutInv /\ [StaticNext]_staticVars => LayoutInv'
  <2>1. [StaticNext]_staticVars => UNCHANGED laidOut \/ LayOut
    BY DEF StaticNext, staticVars
  <2>2. UNCHANGED laidOut /\ LayoutInv => LayoutInv'
    BY DEF LayoutInv
  <2>3. LayOut => LayoutInv'
    BY DEF LayOut, LayoutInv
  <2> QED
    BY <2>1, <2>2, <2>3
<1> QED
  BY <1>1, <1>2, PTL DEF StaticSpec

LEMMA LayoutInvariantSuffices == LayoutInv => LivenessBytesFree /\ ModulesAgreeOnTypes
<1> SUFFICES ASSUME LayoutInv, laidOut # <<>> PROVE LivenessBytesFree /\ ModulesAgreeOnTypes
  BY DEF LivenessBytesFree, ModulesAgreeOnTypes
<1>1. PICK T \in Tables : laidOut = [table |-> T, view |-> View(T)]
  BY DEF LayoutInv
<1>2. laidOut.table = T /\ laidOut.view = View(T) /\ IsTable(T)
  BY <1>1, StaticChecksAssumption
<1>3. LivenessBytesFree
  <2>1. \A t \in DOMAIN T : T[t].kind = "class" => LivenessByteFree(T, View(T), t)
    BY <1>2, LivenessFree
  <2> QED
    BY <1>2, <2>1 DEF LivenessBytesFree
<1>4. ModulesAgreeOnTypes
  <2>1. (\A t \in DOMAIN T : T[t].kind = "class" /\ View(T)[t, T[t].home].known => ~SuffixWithPadding(T, View(T), t))
          => ModulesAgree(T, View(T))
    BY <1>2, AllAgree
  <2> QED
    BY <1>2, <2>1 DEF ModulesAgreeOnTypes
<1> QED
  BY <1>3, <1>4

\* The byte that tells whether an object is live (genSuffixByteOffset and
\* getGapByteLivenessIndicator, LivenessIndicator.cpp; SizeOf.cpp) is in none of its
\* members, for every table of types.
THEOREM LivenessIsFree == StaticSpec => []LivenessBytesFree
BY LayoutInvariant, LayoutInvariantSuffices, PTL

\* What a module lays out itself and what it asks the methods of other modules for are
\* the same sizes, alignments and offsets (SizeOf.cpp, DefaultMethodEmitter.cpp,
\* TypeGenerator.cpp), for every table of types.
THEOREM ModulesLayOutAlike == StaticSpec => []ModulesAgreeOnTypes
BY LayoutInvariant, LayoutInvariantSuffices, PTL
=============================================================================
