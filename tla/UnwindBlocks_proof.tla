------------------------- MODULE UnwindBlocks_proof -------------------------
(***************************************************************************)
(* Proofs about UnwindCode, first part: the blocks that genUnwindBlock     *)
(* builds, for any stack of actions and whatever blocks it finds.          *)
(*                                                                         *)
(* What the language asks for, when control leaves through a stack in a    *)
(* state, is a route: the actions that must run, and where to arrive.      *)
(* What the code does is a set W of ways: <<b, s, t, r>> is in it when     *)
(* unwinding may be at block b in state s, for an exception of type t,     *)
(* with the route r before it.  A block is shared by all the ways that     *)
(* come through it.  Every way can be followed for one block, and is again *)
(* in W after it (CodeOK); and what an action remembers as its block for a *)
(* state is where the route from that action down is a way (StackOK).      *)
(* Code and stack are Sound for W if both hold.                            *)
(*                                                                         *)
(* What the second part rests on: code and stack stay Sound, for a W that  *)
(* only grows, when the blocks of an exit are built, linked to blocks that *)
(* are there, or found.                                                    *)
(***************************************************************************)
EXTENDS UnwindCode, SequenceTheorems, FiniteSetTheorems, WellFoundedInduction,
        NaturalsInduction, TLAPS

-----------------------------------------------------------------------------
(***************************************************************************)
(* Lists that are defined by recursion on a position.                      *)
(***************************************************************************)
LEMMA Induction ==
    ASSUME NEW S \in SUBSET Nat, 0 \in S, \A n \in S : n + 1 \in S
    PROVE  S = Nat
<1> DEFINE R == OpToRel(<, Nat)
<1>1. SUFFICES ASSUME Nat \ S # {} PROVE FALSE
  OBVIOUS
<1>2. IsWellFoundedOn(R, Nat)
  BY NatLessThanWellFounded
<1>3. PICK m \in Nat \ S : \A y \in Nat \ S : ~(<<y, m>> \in R)
  <2> HIDE DEF R
  <2> QED
    BY <1>1, <1>2, WFMin
<1>4. \A y \in Nat \ S : ~(y < m)
  BY <1>3 DEF OpToRel
<1>5. m \in Nat /\ m \notin S /\ m # 0
  OBVIOUS
<1>6. m - 1 \in Nat /\ m - 1 < m /\ (m - 1) + 1 = m
  BY <1>5
<1> QED
  BY <1>4, <1>5, <1>6

LEMMA Maximum ==
    ASSUME NEW S \in SUBSET Int, NEW n \in S, \A i \in S : i <= n
    PROVE  Max(S) = n
<1>1. \A x : x \in S /\ (\A y \in S : x >= y) => x = n
  OBVIOUS
<1>2. n \in S /\ \A y \in S : n >= y
  OBVIOUS
<1> QED
  BY <1>1, <1>2 DEF Max

LEMMA Minimum ==
    ASSUME NEW S \in SUBSET Int, NEW n \in S, \A i \in S : n <= i
    PROVE  Min(S) = n
<1>1. \A x : x \in S /\ (\A y \in S : x <= y) => x = n
  OBVIOUS
<1>2. n \in S /\ \A y \in S : n <= y
  OBVIOUS
<1> QED
  BY <1>1, <1>2 DEF Min

\* The list of the x[i] with c[i], the last one first, for i from m + 1 on.
Lists(f, m, n, c, x) ==
    f = [i \in m .. n |-> IF i = m THEN <<>> ELSE IF c[i] THEN <<x[i]>> \o f[i - 1] ELSE f[i - 1]]

LEMMA ListExists ==
    ASSUME NEW m \in Nat, NEW c, NEW x
    PROVE  \A k \in Nat : \E f : Lists(f, m, m + k, c, x)
<1> DEFINE S == {k \in Nat : \E f : Lists(f, m, m + k, c, x)}
<1>1. 0 \in S
  <2> DEFINE f == [i \in m .. m |-> <<>>]
  <2>1. f = [i \in m .. m |-> IF i = m THEN <<>> ELSE IF c[i] THEN <<x[i]>> \o f[i - 1] ELSE f[i - 1]]
    OBVIOUS
  <2> HIDE DEF f
  <2>2. Lists(f, m, m, c, x) /\ m + 0 = m
    BY <2>1 DEF Lists
  <2> QED
    BY <2>2
<1>2. ASSUME NEW k \in S PROVE k + 1 \in S
  <2>1. PICK f : Lists(f, m, m + k, c, x)
    OBVIOUS
  <2> DEFINE n == m + k
             last == IF c[n + 1] THEN <<x[n + 1]>> \o f[n] ELSE f[n]
             g == [i \in m .. n + 1 |-> IF i = n + 1 THEN last ELSE f[i]]
  <2>2. k \in Nat /\ n \in Nat /\ m <= n /\ m + (k + 1) = n + 1
    OBVIOUS
  <2>3. \A i \in m .. n : g[i] = f[i]
    BY <2>2
  <2>4. \A i \in m .. n : f[i] = IF i = m THEN <<>> ELSE IF c[i] THEN <<x[i]>> \o f[i - 1] ELSE f[i - 1]
    BY <2>1, <2>2 DEF Lists
  <2>5. ASSUME NEW i \in m .. n + 1
        PROVE  g[i] = IF i = m THEN <<>> ELSE IF c[i] THEN <<x[i]>> \o g[i - 1] ELSE g[i - 1]
    <3>1. CASE i = n + 1
      <4>1. g[i] = last /\ i # m /\ i - 1 = n /\ g[n] = f[n]
        BY <2>2, <2>3, <3>1
      <4> QED
        BY <3>1, <4>1
    <3>2. CASE i # n + 1 /\ i # m
      <4>1. i \in m .. n /\ i - 1 \in m .. n
        BY <2>2, <3>2
      <4>2. g[i] = f[i] /\ g[i - 1] = f[i - 1]
        BY <2>3, <4>1
      <4> QED
        BY <2>4, <4>1, <4>2, <3>2
    <3>3. CASE i = m
      <4>1. i \in m .. n
        BY <2>2, <3>3
      <4>2. g[i] = f[i]
        BY <2>3, <4>1
      <4> QED
        BY <2>4, <4>1, <4>2, <3>3
    <3> QED
      BY <3>1, <3>2, <3>3
  <2>6. g = [i \in m .. n + 1 |-> g[i]]
    OBVIOUS
  <2> HIDE DEF g
  <2>7. Lists(g, m, n + 1, c, x)
    BY <2>5, <2>6 DEF Lists
  <2> QED
    BY <2>2, <2>7
<1> HIDE DEF S
<1>3. S = Nat
  <2>1. S \in SUBSET Nat
    BY DEF S
  <2> QED
    BY <1>1, <1>2, <2>1, Induction
<1> QED
  BY <1>3 DEF S

\* It depends only on the positions that it ranges over.
LEMMA ListUnique ==
    ASSUME NEW m \in Nat, NEW n \in Nat, NEW p \in Nat, NEW c, NEW x, NEW d, NEW y,
           NEW f, NEW g, Lists(f, m, n, c, x), Lists(g, m, p, d, y), m <= p, p <= n,
           \A i \in m + 1 .. p : (c[i] <=> d[i]) /\ x[i] = y[i]
    PROVE  f[p] = g[p]
<1> DEFINE k == p - m
<1>0. k \in Nat /\ m + k = p
  OBVIOUS
<1> HIDE DEF k
<1> DEFINE S == {j \in Nat : j <= k => f[m + j] = g[m + j]}
<1>1. 0 \in S
  <2>1. m \in m .. n /\ m \in m .. p
    OBVIOUS
  <2>2. f[m] = <<>> /\ g[m] = <<>>
    BY <2>1 DEF Lists
  <2> QED
    BY <2>2
<1>2. ASSUME NEW j \in S PROVE j + 1 \in S
  <2>1. SUFFICES ASSUME j + 1 <= k PROVE f[m + (j + 1)] = g[m + (j + 1)]
    OBVIOUS
  <2> DEFINE i == m + (j + 1)
  <2>2. /\ j \in Nat /\ i \in Nat /\ i # m /\ i - 1 = m + j /\ i \in m + 1 .. m + k
        /\ i \in m .. n /\ i \in m .. p /\ f[m + j] = g[m + j]
    BY <1>0, <2>1
  <2>3. (c[i] <=> d[i]) /\ x[i] = y[i]
    BY <1>0, <2>2
  <2> HIDE DEF i
  <2>4. f[i] = (IF c[i] THEN <<x[i]>> \o f[m + j] ELSE f[m + j])
    BY <2>2 DEF Lists
  <2>5. g[i] = (IF d[i] THEN <<y[i]>> \o g[m + j] ELSE g[m + j])
    BY <2>2 DEF Lists
  <2> QED
    BY <2>2, <2>3, <2>4, <2>5 DEF i
<1> HIDE DEF S
<1>3. S = Nat
  <2>1. S \in SUBSET Nat
    BY DEF S
  <2> QED
    BY <1>1, <1>2, <2>1, Induction
<1>4. k \in S /\ k <= k
  BY <1>0, <1>3
<1>5. f[m + k] = g[m + k]
  BY <1>4 DEF S
<1> QED
  BY <1>0, <1>5

LEMMA ListTyped ==
    ASSUME NEW m \in Nat, NEW n \in Nat, NEW c, NEW x, NEW f, Lists(f, m, n, c, x), m <= n,
           NEW V, \A i \in m + 1 .. n : c[i] => x[i] \in V
    PROVE  \A i \in m .. n : f[i] \in Seq(V)
<1> DEFINE S == {j \in Nat : m + j <= n => f[m + j] \in Seq(V)}
<1>1. 0 \in S
  <2>1. m \in m .. n
    OBVIOUS
  <2>2. f[m] = <<>> /\ m + 0 = m
    BY <2>1 DEF Lists
  <2>3. f[m] \in Seq(V)
    BY <2>2
  <2> QED
    BY <2>2, <2>3
<1>2. ASSUME NEW j \in S PROVE j + 1 \in S
  <2>1. SUFFICES ASSUME m + (j + 1) <= n PROVE f[m + (j + 1)] \in Seq(V)
    OBVIOUS
  <2> DEFINE i == m + (j + 1)
  <2>2. j \in Nat /\ i \in Nat /\ i # m /\ i - 1 = m + j /\ i \in m + 1 .. n /\ i \in m .. n /\ f[m + j] \in Seq(V)
    BY <2>1
  <2>3. c[i] => x[i] \in V
    BY <2>2
  <2> HIDE DEF i
  <2>4. f[i] = (IF c[i] THEN <<x[i]>> \o f[m + j] ELSE f[m + j])
    BY <2>2 DEF Lists
  <2>5. c[i] => <<x[i]>> \o f[m + j] \in Seq(V)
    BY <2>2, <2>3
  <2> QED
    BY <2>2, <2>4, <2>5 DEF i
<1> HIDE DEF S
<1>3. S = Nat
  <2>1. S \in SUBSET Nat
    BY DEF S
  <2> QED
    BY <1>1, <1>2, <2>1, Induction
<1>4. ASSUME NEW i \in m .. n PROVE f[i] \in Seq(V)
  <2>1. i - m \in Nat /\ m + (i - m) = i /\ i <= n
    OBVIOUS
  <2>2. i - m \in S
    BY <1>3, <2>1
  <2> QED
    BY <2>1, <2>2 DEF S
<1> QED
  BY <1>4

-----------------------------------------------------------------------------
(***************************************************************************)
(* Exceptions: a clause can catch those that are its type's.               *)
(***************************************************************************)
\* The three recursions over the parents of a type.
FirstOf(k, t) == CASE k = "info" -> <<t>> [] k = "offset" -> 0 [] k = "ancestors" -> {}
NextOf(k, t, v) ==
    CASE k = "info" -> Append(v, t) [] k = "offset" -> v + 1 [] k = "ancestors" -> {Parent[t]} \cup v
IsOver(k, S, f) ==
    f = [t \in S |-> IF Parent[t] = NoType THEN FirstOf(k, t) ELSE NextOf(k, t, f[Parent[t]])]

LEMMA ParentsFirst ==
    \E N \in Nat : \E number \in [Types -> 1 .. N] :
        \A t \in Types : Parent[t] # NoType => Parent[t] \in Types /\ number[Parent[t]] < number[t]
<1>1. Cardinality(Types) \in Nat
  BY ExceptionTypesAssumption, FS_CardinalityType
<1>2. PICK number \in [Types -> 1 .. Cardinality(Types)] :
            \A t \in Types : Parent[t] # NoType => number[Parent[t]] < number[t]
  BY ExceptionTypesAssumption
<1>3. \A t \in Types : Parent[t] # NoType => Parent[t] \in Types
  BY ExceptionTypesAssumption
<1> QED
  BY <1>1, <1>2, <1>3

LEMMA ParentRecursion ==
    ASSUME NEW k
    PROVE  \E f : IsOver(k, Types, f)
<1> PICK N \in Nat : \E number \in [Types -> 1 .. N] :
        \A t \in Types : Parent[t] # NoType => Parent[t] \in Types /\ number[Parent[t]] < number[t]
  BY ParentsFirst
<1>0. PICK number \in [Types -> 1 .. N] :
        \A t \in Types : Parent[t] # NoType => Parent[t] \in Types /\ number[Parent[t]] < number[t]
  OBVIOUS
<1>1. \A t \in Types : number[t] \in Nat \ {0} /\ number[t] <= N
  BY <1>0
<1> DEFINE Upto(n) == {t \in Types : number[t] <= n}
           S == {n \in Nat : \E f : IsOver(k, Upto(n), f)}
<1>2. 0 \in S
  <2> DEFINE f == [t \in Upto(0) |-> 0]
  <2>1. Upto(0) = {}
    BY <1>1
  <2>2. f = [t \in Upto(0) |-> IF Parent[t] = NoType THEN FirstOf(k, t) ELSE NextOf(k, t, f[Parent[t]])]
    BY <2>1
  <2> HIDE DEF f
  <2> QED
    BY <2>2 DEF IsOver
<1>3. ASSUME NEW n \in S PROVE n + 1 \in S
  <2>1. PICK f : IsOver(k, Upto(n), f)
    OBVIOUS
  <2> DEFINE val(t) == IF Parent[t] = NoType THEN FirstOf(k, t) ELSE NextOf(k, t, f[Parent[t]])
             g == [t \in Upto(n + 1) |-> val(t)]
  <2>2. n \in Nat
    OBVIOUS
  <2>3. \A t \in Upto(n) : t \in Upto(n + 1) /\ f[t] = val(t)
    BY <1>1, <2>1, <2>2 DEF IsOver
  <2>4. \A t \in Upto(n) : g[t] = f[t]
    BY <2>3, Zenon
  <2>5. \A t \in Upto(n + 1) : Parent[t] # NoType => Parent[t] \in Upto(n)
    BY <1>0, <1>1, <2>2
  <2>6. \A t \in Upto(n + 1) : g[t] = IF Parent[t] = NoType THEN FirstOf(k, t) ELSE NextOf(k, t, g[Parent[t]])
    BY <2>4, <2>5, Zenon
  <2>7. g = [t \in Upto(n + 1) |-> g[t]]
    OBVIOUS
  <2> HIDE DEF g, val, Upto
  <2>8. IsOver(k, Upto(n + 1), g)
    BY <2>6, <2>7, Zenon DEF IsOver
  <2> QED
    BY <2>2, <2>8
<1> HIDE DEF S
<1>4. S = Nat
  <2>1. S \in SUBSET Nat
    BY DEF S
  <2> QED
    BY <1>2, <1>3, <2>1, Induction
<1>5. Upto(N) = Types
  BY <1>1
<1>6. \E f : IsOver(k, Upto(N), f)
  BY <1>0, <1>4 DEF S
<1> HIDE DEF Upto
<1> QED
  BY <1>5, <1>6

LEMMA ThrowInfoIs ==
    \A t \in Types : ThrowInfo[t] = IF Parent[t] = NoType THEN <<t>> ELSE Append(ThrowInfo[Parent[t]], t)
<1>1. PICK f : IsOver("info", Types, f)
  BY ParentRecursion
<1>2. f = [t \in Types |-> IF Parent[t] = NoType THEN <<t>> ELSE Append(f[Parent[t]], t)]
  BY <1>1 DEF IsOver, FirstOf, NextOf
<1>3. ThrowInfo = [t \in Types |-> IF Parent[t] = NoType THEN <<t>> ELSE Append(ThrowInfo[Parent[t]], t)]
  BY <1>2, Zenon DEF ThrowInfo
<1> QED
  BY <1>3, Zenon

LEMMA CatchOffsetIs ==
    \A t \in Types : CatchOffset[t] = IF Parent[t] = NoType THEN 0 ELSE CatchOffset[Parent[t]] + 1
<1>1. PICK f : IsOver("offset", Types, f)
  BY ParentRecursion
<1>2. f = [t \in Types |-> IF Parent[t] = NoType THEN 0 ELSE f[Parent[t]] + 1]
  BY <1>1 DEF IsOver, FirstOf, NextOf
<1>3. CatchOffset = [t \in Types |-> IF Parent[t] = NoType THEN 0 ELSE CatchOffset[Parent[t]] + 1]
  BY <1>2, Zenon DEF CatchOffset
<1> QED
  BY <1>3, Zenon

LEMMA AncestorsAre ==
    \A t \in Types : Ancestors[t] = IF Parent[t] = NoType THEN {} ELSE {Parent[t]} \cup Ancestors[Parent[t]]
<1>1. PICK f : IsOver("ancestors", Types, f)
  BY ParentRecursion
<1>2. f = [t \in Types |-> IF Parent[t] = NoType THEN {} ELSE {Parent[t]} \cup f[Parent[t]]]
  BY <1>1 DEF IsOver, FirstOf, NextOf
<1>3. Ancestors = [t \in Types |-> IF Parent[t] = NoType THEN {} ELSE {Parent[t]} \cup Ancestors[Parent[t]]]
  BY <1>2, Zenon DEF Ancestors
<1> QED
  BY <1>3, Zenon

\* The names of t and its ancestors, each at its offset.
Named(t) ==
    /\ CatchOffset[t] \in Nat
    /\ ThrowInfo[t] \in Seq(Types) /\ Len(ThrowInfo[t]) = CatchOffset[t] + 1
    /\ \A i \in 1 .. CatchOffset[t] + 1 : CatchOffset[ThrowInfo[t][i]] = i - 1
    /\ \A c : IsA(t, c) <=> \E i \in 1 .. CatchOffset[t] + 1 : ThrowInfo[t][i] = c

LEMMA NamesAreInOrder == \A t \in Types : Named(t)
<1> PICK N \in Nat : \E number \in [Types -> 1 .. N] :
        \A t \in Types : Parent[t] # NoType => Parent[t] \in Types /\ number[Parent[t]] < number[t]
  BY ParentsFirst
<1>0. PICK number \in [Types -> 1 .. N] :
        \A t \in Types : Parent[t] # NoType => Parent[t] \in Types /\ number[Parent[t]] < number[t]
  OBVIOUS
<1>1. \A t \in Types : number[t] \in Nat \ {0} /\ number[t] <= N
  BY <1>0
<1> DEFINE S == {n \in Nat : \A t \in Types : number[t] <= n => Named(t)}
<1>2. 0 \in S
  BY <1>1
<1>3. ASSUME NEW n \in S PROVE n + 1 \in S
  <2>1. SUFFICES ASSUME NEW t \in Types, number[t] <= n + 1 PROVE Named(t)
    OBVIOUS
  <2>2. CASE Parent[t] = NoType
    <3>1. ThrowInfo[t] = <<t>> /\ CatchOffset[t] = 0 /\ Ancestors[t] = {}
      BY <2>2, ThrowInfoIs, CatchOffsetIs, AncestorsAre
    <3>2. \A c : IsA(t, c) <=> c = t
      BY <3>1 DEF IsA
    <3>3. <<t>> \in Seq(Types) /\ Len(<<t>>) = 1 /\ <<t>>[1] = t
      OBVIOUS
    <3> QED
      BY <3>1, <3>2, <3>3 DEF Named
  <2>3. CASE Parent[t] # NoType
    <3> DEFINE p == Parent[t]
               k == CatchOffset[p]
    <3>1. p \in Types /\ Named(p)
      BY <1>0, <1>1, <2>1, <2>3
    <3>2. ThrowInfo[t] = Append(ThrowInfo[p], t) /\ CatchOffset[t] = k + 1 /\ Ancestors[t] = {p} \cup Ancestors[p]
      BY <2>3, ThrowInfoIs, CatchOffsetIs, AncestorsAre
    <3>3. k \in Nat /\ ThrowInfo[p] \in Seq(Types) /\ Len(ThrowInfo[p]) = k + 1
      BY <3>1 DEF Named
    <3> HIDE DEF k, p
    <3>4. /\ ThrowInfo[t] \in Seq(Types) /\ Len(ThrowInfo[t]) = k + 2 /\ ThrowInfo[t][k + 2] = t
          /\ \A i \in 1 .. k + 1 : ThrowInfo[t][i] = ThrowInfo[p][i]
      BY <3>2, <3>3
    <3>5. \A c : IsA(t, c) <=> c = t \/ IsA(p, c)
      BY <3>2 DEF IsA
    <3>6. ASSUME NEW i \in 1 .. k + 2 PROVE CatchOffset[ThrowInfo[t][i]] = i - 1
      <4>1. CASE i = k + 2
        BY <3>2, <3>3, <3>4, <4>1
      <4>2. CASE i # k + 2
        <5>1. i \in 1 .. k + 1
          BY <3>3, <4>2
        <5> QED
          BY <3>1, <3>4, <5>1 DEF Named, k, p
      <4> QED
        BY <4>1, <4>2
    <3>7. ASSUME NEW c PROVE IsA(t, c) <=> \E i \in 1 .. k + 2 : ThrowInfo[t][i] = c
      <4>1. IsA(p, c) <=> \E i \in 1 .. k + 1 : ThrowInfo[p][i] = c
        BY <3>1 DEF Named, k, p
      <4>2. \A i : i \in 1 .. k + 2 <=> i \in 1 .. k + 1 \/ i = k + 2
        BY <3>3
      <4> QED
        BY <3>4, <3>5, <4>1, <4>2
    <3>8. CatchOffset[t] + 1 = k + 2 /\ CatchOffset[t] \in Nat
      BY <3>2, <3>3
    <3> QED
      BY <3>4, <3>6, <3>7, <3>8 DEF Named
  <2> QED
    BY <2>2, <2>3
<1> HIDE DEF S
<1>4. S = Nat
  <2>1. S \in SUBSET Nat
    BY DEF S
  <2> QED
    BY <1>2, <1>3, <2>1, Induction
<1> QED
  BY <1>0, <1>1, <1>4 DEF S

\* The runtime's comparison of names is what the language means.
LEMMA CatchesItsOwn == \A t, c \in Types : CanCatch(c, t) <=> IsA(t, c)
<1> SUFFICES ASSUME NEW t \in Types, NEW c \in Types PROVE CanCatch(c, t) <=> IsA(t, c)
  OBVIOUS
<1>1. Named(t) /\ Named(c)
  BY NamesAreInOrder
<1> QED
  BY <1>1, SMTT(30) DEF Named, CanCatch

-----------------------------------------------------------------------------
(***************************************************************************)
(* What unwinding a stack has to do, position by position.                 *)
(***************************************************************************)
Acts == [kind : Kinds, id : Nat, when : ScopeExitStates, body : Bodies, type : Types \cup {NoType},
         to : [States -> Nat], block : [States -> Nat], pad : [ExceptionStates -> Nat]]

\* The states of unwinding where nothing is thrown again, and what it depends on.
Modes   == States \ {"Rethrow"}
Keys(s) == IF s = "Throw" THEN Types ELSE {NoType}

\* The stack of a function.
IsStack(stack) ==
    /\ stack \in Seq(Acts) /\ Len(stack) \in Nat \ {0}
    /\ \A i \in 1 .. Len(stack) : stack[i].kind = "FUNCTIONMARKER" <=> i = 1
    /\ \A i \in 1 .. Len(stack) : stack[i].kind = "CATCH" => stack[i].type \in Types

\* An unwinding in state s, of an exception of type t, ends at action a.
Ends(a, s, t) ==
    \/ a.kind = "FUNCTIONMARKER" /\ s \in {"Return", "Throw"}
    \/ a.kind = "SCOPEMARKER" /\ s = "Normal"
    \/ a.kind = "CONTROLFLOW" /\ s \in {"Break", "Continue"}
    \/ a.kind = "CATCH" /\ s = "Throw" /\ IsA(t, a.type)

\* It performs action a.
Runs(a, s) == ~IsTerminator(a) /\ IsActiveForState(a, s)

EndsIn(stack, s, t) == \E i \in 1 .. Len(stack) : Ends(stack[i], s, t)

Selector(stack, s, t) == IF s = "Throw" THEN HandleAction(CatchTypes(stack), t) ELSE 0

Route(stack, s, t) ==
    [todo |-> Plan(stack, s, t).todo, goal |-> Plan(stack, s, t).goal, selector |-> Selector(stack, s, t)]

Prefix(stack, n) == SubSeq(stack, 1, n)

LEMMA PrefixIs ==
    ASSUME NEW stack, IsStack(stack), NEW n \in 1 .. Len(stack)
    PROVE  /\ IsStack(Prefix(stack, n)) /\ Len(Prefix(stack, n)) = n
           /\ \A i \in 1 .. n : Prefix(stack, n)[i] = stack[i]
           /\ n = Len(stack) => Prefix(stack, n) = stack
<1>1. stack \in Seq(Acts) /\ Len(stack) \in Nat /\ n \in Nat /\ n <= Len(stack)
  BY DEF IsStack
<1>2. /\ Prefix(stack, n) \in Seq(Acts) /\ Len(Prefix(stack, n)) = n
      /\ \A i \in 1 .. n : Prefix(stack, n)[i] = stack[i]
  BY <1>1, SubSeqProperties DEF Prefix
<1>3. n = Len(stack) => Prefix(stack, n) = stack
  <2>1. SUFFICES ASSUME n = Len(stack) PROVE Prefix(stack, n) = stack
    OBVIOUS
  <2> QED
    BY <1>1, <1>2, <2>1, SeqEqual
<1>4. \A i \in 1 .. n : i \in 1 .. Len(stack)
  BY <1>1
<1> QED
  BY <1>1, <1>2, <1>3, <1>4 DEF IsStack

LEMMA PrefixPrefix ==
    ASSUME NEW stack, IsStack(stack), NEW n \in 1 .. Len(stack), NEW m \in 1 .. n
    PROVE  Prefix(Prefix(stack, n), m) = Prefix(stack, m)
<1>1. n \in Nat /\ m \in Nat /\ m <= n /\ n <= Len(stack) /\ Len(stack) \in Nat /\ m \in 1 .. Len(stack)
  BY DEF IsStack
<1>2. IsStack(Prefix(stack, n)) /\ Len(Prefix(stack, n)) = n /\ \A i \in 1 .. n : Prefix(stack, n)[i] = stack[i]
  BY PrefixIs
<1>3. /\ Prefix(Prefix(stack, n), m) \in Seq(Acts) /\ Len(Prefix(Prefix(stack, n), m)) = m
      /\ \A i \in 1 .. m : Prefix(Prefix(stack, n), m)[i] = Prefix(stack, n)[i]
  BY <1>2, PrefixIs DEF IsStack
<1>4. /\ Prefix(stack, m) \in Seq(Acts) /\ Len(Prefix(stack, m)) = m
      /\ \A i \in 1 .. m : Prefix(stack, m)[i] = stack[i]
  BY <1>1, PrefixIs DEF IsStack
<1>5. \A i \in 1 .. m : Prefix(Prefix(stack, n), m)[i] = Prefix(stack, m)[i]
  BY <1>1, <1>2, <1>3, <1>4
<1> QED
  BY <1>3, <1>4, <1>5, SeqEqual

LEMMA MustRunIs ==
    ASSUME NEW stack, IsStack(stack), NEW i \in 1 .. Len(stack), NEW s \in Modes
    PROVE  MustRun(stack, i, s) <=> Runs(stack[i], s)
<1>1. stack[i] \in Acts
  BY DEF IsStack
<1>2. stack[i].kind \in Kinds /\ stack[i].when \in ScopeExitStates
  BY <1>1 DEF Acts
<1> QED
  BY <1>2 DEF MustRun, Runs, IsTerminator, IsActiveForState, ActiveStates, Kinds, Terminators, Modes,
              States, ExceptionStates, NormalStates, ScopeExitStates

\* What ends an unwinding is the innermost action at which it may end.
LEMMA TargetIs ==
    ASSUME NEW stack, IsStack(stack), NEW s \in Modes, NEW t \in Keys(s), NEW n \in 1 .. Len(stack),
           Ends(stack[n], s, t), \A i \in n + 1 .. Len(stack) : ~Ends(stack[i], s, t)
    PROVE  Target(stack, s, t) = n
<1> DEFINE E == {i \in 1 .. Len(stack) : Ends(stack[i], s, t)}
<1>1. E \in SUBSET Int /\ n \in E /\ \A i \in E : i <= n
  BY DEF IsStack
<1>2. Max(E) = n
  <2> HIDE DEF E
  <2> QED
    BY <1>1, Maximum
<1>3. DOMAIN stack = 1 .. Len(stack) /\ 1 \in 1 .. Len(stack) /\ \A i \in 1 .. Len(stack) : stack[i].kind = "FUNCTIONMARKER" <=> i = 1
  BY DEF IsStack
<1>4. CASE s = "Normal"
  <2>1. E = {i \in DOMAIN stack : stack[i].kind = "SCOPEMARKER"}
    BY <1>3, <1>4 DEF Ends
  <2> QED
    BY <1>2, <1>4, <2>1 DEF Target, LastOf, ExceptionStates
<1>5. CASE s \in {"Break", "Continue"}
  <2>1. E = {i \in DOMAIN stack : stack[i].kind = "CONTROLFLOW"}
    BY <1>3, <1>5 DEF Ends
  <2> QED
    BY <1>2, <1>5, <2>1 DEF Target, LastOf, ExceptionStates
<1>6. CASE s = "Return"
  <2>1. n = 1
    BY <1>3, <1>6 DEF Ends
  <2> QED
    BY <1>6, <2>1 DEF Target, ExceptionStates
<1>7. CASE s = "Throw"
  <2>1. E = {1} \cup {i \in DOMAIN stack : stack[i].kind = "CATCH" /\ IsA(t, stack[i].type)}
    BY <1>3, <1>7 DEF Ends
  <2> QED
    BY <1>2, <1>7, <2>1 DEF Target, ExceptionStates
<1> QED
  BY <1>4, <1>5, <1>6, <1>7 DEF Modes, States

LEMMA InnermostEnd ==
    ASSUME NEW stack, IsStack(stack), NEW s, NEW t, EndsIn(stack, s, t)
    PROVE  \E n \in 1 .. Len(stack) : Ends(stack[n], s, t) /\ \A i \in n + 1 .. Len(stack) : ~Ends(stack[i], s, t)
<1> DEFINE S == {k \in Nat : k < Len(stack) => \/ \E n \in 1 .. Len(stack) : /\ Ends(stack[n], s, t)
                                                        /\ \A i \in n + 1 .. Len(stack) : ~Ends(stack[i], s, t)
                                    \/ \A i \in Len(stack) - k .. Len(stack) : ~Ends(stack[i], s, t)}
           L == Len(stack)
           Innermost2(n) == Ends(stack[n], s, t) /\ \A i \in n + 1 .. L : ~Ends(stack[i], s, t)
<1>1. L \in Nat \ {0}
  BY DEF IsStack
<1>2. 0 \in S
  <2>1. L - 0 = L /\ (L + 1) .. L = {} /\ L .. L = {L} /\ L \in 1 .. L
    BY <1>1
  <2>2. CASE Ends(stack[L], s, t)
    <3>1. Innermost2(L)
      BY <2>1, <2>2
    <3> QED
      BY <2>1, <3>1
  <2>3. CASE ~Ends(stack[L], s, t)
    BY <2>1, <2>3
  <2> QED
    BY <2>2, <2>3
<1>3. ASSUME NEW k \in S PROVE k + 1 \in S
  <2>1. SUFFICES ASSUME k + 1 < L, \A i \in L - k .. L : ~Ends(stack[i], s, t)
                 PROVE  \/ \E n \in 1 .. L : Innermost2(n)
                        \/ \A i \in L - (k + 1) .. L : ~Ends(stack[i], s, t)
    <3>1. k \in Nat /\ k + 1 \in Nat
      OBVIOUS
    <3>2. k + 1 < L => k < L
      BY <1>1, <3>1
    <3> QED
      BY <1>1, <3>1, <3>2
  <2> DEFINE m == L - (k + 1)
  <2>2. k \in Nat /\ m \in 1 .. L /\ m + 1 = L - k
    BY <1>1, <2>1
  <2> HIDE DEF m, L
  <2>3. \A i \in m .. L : i = m \/ i \in m + 1 .. L
    <3>1. m \in Nat /\ L \in Nat
      BY <1>1, <2>2
    <3> QED
      BY <3>1
  <2> QED
    BY <2>1, <2>2, <2>3 DEF m, L
<1>4. S = Nat
  <2> HIDE DEF S
  <2>1. S \in SUBSET Nat
    BY DEF S
  <2> QED
    BY <1>2, <1>3, <2>1, Induction
<1>5. L - 1 \in Nat /\ L - 1 < L /\ L - (L - 1) = 1
  BY <1>1
<1>6. L - 1 \in S
  BY <1>4, <1>5
<1> QED
  BY <1>5, <1>6 DEF EndsIn

-----------------------------------------------------------------------------
(***************************************************************************)
(* The way that an unwinding takes from a position of the stack down.      *)
(***************************************************************************)
RouteAt(stack, i, s, t) == Route(Prefix(stack, i), s, t)
EndsAt(stack, i, s, t)  == \E j \in 1 .. i : Ends(stack[j], s, t)

\* All that it depends on.
SameAs(a, b) ==
    /\ a.kind = b.kind /\ a.id = b.id /\ a.when = b.when /\ a.body = b.body
    /\ a.type = b.type /\ a.to = b.to

Catch(a) == [id |-> a.id, type |-> a.type]

LEMMA CatchTypesIs ==
    ASSUME NEW stack, IsStack(stack)
    PROVE  \E f : Lists(f, 0, Len(stack), [i \in 1 .. Len(stack) |-> stack[i].kind = "CATCH"],
                        [i \in 1 .. Len(stack) |-> Catch(stack[i])]) /\ CatchTypes(stack) = f[Len(stack)]
<1> DEFINE L == Len(stack)
           c == [i \in 1 .. L |-> stack[i].kind = "CATCH"]
           x == [i \in 1 .. L |-> Catch(stack[i])]
           val(f, i) == IF i = 0 THEN <<>> ELSE IF c[i] THEN <<x[i]>> \o f[i - 1] ELSE f[i - 1]
           case(f, i) == CASE i = 0 -> <<>>
                           [] i > 0 /\ stack[i].kind = "CATCH" ->
                                 <<[id |-> stack[i].id, type |-> stack[i].type]>> \o f[i - 1]
                           [] OTHER -> f[i - 1]
<1>1. L \in Nat /\ 0 + L = L
  BY DEF IsStack
<1>2. PICK f : Lists(f, 0, L, c, x)
  <2> HIDE DEF L, c, x
  <2> QED
    BY <1>1, ListExists
<1>3. \A h : \A i \in 0 .. L : val(h, i) = case(h, i)
  <2>1. SUFFICES ASSUME NEW h, NEW i \in 0 .. L PROVE val(h, i) = case(h, i)
    OBVIOUS
  <2>2. i = 0 \/ (i \in 1 .. L /\ i > 0 /\ i # 0)
    BY <1>1
  <2>3. CASE i = 0
    BY <2>3
  <2>4. CASE i \in 1 .. L /\ i > 0 /\ i # 0
    BY <2>4 DEF Catch
  <2> QED
    BY <2>2, <2>3, <2>4
<1>4. \A h : [i \in 0 .. L |-> val(h, i)] = [i \in 0 .. L |-> case(h, i)]
  <2> HIDE DEF val, case
  <2> QED
    BY <1>3
<1>5. f = [i \in 0 .. L |-> case(f, i)]
  BY <1>2, <1>4 DEF Lists
<1>6. PICK from : from = [i \in 0 .. L |-> case(from, i)] /\ CatchTypes(stack) = from[L]
  BY <1>5, Zenon DEF CatchTypes
<1>7. Lists(from, 0, L, c, x)
  <2> HIDE DEF case
  <2> QED
    BY <1>4, <1>6 DEF Lists
<1> QED
  BY <1>6, <1>7

LEMMA CatchTypesStep ==
    ASSUME NEW stack, IsStack(stack)
    PROVE  /\ CatchTypes(Prefix(stack, 1)) = <<>>
           /\ \A i \in 2 .. Len(stack) :
                CatchTypes(Prefix(stack, i)) =
                    IF stack[i].kind = "CATCH" THEN <<Catch(stack[i])>> \o CatchTypes(Prefix(stack, i - 1))
                    ELSE CatchTypes(Prefix(stack, i - 1))
<1> DEFINE L == Len(stack)
           c == [i \in 1 .. L |-> stack[i].kind = "CATCH"]
           x == [i \in 1 .. L |-> Catch(stack[i])]
<1>1. L \in Nat \ {0} /\ \A i \in 1 .. L : i \in Nat
  BY DEF IsStack
<1>2. PICK f : Lists(f, 0, L, c, x)
  <2>1. 0 + L = L
    BY <1>1
  <2> HIDE DEF L, c, x
  <2> QED
    BY <1>1, <2>1, ListExists
<1>3. ASSUME NEW n \in 1 .. L PROVE CatchTypes(Prefix(stack, n)) = f[n]
  <2>1. IsStack(Prefix(stack, n)) /\ Len(Prefix(stack, n)) = n /\ \A i \in 1 .. n : Prefix(stack, n)[i] = stack[i]
    BY PrefixIs
  <2> DEFINE d == [i \in 1 .. n |-> Prefix(stack, n)[i].kind = "CATCH"]
             y == [i \in 1 .. n |-> Catch(Prefix(stack, n)[i])]
  <2>2. PICK g : Lists(g, 0, n, d, y) /\ CatchTypes(Prefix(stack, n)) = g[n]
    BY <2>1, CatchTypesIs
  <2>3. n \in Nat /\ n <= L /\ 0 + n = n /\ L \in Nat
    BY <1>1
  <2>4. \A i \in 0 + 1 .. n : (c[i] <=> d[i]) /\ x[i] = y[i]
    BY <2>1, <2>3
  <2> HIDE DEF c, d, x, y, L
  <2>5. 0 \in Nat /\ 0 <= n
    BY <2>3
  <2>6. f[n] = g[n]
    BY <1>2, <2>2, <2>3, <2>4, <2>5, ListUnique
  <2> QED
    BY <2>2, <2>6
<1>4. f = [i \in 0 .. L |-> IF i = 0 THEN <<>> ELSE IF c[i] THEN <<x[i]>> \o f[i - 1] ELSE f[i - 1]]
  BY <1>2 DEF Lists
<1>5. \A i \in 0 .. L : f[i] = IF i = 0 THEN <<>> ELSE IF c[i] THEN <<x[i]>> \o f[i - 1] ELSE f[i - 1]
  <2> HIDE DEF c, x, L
  <2> QED
    BY <1>4
<1>6. CatchTypes(Prefix(stack, 1)) = <<>>
  <2>1. 1 \in 1 .. L /\ 1 \in 0 .. L /\ 0 \in 0 .. L /\ 1 - 1 = 0 /\ ~c[1]
    <3>1. 1 \in 1 .. L /\ 1 \in 0 .. L /\ 0 \in 0 .. L /\ 1 - 1 = 0
      BY <1>1
    <3>2. stack[1].kind = "FUNCTIONMARKER"
      BY <3>1 DEF IsStack
    <3> QED
      BY <3>1, <3>2
  <2> HIDE DEF c, x, L
  <2>2. f[1] = f[0] /\ f[0] = <<>>
    BY <1>5, <2>1
  <2> QED
    BY <1>3, <2>1, <2>2
<1>7. ASSUME NEW i \in 2 .. L
      PROVE  CatchTypes(Prefix(stack, i)) =
                IF stack[i].kind = "CATCH" THEN <<Catch(stack[i])>> \o CatchTypes(Prefix(stack, i - 1))
                ELSE CatchTypes(Prefix(stack, i - 1))
  <2>1. i \in 1 .. L /\ i - 1 \in 1 .. L /\ i \in 0 .. L /\ i # 0
    BY <1>1
  <2>2. c[i] = (stack[i].kind = "CATCH") /\ x[i] = Catch(stack[i])
    BY <2>1
  <2> HIDE DEF c, x, L
  <2>3. f[i] = IF c[i] THEN <<x[i]>> \o f[i - 1] ELSE f[i - 1]
    BY <1>5, <2>1
  <2> QED
    BY <1>3, <2>1, <2>2, <2>3
<1> QED
  BY <1>6, <1>7

LEMMA CatchTypesTyped ==
    ASSUME NEW stack, IsStack(stack)
    PROVE  CatchTypes(stack) \in Seq([id : {stack[i].id : i \in {j \in 1 .. Len(stack) : stack[j].kind = "CATCH"}}, type : Types])
<1> DEFINE L == Len(stack)
           c == [i \in 1 .. L |-> stack[i].kind = "CATCH"]
           x == [i \in 1 .. L |-> Catch(stack[i])]
           V == [id : {stack[i].id : i \in {j \in 1 .. Len(stack) : stack[j].kind = "CATCH"}}, type : Types]
<1>1. L \in Nat /\ 0 <= L /\ L \in 0 .. L
  BY DEF IsStack
<1>2. PICK f : Lists(f, 0, L, c, x) /\ CatchTypes(stack) = f[L]
  BY CatchTypesIs
<1>3. \A i \in 0 + 1 .. L : c[i] => x[i] \in V
  <2>1. SUFFICES ASSUME NEW i \in 1 .. L, stack[i].kind = "CATCH" PROVE Catch(stack[i]) \in V
    <3>1. \A i \in 0 + 1 .. L : i \in 1 .. L
      BY <1>1
    <3>2. \A i \in 1 .. L : c[i] = (stack[i].kind = "CATCH") /\ x[i] = Catch(stack[i])
      OBVIOUS
    <3> HIDE DEF c, x, L, V
    <3> QED
      BY <3>1, <3>2
  <2>2. stack[i].type \in Types
    BY <2>1 DEF IsStack
  <2> QED
    BY <2>1, <2>2 DEF Catch
<1>4. \A i \in 0 .. L : f[i] \in Seq(V)
  <2> HIDE DEF c, x, L, V
  <2> QED
    BY <1>1, <1>2, <1>3, ListTyped
<1> QED
  BY <1>1, <1>2, <1>4

LEMMA PlanIs ==
    ASSUME NEW stack, IsStack(stack), NEW s \in Modes, NEW t \in Keys(s), NEW n \in 1 .. Len(stack),
           Ends(stack[n], s, t), \A i \in n + 1 .. Len(stack) : ~Ends(stack[i], s, t)
    PROVE  \E f : /\ Lists(f, n, Len(stack), [i \in 1 .. Len(stack) |-> Runs(stack[i], s)],
                           [i \in 1 .. Len(stack) |-> stack[i].id])
                  /\ Plan(stack, s, t) = [todo |-> f[Len(stack)], goal |-> stack[n].to[s]]
<1> DEFINE L == Len(stack)
           T == Target(stack, s, t)
           c == [i \in 1 .. L |-> Runs(stack[i], s)]
           x == [i \in 1 .. L |-> stack[i].id]
           val(f, i) == IF i = n THEN <<>> ELSE IF c[i] THEN <<x[i]>> \o f[i - 1] ELSE f[i - 1]
           case(f, i) == CASE i = T -> <<>>
                           [] i > T /\ MustRun(stack, i, s) -> <<stack[i].id>> \o f[i - 1]
                           [] OTHER -> f[i - 1]
<1>1. L \in Nat /\ n \in Nat /\ n <= L /\ L - n \in Nat /\ n + (L - n) = L
  BY DEF IsStack
<1>2. PICK f : Lists(f, n, L, c, x)
  <2> HIDE DEF L, c, x
  <2>1. \E f : Lists(f, n, n + (L - n), c, x)
    BY <1>1, ListExists
  <2> QED
    BY <1>1, <2>1
<1>3. T = n
  BY TargetIs
<1>4. \A h : \A i \in n .. L : val(h, i) = case(h, i)
  <2>1. SUFFICES ASSUME NEW h, NEW i \in n .. L PROVE val(h, i) = case(h, i)
    OBVIOUS
  <2>2. i \in 1 .. L /\ (i = n \/ (i > n /\ i # n))
    BY <1>1
  <2>3. c[i] = Runs(stack[i], s) /\ x[i] = stack[i].id /\ (MustRun(stack, i, s) <=> Runs(stack[i], s))
    BY <2>2, MustRunIs
  <2> HIDE DEF c, x, T, L
  <2>4. CASE i = n
    BY <1>3, <2>4
  <2>5. CASE i > n /\ i # n
    BY <1>3, <2>3, <2>5
  <2> QED
    BY <2>2, <2>4, <2>5
<1>5. \A h : [i \in n .. L |-> val(h, i)] = [i \in n .. L |-> case(h, i)]
  <2> HIDE DEF val, case, L
  <2> QED
    BY <1>4
<1>6. f = [i \in n .. L |-> case(f, i)]
  BY <1>2, <1>5 DEF Lists
<1>7. f = [i \in T .. L |-> case(f, i)]
  BY <1>3, <1>6
<1>8. \E h : h = [i \in T .. L |-> case(h, i)] /\ Plan(stack, s, t) = [todo |-> h[L],
            goal |-> stack[T].to[IF s \in ExceptionStates THEN "Throw" ELSE s]]
  BY <1>7, Zenon DEF Plan
<1>9. PICK from : from = [i \in T .. L |-> case(from, i)] /\ Plan(stack, s, t) = [todo |-> from[L],
            goal |-> stack[T].to[IF s \in ExceptionStates THEN "Throw" ELSE s]]
  BY <1>8
<1>10. (IF s \in ExceptionStates THEN "Throw" ELSE s) = s
  BY DEF Modes, ExceptionStates
<1>11. Lists(from, n, L, c, x)
  <2> HIDE DEF case, T, L
  <2> QED
    BY <1>3, <1>5, <1>9 DEF Lists
<1>12. Plan(stack, s, t) = [todo |-> from[L], goal |-> stack[n].to[s]]
  <2> HIDE DEF T, L, case
  <2> QED
    BY <1>3, <1>9, <1>10
<1> QED
  BY <1>11, <1>12

LEMMA PlanEnd ==
    ASSUME NEW stack, IsStack(stack), NEW s \in Modes, NEW t \in Keys(s), NEW i \in 1 .. Len(stack),
           Ends(stack[i], s, t)
    PROVE  Plan(Prefix(stack, i), s, t) = [todo |-> <<>>, goal |-> stack[i].to[s]]
<1> DEFINE p == Prefix(stack, i)
<1>1. i \in Nat \ {0} /\ i \in 1 .. i /\ i + 1 .. i = {}
  BY DEF IsStack
<1>2. IsStack(p) /\ Len(p) = i /\ p[i] = stack[i]
  BY <1>1, PrefixIs
<1> DEFINE c == [j \in 1 .. Len(p) |-> Runs(p[j], s)]
           x == [j \in 1 .. Len(p) |-> p[j].id]
<1> HIDE DEF p
<1>3. PICK f : Lists(f, i, i, c, x) /\ Plan(p, s, t) = [todo |-> f[i], goal |-> p[i].to[s]]
  <2>1. i \in 1 .. Len(p) /\ Ends(p[i], s, t) /\ \A j \in i + 1 .. Len(p) : ~Ends(p[j], s, t)
    BY <1>1, <1>2
  <2> QED
    BY <1>2, <2>1, PlanIs
<1>4. f[i] = <<>>
  <2>1. i \in i .. i
    BY <1>1
  <2> QED
    BY <1>3, <2>1 DEF Lists
<1> QED
  BY <1>2, <1>3, <1>4 DEF p

LEMMA PlanBelow ==
    ASSUME NEW stack, IsStack(stack), NEW s \in Modes, NEW t \in Keys(s), NEW i \in 2 .. Len(stack),
           ~Ends(stack[i], s, t), EndsAt(stack, i - 1, s, t)
    PROVE  LET below == Plan(Prefix(stack, i - 1), s, t)
           IN  Plan(Prefix(stack, i), s, t) =
                    [todo |-> IF Runs(stack[i], s) THEN <<stack[i].id>> \o below.todo ELSE below.todo,
                     goal |-> below.goal]
<1> DEFINE p == Prefix(stack, i)
           q == Prefix(stack, i - 1)
           k == i - 1
<1>1. i \in Nat /\ k \in Nat \ {0} /\ i = k + 1 /\ i \in 1 .. Len(stack) /\ k \in 1 .. Len(stack) /\ i \in 1 .. i
  BY DEF IsStack
<1>2. IsStack(p) /\ Len(p) = i /\ \A j \in 1 .. i : p[j] = stack[j]
  BY <1>1, PrefixIs
<1>3. IsStack(q) /\ Len(q) = k /\ \A j \in 1 .. k : q[j] = stack[j]
  BY <1>1, PrefixIs
<1>4. EndsIn(q, s, t)
  BY <1>1, <1>3 DEF EndsAt, EndsIn
<1>5. PICK n \in 1 .. k : Ends(q[n], s, t) /\ \A j \in n + 1 .. k : ~Ends(q[j], s, t)
  BY <1>3, <1>4, InnermostEnd
<1> DEFINE c == [j \in 1 .. Len(p) |-> Runs(p[j], s)]
           x == [j \in 1 .. Len(p) |-> p[j].id]
           d == [j \in 1 .. Len(q) |-> Runs(q[j], s)]
           y == [j \in 1 .. Len(q) |-> q[j].id]
<1> HIDE DEF p, q, k
<1>6. n \in 1 .. i /\ Ends(p[n], s, t) /\ \A j \in n + 1 .. i : ~Ends(p[j], s, t)
  <2>1. n \in 1 .. i /\ p[n] = q[n]
    BY <1>1, <1>2, <1>3
  <2>2. ASSUME NEW j \in n + 1 .. i PROVE ~Ends(p[j], s, t)
    <3>1. CASE j = i
      BY <1>1, <1>2, <3>1
    <3>2. CASE j # i
      <4>1. j \in n + 1 .. k /\ j \in 1 .. k /\ j \in 1 .. i
        BY <1>1, <3>2
      <4> QED
        BY <1>2, <1>3, <1>5, <4>1
    <3> QED
      BY <3>1, <3>2
  <2> QED
    BY <1>5, <2>1, <2>2
<1>7. PICK f : Lists(f, n, i, c, x) /\ Plan(p, s, t) = [todo |-> f[i], goal |-> p[n].to[s]]
  BY <1>2, <1>6, PlanIs
<1>8. PICK g : Lists(g, n, k, d, y) /\ Plan(q, s, t) = [todo |-> g[k], goal |-> q[n].to[s]]
  BY <1>3, <1>5, PlanIs
<1>9. p[n] = q[n]
  BY <1>1, <1>2, <1>3
<1>10. f[k] = g[k]
  <2>1. i \in Nat /\ n \in Nat /\ k \in Nat /\ n <= k /\ k <= i
    BY <1>1
  <2>2. \A j \in n + 1 .. k : (c[j] <=> d[j]) /\ x[j] = y[j]
    <3>1. \A j \in n + 1 .. k : j \in 1 .. k /\ j \in 1 .. i
      BY <1>1
    <3> QED
      BY <1>2, <1>3, <3>1
  <2>3. Lists(f, n, i, c, x) /\ Lists(g, n, k, d, y)
    BY <1>7, <1>8
  <2> HIDE DEF c, x, d, y
  <2> QED
    BY <2>1, <2>2, <2>3, ListUnique
<1>11. c[i] = Runs(stack[i], s) /\ x[i] = stack[i].id
  BY <1>1, <1>2
<1>12. f[i] = IF Runs(stack[i], s) THEN <<stack[i].id>> \o f[k] ELSE f[k]
  <2>1. i \in n .. i /\ i # n /\ i - 1 = k
    BY <1>1
  <2> HIDE DEF c, x
  <2> QED
    BY <1>7, <1>11, <2>1 DEF Lists
<1> HIDE DEF c, x, d, y
<1>13. Plan(q, s, t).todo = f[k] /\ Plan(q, s, t).goal = p[n].to[s]
  BY <1>8, <1>9, <1>10
<1>14. Plan(p, s, t) = [todo |-> IF Runs(stack[i], s) THEN <<stack[i].id>> \o Plan(q, s, t).todo ELSE Plan(q, s, t).todo,
                        goal |-> Plan(q, s, t).goal]
  BY <1>7, <1>12, <1>13
<1> QED
  BY <1>14, Zenon DEF p, q, k

LEMMA Least ==
    ASSUME NEW S \in SUBSET Nat, S # {}
    PROVE  \E m \in S : \A y \in S : m <= y
<1> DEFINE R == OpToRel(<, Nat)
<1>1. IsWellFoundedOn(R, Nat)
  BY NatLessThanWellFounded
<1>2. PICK m \in S : \A y \in S : ~(<<y, m>> \in R)
  <2> HIDE DEF R
  <2> QED
    BY <1>1, WFMin
<1>3. \A y \in S : ~(y < m)
  BY <1>2 DEF OpToRel
<1> QED
  BY <1>3

\* The clause that handles an exception.
LEMMA HandleCons ==
    ASSUME NEW I, NEW clauses \in Seq([id : I, type : Types]), NEW c \in [id : I, type : Types],
           NEW t \in Types
    PROVE  HandleAction(<<c>> \o clauses, t) = IF IsA(t, c.type) THEN c.id ELSE HandleAction(clauses, t)
<1> DEFINE new == <<c>> \o clauses
           can == {i \in DOMAIN clauses : CanCatch(clauses[i].type, t)}
           can2 == {i \in DOMAIN new : CanCatch(new[i].type, t)}
           First(S) == CHOOSE i \in S : \A j \in S : i <= j
<1>1. /\ Len(clauses) \in Nat /\ DOMAIN clauses = 1 .. Len(clauses) /\ DOMAIN new = 1 .. Len(clauses) + 1
      /\ new[1] = c /\ \A i \in 1 .. Len(clauses) : new[i + 1] = clauses[i]
  OBVIOUS
<1>2. HandleAction(new, t) = IF can2 = {} THEN 0 ELSE new[First(can2)].id
  BY Zenon DEF HandleAction
<1>3. HandleAction(clauses, t) = IF can = {} THEN 0 ELSE clauses[First(can)].id
  BY Zenon DEF HandleAction
<1>4. CanCatch(c.type, t) <=> IsA(t, c.type)
  BY CatchesItsOwn
<1>5. \A S \in SUBSET Int : \A m \in S : (\A j \in S : m <= j) => First(S) = m
  <2>1. SUFFICES ASSUME NEW S \in SUBSET Int, NEW m \in S, \A j \in S : m <= j PROVE First(S) = m
    OBVIOUS
  <2>2. \A x \in S : (\A j \in S : x <= j) => x = m
    BY <2>1
  <2> QED
    BY <2>1, <2>2
<1>6. CASE IsA(t, c.type)
  <2>1. can2 \in SUBSET Int /\ 1 \in can2 /\ \A j \in can2 : 1 <= j
    BY <1>1, <1>4, <1>6
  <2> HIDE DEF can2, new, First
  <2>2. First(can2) = 1
    BY <1>5, <2>1
  <2> QED
    BY <1>1, <1>2, <1>6, <2>1, <2>2 DEF new
<1>7. CASE ~IsA(t, c.type)
  <2>1. \A i \in 1 .. Len(clauses) : i \in can <=> i + 1 \in can2
    BY <1>1
  <2>2. can \in SUBSET (1 .. Len(clauses)) /\ can2 \in SUBSET (2 .. Len(clauses) + 1)
    <3>1. 1 \notin can2
      BY <1>1, <1>4, <1>7
    <3> QED
      BY <1>1, <3>1
  <2> HIDE DEF can, can2, new, First
  <2>3. CASE can = {}
    <3>1. can2 = {}
      <4>1. SUFFICES ASSUME NEW i \in can2 PROVE FALSE
        OBVIOUS
      <4>2. i - 1 \in 1 .. Len(clauses) /\ (i - 1) + 1 = i
        BY <1>1, <2>2
      <4> QED
        BY <2>1, <2>3, <4>2
    <3> QED
      BY <1>2, <1>3, <1>7, <2>3, <3>1 DEF new
  <2>4. CASE can # {}
    <3>1. can \in SUBSET Nat
      BY <1>1, <2>2
    <3>2. PICK m \in can : \A y \in can : m <= y
      BY <2>4, <3>1, Least
    <3>3. can \in SUBSET Int /\ can2 \in SUBSET Int /\ m + 1 \in can2 /\ m \in 1 .. Len(clauses)
      BY <1>1, <2>1, <2>2
    <3>4. ASSUME NEW j \in can2 PROVE m + 1 <= j
      <4>1. j - 1 \in 1 .. Len(clauses) /\ (j - 1) + 1 = j
        BY <1>1, <2>2
      <4>2. m <= j - 1
        BY <2>1, <3>2, <4>1
      <4> QED
        BY <1>1, <2>2, <3>3, <4>1, <4>2
    <3>5. First(can) = m /\ First(can2) = m + 1
      BY <1>5, <3>2, <3>3, <3>4
    <3> QED
      BY <1>1, <1>2, <1>3, <1>7, <3>3, <3>5 DEF new
  <2> QED
    BY <2>3, <2>4
<1> QED
  BY <1>6, <1>7

LEMMA HandleNone == \A t : HandleAction(<<>>, t) = 0
BY DEF HandleAction

LEMMA HandleTyped ==
    ASSUME NEW I, NEW clauses \in Seq([id : I, type : Types]), NEW t
    PROVE  HandleAction(clauses, t) \in I \cup {0}
<1> DEFINE can == {i \in DOMAIN clauses : CanCatch(clauses[i].type, t)}
           m == CHOOSE i \in can : \A j \in can : i <= j
<1>1. HandleAction(clauses, t) = IF can = {} THEN 0 ELSE clauses[m].id
  BY Zenon DEF HandleAction
<1>2. CASE can # {}
  <2>1. can \in SUBSET Nat /\ can \in SUBSET (DOMAIN clauses)
    OBVIOUS
  <2> HIDE DEF can
  <2>2. \E i \in can : \A j \in can : i <= j
    BY <1>2, <2>1, Least
  <2>3. m \in DOMAIN clauses
    BY <2>1, <2>2
  <2> HIDE DEF m
  <2>4. clauses[m] \in [id : I, type : Types]
    <3>1. \A j \in DOMAIN clauses : clauses[j] \in [id : I, type : Types]
      <4>1. DOMAIN clauses = 1 .. Len(clauses)
        OBVIOUS
      <4> QED
        BY <4>1, ElementOfSeq
    <3> QED
      BY <2>3, <3>1
  <2>5. clauses[m].id \in I
    BY <2>4
  <2> QED
    BY <1>1, <1>2, <2>5
<1> QED
  BY <1>1, <1>2

LEMMA CatchTypesAt ==
    ASSUME NEW stack, IsStack(stack), NEW i \in 1 .. Len(stack)
    PROVE  CatchTypes(Prefix(stack, i)) \in
                Seq([id : {stack[j].id : j \in {k \in 1 .. Len(stack) : stack[k].kind = "CATCH"}}, type : Types])
<1> DEFINE p == Prefix(stack, i)
           I == {stack[j].id : j \in {k \in 1 .. Len(stack) : stack[k].kind = "CATCH"}}
           J == {p[j].id : j \in {k \in 1 .. Len(p) : p[k].kind = "CATCH"}}
<1>1. IsStack(p) /\ Len(p) = i /\ \A j \in 1 .. i : p[j] = stack[j]
  BY PrefixIs
<1>2. CatchTypes(p) \in Seq([id : J, type : Types])
  BY <1>1, CatchTypesTyped
<1>3. J \subseteq I
  <2>1. \A j \in 1 .. i : j \in 1 .. Len(stack)
    BY DEF IsStack
  <2> QED
    BY <1>1, <2>1
<1>4. [id : J, type : Types] \subseteq [id : I, type : Types]
  BY <1>3
<1>5. \A A, B : A \subseteq B => Seq(A) \subseteq Seq(B)
  OBVIOUS
<1> HIDE DEF I, J, p
<1>6. Seq([id : J, type : Types]) \subseteq Seq([id : I, type : Types])
  BY <1>4, <1>5, Zenon
<1> QED
  BY <1>2, <1>6 DEF p, I

LEMMA RouteEnd ==
    ASSUME NEW stack, IsStack(stack), NEW s \in Modes, NEW t \in Keys(s), NEW i \in 1 .. Len(stack),
           Ends(stack[i], s, t)
    PROVE  RouteAt(stack, i, s, t) =
                [todo |-> <<>>, goal |-> stack[i].to[s],
                 selector |-> IF stack[i].kind = "CATCH" THEN stack[i].id ELSE 0]
<1>1. Plan(Prefix(stack, i), s, t) = [todo |-> <<>>, goal |-> stack[i].to[s]]
  BY PlanEnd
<1>2. Selector(Prefix(stack, i), s, t) = IF stack[i].kind = "CATCH" THEN stack[i].id ELSE 0
  <2>1. CASE s # "Throw"
    BY <2>1 DEF Selector, Ends
  <2>2. CASE s = "Throw" /\ stack[i].kind = "FUNCTIONMARKER"
    <3>1. i = 1
      BY <2>2 DEF IsStack
    <3>2. CatchTypes(Prefix(stack, i)) = <<>>
      BY <3>1, CatchTypesStep
    <3> QED
      BY <2>2, <3>2, HandleNone DEF Selector
  <2>3. CASE s = "Throw" /\ stack[i].kind = "CATCH"
    <3> DEFINE I == {stack[j].id : j \in {k \in 1 .. Len(stack) : stack[k].kind = "CATCH"}}
               below == CatchTypes(Prefix(stack, i - 1))
    <3>1. i # 1 /\ i \in 2 .. Len(stack) /\ i - 1 \in 1 .. Len(stack)
      BY <2>3 DEF IsStack
    <3>2. CatchTypes(Prefix(stack, i)) = <<Catch(stack[i])>> \o below
      BY <2>3, <3>1, CatchTypesStep
    <3>3. t \in Types /\ IsA(t, stack[i].type)
      BY <2>3 DEF Keys, Ends
    <3>4. Catch(stack[i]) \in [id : I, type : Types] /\ Catch(stack[i]).type = stack[i].type /\ Catch(stack[i]).id = stack[i].id
      <4>1. stack[i].type \in Types
        BY <2>3 DEF IsStack
      <4> QED
        BY <2>3, <4>1 DEF Catch
    <3>5. below \in Seq([id : I, type : Types])
      BY <3>1, CatchTypesAt
    <3> HIDE DEF I, below
    <3> QED
      BY <2>3, <3>2, <3>3, <3>4, <3>5, HandleCons DEF Selector
  <2> QED
    BY <2>1, <2>2, <2>3 DEF Ends
<1> QED
  BY <1>1, <1>2 DEF RouteAt, Route

LEMMA RouteBelow ==
    ASSUME NEW stack, IsStack(stack), NEW s \in Modes, NEW t \in Keys(s), NEW i \in 2 .. Len(stack),
           ~Ends(stack[i], s, t), EndsAt(stack, i - 1, s, t)
    PROVE  LET below == RouteAt(stack, i - 1, s, t)
           IN  RouteAt(stack, i, s, t) =
                    [todo |-> IF Runs(stack[i], s) THEN <<stack[i].id>> \o below.todo ELSE below.todo,
                     goal |-> below.goal, selector |-> below.selector]
<1>1. Selector(Prefix(stack, i), s, t) = Selector(Prefix(stack, i - 1), s, t)
  <2>1. CASE s # "Throw"
    BY <2>1 DEF Selector
  <2>2. CASE s = "Throw" /\ stack[i].kind # "CATCH"
    BY <2>2, CatchTypesStep DEF Selector
  <2>3. CASE s = "Throw" /\ stack[i].kind = "CATCH"
    <3> DEFINE I == {stack[j].id : j \in {k \in 1 .. Len(stack) : stack[k].kind = "CATCH"}}
               below == CatchTypes(Prefix(stack, i - 1))
    <3>1. i \in 1 .. Len(stack) /\ i - 1 \in 1 .. Len(stack)
      BY DEF IsStack
    <3>2. CatchTypes(Prefix(stack, i)) = <<Catch(stack[i])>> \o below
      BY <2>3, <3>1, CatchTypesStep
    <3>3. t \in Types /\ ~IsA(t, stack[i].type)
      BY <2>3 DEF Keys, Ends
    <3>4. Catch(stack[i]) \in [id : I, type : Types] /\ Catch(stack[i]).type = stack[i].type
      <4>1. stack[i].type \in Types
        BY <2>3, <3>1 DEF IsStack
      <4> QED
        BY <2>3, <3>1, <4>1 DEF Catch
    <3>5. below \in Seq([id : I, type : Types])
      BY <3>1, CatchTypesAt
    <3> HIDE DEF I
    <3>6. HandleAction(<<Catch(stack[i])>> \o below, t) = HandleAction(below, t)
      <4> HIDE DEF below
      <4> QED
        BY <3>3, <3>4, <3>5, HandleCons
    <3> QED
      BY <2>3, <3>2, <3>6 DEF Selector
  <2> QED
    BY <2>1, <2>2, <2>3
<1> DEFINE p == Plan(Prefix(stack, i - 1), s, t)
<1>2. Plan(Prefix(stack, i), s, t) =
            [todo |-> IF Runs(stack[i], s) THEN <<stack[i].id>> \o p.todo ELSE p.todo, goal |-> p.goal]
  BY PlanBelow
<1> QED
  BY <1>1, <1>2 DEF RouteAt, Route

\* It depends on nothing else.
LEMMA RouteSame ==
    ASSUME NEW a, IsStack(a), NEW b, IsStack(b), NEW s \in Modes, NEW t \in Keys(s),
           NEW n \in Nat, n <= Len(a), n <= Len(b), \A i \in 1 .. n : SameAs(a[i], b[i]),
           EndsAt(a, n, s, t)
    PROVE  EndsAt(b, n, s, t) /\ RouteAt(a, n, s, t) = RouteAt(b, n, s, t)
<1> DEFINE S == {k \in Nat : k <= n /\ EndsAt(a, k, s, t) =>
                    EndsAt(b, k, s, t) /\ RouteAt(a, k, s, t) = RouteAt(b, k, s, t)}
<1>1. \A i \in 1 .. n : (Ends(a[i], s, t) <=> Ends(b[i], s, t)) /\ (Runs(a[i], s) <=> Runs(b[i], s))
  BY DEF SameAs, Ends, Runs, IsTerminator, IsActiveForState, ActiveStates
<1>2. 0 \in S
  BY DEF EndsAt
<1>3. ASSUME NEW k \in S PROVE k + 1 \in S
  <2>1. SUFFICES ASSUME k + 1 <= n, EndsAt(a, k + 1, s, t)
                 PROVE  EndsAt(b, k + 1, s, t) /\ RouteAt(a, k + 1, s, t) = RouteAt(b, k + 1, s, t)
    OBVIOUS
  <2>2. k \in Nat /\ (k <= n /\ EndsAt(a, k, s, t) =>
                    EndsAt(b, k, s, t) /\ RouteAt(a, k, s, t) = RouteAt(b, k, s, t))
    OBVIOUS
  <2>3. Len(a) \in Nat /\ Len(b) \in Nat
    BY DEF IsStack
  <2>4. k + 1 \in 1 .. n /\ k + 1 \in 1 .. Len(a) /\ k + 1 \in 1 .. Len(b) /\ (k + 1) - 1 = k /\ k <= n /\ k + 1 \in 1 .. k + 1
    BY <2>1, <2>2, <2>3
  <2>5. SameAs(a[k + 1], b[k + 1])
    BY <2>4
  <2>6. CASE Ends(a[k + 1], s, t)
    <3>1. Ends(b[k + 1], s, t)
      BY <1>1, <2>4, <2>6
    <3>2. EndsAt(b, k + 1, s, t)
      BY <2>4, <3>1 DEF EndsAt
    <3> QED
      BY <2>4, <2>5, <2>6, <3>1, <3>2, RouteEnd DEF SameAs
  <2>7. CASE ~Ends(a[k + 1], s, t)
    <3>1. ~Ends(b[k + 1], s, t)
      BY <1>1, <2>4, <2>7
    <3>2. EndsAt(a, k, s, t)
      <4>1. PICK j \in 1 .. k + 1 : Ends(a[j], s, t)
        BY <2>1 DEF EndsAt
      <4>2. j \in 1 .. k
        BY <2>2, <2>7, <4>1
      <4> QED
        BY <4>1, <4>2 DEF EndsAt
    <3>3. EndsAt(b, k, s, t) /\ RouteAt(a, k, s, t) = RouteAt(b, k, s, t)
      BY <2>2, <2>4, <3>2
    <3>4. k + 1 \in 2 .. Len(a) /\ k + 1 \in 2 .. Len(b)
      <4>1. k # 0
        BY <3>2 DEF EndsAt
      <4> QED
        BY <2>2, <2>3, <2>4, <4>1
    <3>5. EndsAt(a, (k + 1) - 1, s, t) /\ EndsAt(b, (k + 1) - 1, s, t)
      BY <2>4, <3>2, <3>3
    <3>6. RouteAt(a, k + 1, s, t) =
                [todo |-> IF Runs(a[k + 1], s) THEN <<a[k + 1].id>> \o RouteAt(a, k, s, t).todo ELSE RouteAt(a, k, s, t).todo,
                 goal |-> RouteAt(a, k, s, t).goal, selector |-> RouteAt(a, k, s, t).selector]
      BY <2>4, <2>7, <3>4, <3>5, RouteBelow
    <3>7. RouteAt(b, k + 1, s, t) =
                [todo |-> IF Runs(b[k + 1], s) THEN <<b[k + 1].id>> \o RouteAt(b, k, s, t).todo ELSE RouteAt(b, k, s, t).todo,
                 goal |-> RouteAt(b, k, s, t).goal, selector |-> RouteAt(b, k, s, t).selector]
      BY <2>4, <3>1, <3>4, <3>5, RouteBelow
    <3>8. EndsAt(b, k + 1, s, t)
      <4>1. \A j \in 1 .. k : j \in 1 .. k + 1
        BY <2>2
      <4> QED
        BY <3>3, <4>1 DEF EndsAt
    <3>9. (Runs(a[k + 1], s) <=> Runs(b[k + 1], s)) /\ a[k + 1].id = b[k + 1].id
      BY <1>1, <2>4, <2>5 DEF SameAs
    <3> QED
      BY <3>3, <3>6, <3>7, <3>8, <3>9
  <2> QED
    BY <2>6, <2>7
<1>4. S = Nat
  <2> HIDE DEF S
  <2>1. S \in SUBSET Nat
    BY DEF S
  <2> QED
    BY <1>2, <1>3, <2>1, Induction
<1>5. n \in S /\ n <= n
  BY <1>4
<1> QED
  BY <1>5

\* Nothing happens where there is nothing to be run.
LEMMA RouteInactive ==
    ASSUME NEW stack, IsStack(stack), NEW s \in Modes, NEW t \in Keys(s),
           NEW i \in 1 .. Len(stack), NEW n \in i .. Len(stack), EndsAt(stack, i, s, t),
           \A j \in i + 1 .. n : ~Ends(stack[j], s, t) /\ ~Runs(stack[j], s)
    PROVE  EndsAt(stack, n, s, t) /\ RouteAt(stack, n, s, t) = RouteAt(stack, i, s, t)
<1> DEFINE S == {k \in Nat : i + k <= n =>
                    EndsAt(stack, i + k, s, t) /\ RouteAt(stack, i + k, s, t) = RouteAt(stack, i, s, t)}
<1>0. i \in Nat \ {0} /\ n \in Nat /\ Len(stack) \in Nat /\ i <= n /\ n <= Len(stack)
  BY DEF IsStack
<1>1. 0 \in S
  <2>1. i + 0 = i
    BY <1>0
  <2> QED
    BY <2>1
<1>2. ASSUME NEW k \in S PROVE k + 1 \in S
  <2> DEFINE m == i + (k + 1)
  <2>1. SUFFICES ASSUME m <= n PROVE EndsAt(stack, m, s, t) /\ RouteAt(stack, m, s, t) = RouteAt(stack, i, s, t)
    OBVIOUS
  <2>2. k \in Nat /\ m \in i + 1 .. n /\ m \in 2 .. Len(stack) /\ m - 1 = i + k /\ i + k <= n /\ m \in Nat
    BY <1>0, <2>1
  <2>3. EndsAt(stack, m - 1, s, t) /\ RouteAt(stack, m - 1, s, t) = RouteAt(stack, i, s, t)
    BY <2>2
  <2> HIDE DEF m
  <2>4. ~Ends(stack[m], s, t) /\ ~Runs(stack[m], s)
    BY <2>2
  <2>5. EndsAt(stack, m, s, t)
    <3>1. \A j \in 1 .. m - 1 : j \in 1 .. m
      BY <2>2
    <3> QED
      BY <2>3, <3>1 DEF EndsAt
  <2>6. RouteAt(stack, m, s, t) =
            [todo |-> IF Runs(stack[m], s) THEN <<stack[m].id>> \o RouteAt(stack, m - 1, s, t).todo
                      ELSE RouteAt(stack, m - 1, s, t).todo,
             goal |-> RouteAt(stack, m - 1, s, t).goal, selector |-> RouteAt(stack, m - 1, s, t).selector]
    BY <2>2, <2>3, <2>4, RouteBelow
  <2>7. RouteAt(stack, i, s, t) = [todo |-> RouteAt(stack, i, s, t).todo, goal |-> RouteAt(stack, i, s, t).goal,
                                   selector |-> RouteAt(stack, i, s, t).selector]
    BY DEF RouteAt, Route
  <2> QED
    BY <2>3, <2>4, <2>5, <2>6, <2>7
<1>3. S = Nat
  <2> HIDE DEF S
  <2>1. S \in SUBSET Nat
    BY DEF S
  <2> QED
    BY <1>1, <1>2, <2>1, Induction
<1>4. n - i \in Nat /\ i + (n - i) = n
  BY <1>0
<1>5. n - i \in S
  BY <1>3, <1>4
<1> QED
  BY <1>0, <1>4, <1>5

-----------------------------------------------------------------------------
(***************************************************************************)
(* What the generated code does.  W is the set of the ways on which        *)
(* unwinding may come through the code: <<b, s, t, r>> when it may be at   *)
(* block b in state s, for an exception of type t, with the rest r of its  *)
(* route before it.                                                        *)
(***************************************************************************)
Routes == [todo : Seq(Nat), goal : Nat, selector : Nat]

\* What is left of a route when its first action has been performed.
Rest(r) == [r EXCEPT !.todo = Tail(@)]

\* What unwindState is during an unwinding in state s.
Stored(s) == IF s = "Throw" THEN "Normal" ELSE s

IsCode(code) == \E S : code \in Seq(S)

Arrived(code, b, r) == b \in 1 .. Len(code) /\ code[b].op = "point" /\ r.todo = <<>> /\ r.goal = b

Reaches(code, W, b, s, t, r) ==
    \/ <<b, s, t, r>> \in W
    \/ Arrived(code, b, r) /\ (b \in {Returned, Resumed} \/ Stored(s) = "Normal")

\* What is thrown takes the way that was planned for it.
Thrown(code, W, pad, plans) ==
    IF pad = 0 THEN \A t \in Types : plans[t].todo = <<>> /\ plans[t].goal = Resumed
    ELSE /\ pad \in 1 .. Len(code) /\ code[pad].op = "pad"
         /\ \A t \in Types : \E r : /\ r.todo = plans[t].todo /\ r.goal = plans[t].goal
                                    /\ <<pad, "Throw", t, r>> \in W

ActWay(code, W, c, s, t, r) ==
    /\ r.todo # <<>> /\ Head(r.todo) = c.id
    /\ Reaches(code, W, Successor(c, Stored(s)), s, t, Rest(r))
    /\ c.body = "try" => s # "Throw"
    /\ c.body \in {"loop", "mayThrow"} => Stored(s) = "Normal"

JumpWay(code, W, c, s, t, r) ==
    IF c.store = Keep THEN Reaches(code, W, c.next, s, t, r)
    ELSE c.store = "Normal" /\ Arrived(code, c.next, r)

PadWay(code, W, c, s, t, r) ==
    /\ s = "Throw" /\ c.store = Keep
    /\ HandleAction(c.clauses, t) = r.selector
    /\ Reaches(code, W, c.next, s, t, r)

DispatchWay(code, W, c, s, t, r) ==
    LET k    == FirstFor(c.types, t)
        base == c.id - c.nth
    IN  /\ s = "Throw"
        /\ k # 0 => k >= c.nth /\ r.goal = c.start /\ r.todo = <<>> /\ r.selector = base + k
        /\ k = 0 => r.selector \notin base + 1 .. base + Len(c.types)
        /\ c.next # 0 /\ r.selector # c.id => Reaches(code, W, c.next, s, t, r)

WayOK(code, W, c, s, t, r) ==
    /\ s \in Modes /\ t \in Keys(s) /\ r \in Routes
    /\ c.op \in {"act", "jump", "pad", "dispatch"}
    /\ c.op = "act"      => ActWay(code, W, c, s, t, r)
    /\ c.op = "jump"     => JumpWay(code, W, c, s, t, r)
    /\ c.op = "pad"      => PadWay(code, W, c, s, t, r)
    /\ c.op = "dispatch" => DispatchWay(code, W, c, s, t, r)

Ops == {"point", "exit", "throw", "act", "jump", "pad", "dispatch"}
Ordinary == {"point", "exit", "throw"}

\* The fields of the blocks that are changed.
ActForm(c) ==
    \E id, body, cases, pad, next :
        c = [op |-> "act", id |-> id, body |-> body, cases |-> cases, pad |-> pad, next |-> next]
PointForm(c) == \E succ : c = [op |-> "point", succ |-> succ]
DispatchForm(c) ==
    \E start, id, types, nth, next, handler :
        c = [op |-> "dispatch", start |-> start, id |-> id, types |-> types, nth |-> nth,
             next |-> next, handler |-> handler]

PointOK(code, b, c) ==
    /\ PointForm(c)
    /\ \A n \in c.succ : n \in 1 .. Len(code) /\ code[n].op \in Ordinary
    /\ b \in {Returned, Resumed} => c.succ = {}

ExitOK(code, W, c) ==
    /\ c.store \in {Keep} \cup NormalStates
    /\ Reaches(code, W, c.next, IF c.store = Keep THEN "Normal" ELSE c.store, NoType,
               [todo |-> c.plan.todo, goal |-> c.plan.goal, selector |-> 0])

Branches == Seq([state : Modes, next : Nat])

CasesOK(W, b, c) ==
    /\ c.cases \in Branches
    /\ \A k \in 1 .. Len(c.cases) : c.cases[k].state # "Throw" => \E r : <<b, c.cases[k].state, NoType, r>> \in W

ActOK(code, W, plans, b, c) ==
    /\ ActForm(c) /\ CasesOK(W, b, c)
    /\ c.body = "mayThrow" => c.id \in DOMAIN plans /\ Thrown(code, W, c.pad, plans[c.id])

DispatchOK(code, c) ==
    /\ DispatchForm(c)
    /\ c.types \in Seq(Types) /\ c.nth \in 1 .. Len(c.types)
    /\ c.id \in Nat /\ c.nth <= c.id /\ c.start \in 1 .. Len(code)
    /\ c.handler # 0 => c.handler \in 1 .. Len(code) /\ code[c.handler].op = "point"

BlockOK(code, W, plans, b, c) ==
    /\ c.op \in Ops
    /\ c.op = "point"    => PointOK(code, b, c)
    /\ c.op = "exit"     => ExitOK(code, W, c)
    /\ c.op = "throw"    => Thrown(code, W, c.pad, c.plans)
    /\ c.op = "act"      => ActOK(code, W, plans, b, c)
    /\ c.op = "pad"      => c.clauses # <<>> \/ c.cleanup
    /\ c.op = "dispatch" => DispatchOK(code, c)

CodeOK(code, W, plans) ==
    /\ IsCode(code)
    /\ \A b \in 1 .. Len(code) : BlockOK(code, W, plans, b, code[b])
    /\ \A b, s, t, r : <<b, s, t, r>> \in W => b \in 1 .. Len(code) /\ WayOK(code, W, code[b], s, t, r)

\* The code grows, and what was there keeps its meaning.
Keeps(code, code2) == Len(code) <= Len(code2) /\ \A b \in 1 .. Len(code) : code2[b].op = code[b].op
KeepsPlans(plans, plans2) == \A n \in DOMAIN plans : n \in DOMAIN plans2 /\ plans2[n] = plans[n]

LEMMA ReachesMore ==
    ASSUME NEW code, NEW code2, NEW W, NEW W2, Len(code) \in Nat, Len(code2) \in Nat, Keeps(code, code2), W \subseteq W2
    PROVE  /\ \A b, r : Arrived(code, b, r) => Arrived(code2, b, r)
           /\ \A b, s, t, r : Reaches(code, W, b, s, t, r) => Reaches(code2, W2, b, s, t, r)
           /\ \A pad, plans : Thrown(code, W, pad, plans) => Thrown(code2, W2, pad, plans)
<1>1. \A b \in 1 .. Len(code) : b \in 1 .. Len(code2) /\ code2[b].op = code[b].op
  BY DEF Keeps
<1>2. \A b, r : Arrived(code, b, r) => Arrived(code2, b, r)
  BY <1>1 DEF Arrived
<1>3. \A b, s, t, r : Reaches(code, W, b, s, t, r) => Reaches(code2, W2, b, s, t, r)
  BY <1>2 DEF Reaches
<1>4. ASSUME NEW pad, NEW plans, Thrown(code, W, pad, plans) PROVE Thrown(code2, W2, pad, plans)
  <2>1. CASE pad = 0
    BY <1>4, <2>1 DEF Thrown
  <2>2. CASE pad # 0
    <3>1. pad \in 1 .. Len(code2) /\ code2[pad].op = "pad"
      BY <1>1, <1>4, <2>2 DEF Thrown
    <3>2. ASSUME NEW t \in Types PROVE \E r : r.todo = plans[t].todo /\ r.goal = plans[t].goal /\ <<pad, "Throw", t, r>> \in W2
      BY <1>4, <2>2 DEF Thrown
    <3> QED
      BY <2>2, <3>1, <3>2 DEF Thrown
  <2> QED
    BY <2>1, <2>2
<1> QED
  BY <1>2, <1>3, <1>4

LEMMA WayMore ==
    ASSUME NEW code, NEW code2, NEW W, NEW W2, Len(code) \in Nat, Len(code2) \in Nat, Keeps(code, code2), W \subseteq W2,
           NEW c, NEW s, NEW t, NEW r, WayOK(code, W, c, s, t, r)
    PROVE  WayOK(code2, W2, c, s, t, r)
<1>1. /\ \A n, q : Arrived(code, n, q) => Arrived(code2, n, q)
      /\ \A n, u, x, q : Reaches(code, W, n, u, x, q) => Reaches(code2, W2, n, u, x, q)
  BY ReachesMore
<1>2. c.op = "act" => ActWay(code2, W2, c, s, t, r)
  BY <1>1, Zenon DEF WayOK, ActWay
<1>3. c.op = "jump" => JumpWay(code2, W2, c, s, t, r)
  BY <1>1, Zenon DEF WayOK, JumpWay
<1>4. c.op = "pad" => PadWay(code2, W2, c, s, t, r)
  BY <1>1, Zenon DEF WayOK, PadWay
<1>5. c.op = "dispatch" => DispatchWay(code2, W2, c, s, t, r)
  BY <1>1, Zenon DEF WayOK, DispatchWay
<1> QED
  BY <1>2, <1>3, <1>4, <1>5, Zenon DEF WayOK

LEMMA BlockMore ==
    ASSUME NEW code, NEW code2, NEW W, NEW W2, Len(code) \in Nat, Len(code2) \in Nat, Keeps(code, code2), W \subseteq W2,
           NEW plans, NEW plans2, KeepsPlans(plans, plans2),
           NEW b, NEW c, BlockOK(code, W, plans, b, c)
    PROVE  BlockOK(code2, W2, plans2, b, c)
<1>1. /\ \A n, u, x, q : Reaches(code, W, n, u, x, q) => Reaches(code2, W2, n, u, x, q)
      /\ \A pad, p : Thrown(code, W, pad, p) => Thrown(code2, W2, pad, p)
  BY ReachesMore
<1>2. \A n \in 1 .. Len(code) : n \in 1 .. Len(code2) /\ code2[n].op = code[n].op
  BY DEF Keeps
<1>3. c.op = "point" => PointOK(code2, b, c)
  BY <1>2 DEF BlockOK, PointOK
<1>4. c.op = "exit" => ExitOK(code2, W2, c)
  BY <1>1, Zenon DEF BlockOK, ExitOK
<1>5. c.op = "throw" => Thrown(code2, W2, c.pad, c.plans)
  BY <1>1, Zenon DEF BlockOK
<1>6. c.op = "act" => ActOK(code2, W2, plans2, b, c)
  <2>1. c.op = "act" => CasesOK(W2, b, c)
    BY DEF BlockOK, ActOK, CasesOK
  <2> QED
    BY <1>1, <2>1, Zenon DEF BlockOK, ActOK, KeepsPlans
<1>7. c.op = "dispatch" => DispatchOK(code2, c)
  BY <1>2 DEF BlockOK, DispatchOK
<1> QED
  BY <1>3, <1>4, <1>5, <1>6, <1>7, Zenon DEF BlockOK

LEMMA CodeIs == \A code : IsCode(code) => Len(code) \in Nat /\ DOMAIN code = 1 .. Len(code)
BY DEF IsCode

LEMMA CodeAppend ==
    ASSUME NEW code, IsCode(code), NEW c
    PROVE  /\ IsCode(Append(code, c)) /\ Len(Append(code, c)) = Len(code) + 1
           /\ Append(code, c)[Len(code) + 1] = c /\ \A b \in 1 .. Len(code) : Append(code, c)[b] = code[b]
           /\ Keeps(code, Append(code, c))
<1>1. PICK S : code \in Seq(S)
  BY DEF IsCode
<1>2. code \in Seq(S \cup {c})
  BY <1>1
<1>3. Append(code, c) \in Seq(S \cup {c})
  BY <1>2
<1>4. Len(code) \in Nat
  BY <1>1
<1>5. Len(Append(code, c)) = Len(code) + 1 /\ Append(code, c)[Len(code) + 1] = c /\ \A b \in 1 .. Len(code) : Append(code, c)[b] = code[b]
  BY <1>1
<1>6. Keeps(code, Append(code, c))
  BY <1>4, <1>5 DEF Keeps
<1> QED
  BY <1>3, <1>5, <1>6, Zenon DEF IsCode

\* A block is added, and ways that begin at it.
LEMMA CodeEmit ==
    ASSUME NEW code, NEW W, NEW plans, CodeOK(code, W, plans), NEW c, NEW W2, W \subseteq W2,
           \A b, s, t, r : <<b, s, t, r>> \in W2 /\ <<b, s, t, r>> \notin W =>
                b = Len(code) + 1 /\ WayOK(Append(code, c), W2, c, s, t, r),
           BlockOK(Append(code, c), W2, plans, Len(code) + 1, c)
    PROVE  CodeOK(Append(code, c), W2, plans)
<1> DEFINE code2 == Append(code, c)
<1>0. IsCode(code) /\ Len(code) \in Nat
  BY CodeIs DEF CodeOK
<1>1. /\ IsCode(code2) /\ Len(code2) = Len(code) + 1 /\ Len(code2) \in Nat
      /\ code2[Len(code) + 1] = c /\ \A b \in 1 .. Len(code) : code2[b] = code[b]
      /\ Keeps(code, code2)
  BY <1>0, CodeAppend
<1> HIDE DEF code2
<1>2. KeepsPlans(plans, plans)
  BY DEF KeepsPlans
<1>3. ASSUME NEW b \in 1 .. Len(code2) PROVE BlockOK(code2, W2, plans, b, code2[b])
  <2>1. CASE b = Len(code) + 1
    BY <1>1, <2>1 DEF code2
  <2>2. CASE b # Len(code) + 1
    <3>1. b \in 1 .. Len(code)
      BY <1>0, <1>1, <2>2
    <3>2. BlockOK(code, W, plans, b, code[b])
      BY <3>1 DEF CodeOK
    <3> QED
      BY <1>0, <1>1, <1>2, <3>1, <3>2, BlockMore
  <2> QED
    BY <2>1, <2>2
<1>4. ASSUME NEW b, NEW s, NEW t, NEW r, <<b, s, t, r>> \in W2
      PROVE  b \in 1 .. Len(code2) /\ WayOK(code2, W2, code2[b], s, t, r)
  <2>1. CASE <<b, s, t, r>> \in W
    <3>1. b \in 1 .. Len(code) /\ WayOK(code, W, code[b], s, t, r)
      BY <2>1, Zenon DEF CodeOK
    <3>2. WayOK(code2, W2, code[b], s, t, r)
      BY <1>0, <1>1, <3>1, WayMore
    <3> QED
      BY <1>0, <1>1, <3>1, <3>2
  <2>2. CASE <<b, s, t, r>> \notin W
    <3>1. b = Len(code) + 1 /\ WayOK(code2, W2, c, s, t, r)
      BY <1>4, <2>2, Zenon DEF code2
    <3> QED
      BY <1>0, <1>1, <3>1
  <2> QED
    BY <2>1, <2>2
<1> QED
  BY <1>1, <1>3, <1>4, Zenon DEF CodeOK, code2

-----------------------------------------------------------------------------
(***************************************************************************)
(* Where the branches of an action's block lead.                           *)
(***************************************************************************)
\* A block is replaced; a branch is added to one.
Replaced(code, b, c) == [code EXCEPT ![b] = c]
WithCase(c, s, n)    == [c EXCEPT !.cases = Append(@, [state |-> s, next |-> n])]

LEMMA ActRecord ==
    ASSUME NEW c, NEW i, NEW body, NEW cases, NEW pad, NEW next, NEW more,
           c = [op |-> "act", id |-> i, body |-> body, cases |-> cases, pad |-> pad, next |-> next]
    PROVE  [c EXCEPT !.cases = more] =
                [op |-> "act", id |-> i, body |-> body, cases |-> more, pad |-> pad, next |-> next]
OBVIOUS

LEMMA ActIs ==
    ASSUME NEW i, NEW body, NEW cases, NEW pad, NEW next
    PROVE  ActForm([op |-> "act", id |-> i, body |-> body, cases |-> cases, pad |-> pad, next |-> next])
BY DEF ActForm

LEMMA SuccessorAppend ==
    ASSUME NEW c, ActForm(c), c.cases \in Branches, NEW s \in Modes, NEW n \in Nat,
           NEW c2, c2 = WithCase(c, s, n)
    PROVE  /\ ActForm(c2) /\ c2.op = c.op /\ c2.id = c.id /\ c2.body = c.body /\ c2.pad = c.pad /\ c2.next = c.next
           /\ c2.cases = Append(c.cases, [state |-> s, next |-> n])
           /\ \A x : x # s => Successor(c2, x) = Successor(c, x)
           /\ Successor(c2, s) = n \/ \E k \in 1 .. Len(c.cases) : c.cases[k].state = s /\ Successor(c2, s) = Successor(c, s)
<1> DEFINE e == [state |-> s, next |-> n]
           L == Len(c.cases)
           Of(d, x) == {i \in DOMAIN d.cases : d.cases[i].state = x}
<1>1. /\ c2.op = c.op /\ c2.id = c.id /\ c2.body = c.body /\ c2.pad = c.pad /\ c2.next = c.next
      /\ c2.cases = Append(c.cases, e) /\ ActForm(c2)
  <2>1. PICK id, body, cases, pad, next :
            c = [op |-> "act", id |-> id, body |-> body, cases |-> cases, pad |-> pad, next |-> next]
    BY DEF ActForm
  <2>2. c2 = [op |-> "act", id |-> id, body |-> body, cases |-> Append(c.cases, e), pad |-> pad, next |-> next]
    BY <2>1, ActRecord DEF WithCase
  <2> HIDE DEF e
  <2>3. ActForm(c2)
    <3>1. ActForm([op |-> "act", id |-> id, body |-> body, cases |-> Append(c.cases, e), pad |-> pad, next |-> next])
      BY ActIs
    <3> QED
      BY <2>2, <3>1, Zenon
  <2> QED
    BY <2>1, <2>2, <2>3
<1>3. /\ L \in Nat /\ DOMAIN c.cases = 1 .. L /\ DOMAIN c2.cases = 1 .. L + 1
      /\ c2.cases[L + 1] = e /\ \A i \in 1 .. L : c2.cases[i] = c.cases[i]
  BY <1>1 DEF Branches
<1>4. \A d, x : Successor(d, x) = IF Of(d, x) = {} THEN d.next ELSE d.cases[Min(Of(d, x))].next
  BY Zenon DEF Successor
<1>5. ASSUME NEW x
      PROVE  /\ Of(c, x) \in SUBSET Nat /\ Of(c, x) \in SUBSET Int /\ Of(c2, x) \in SUBSET Int
             /\ \A i \in Of(c, x) : i \in 1 .. L
             /\ \A i \in Of(c2, x) : i \in 1 .. L + 1
             /\ \A i \in 1 .. L : i \in Of(c2, x) <=> i \in Of(c, x)
  BY <1>3
<1>6. L + 1 \in Of(c2, s) /\ \A x : x # s => L + 1 \notin Of(c2, x)
  BY <1>3
<1> HIDE DEF L, Of, e
<1>7. ASSUME NEW x, Of(c, x) # {} PROVE Successor(c2, x) = Successor(c, x) /\ \E k \in 1 .. L : k \in Of(c, x)
  <2>1. Of(c, x) \in SUBSET Nat /\ Of(c, x) \in SUBSET Int /\ Of(c2, x) \in SUBSET Int
    BY <1>5
  <2>2. PICK m \in Of(c, x) : \A y \in Of(c, x) : m <= y
    BY <1>7, <2>1, Least
  <2>3. m \in 1 .. L /\ m \in Of(c2, x)
    BY <1>5
  <2>4. \A y \in Of(c2, x) : m <= y
    <3>1. SUFFICES ASSUME NEW y \in Of(c2, x) PROVE m <= y
      OBVIOUS
    <3>2. y \in 1 .. L + 1 /\ L \in Nat /\ (y \in 1 .. L => y \in Of(c, x))
      BY <1>3, <1>5
    <3>3. CASE y \in 1 .. L
      BY <2>2, <3>2, <3>3
    <3>4. CASE y \notin 1 .. L
      BY <2>3, <3>2, <3>4
    <3> QED
      BY <3>3, <3>4
  <2>5. Min(Of(c, x)) = m /\ Min(Of(c2, x)) = m
    BY <2>1, <2>2, <2>3, <2>4, Minimum
  <2>6. Of(c2, x) # {}
    BY <2>3
  <2>7. Successor(c2, x) = c2.cases[m].next /\ Successor(c, x) = c.cases[m].next
    BY <1>4, <1>7, <2>5, <2>6, Zenon
  <2> QED
    BY <1>3, <2>2, <2>3, <2>7
<1>8. ASSUME NEW x, x # s PROVE Successor(c2, x) = Successor(c, x)
  <2>1. CASE Of(c, x) # {}
    BY <1>7, <2>1
  <2>2. CASE Of(c, x) = {}
    <3>1. Of(c2, x) = {}
      <4>1. SUFFICES ASSUME NEW i \in Of(c2, x) PROVE FALSE
        OBVIOUS
      <4>2. i \in 1 .. L + 1 /\ i # L + 1 /\ L \in Nat
        BY <1>3, <1>5, <1>6, <1>8
      <4>3. i \in 1 .. L
        BY <4>2
      <4> QED
        BY <1>5, <2>2, <4>3
    <3> QED
      BY <1>1, <1>4, <2>2, <3>1, Zenon
  <2> QED
    BY <2>1, <2>2
<1>9. Successor(c2, s) = n \/ \E k \in 1 .. L : c.cases[k].state = s /\ Successor(c2, s) = Successor(c, s)
  <2>1. CASE Of(c, s) # {}
    <3>1. Successor(c2, s) = Successor(c, s) /\ \E k \in 1 .. L : k \in Of(c, s)
      BY <1>7, <2>1
    <3> QED
      BY <3>1 DEF Of
  <2>2. CASE Of(c, s) = {}
    <3>1. \A y \in Of(c2, s) : L + 1 <= y
      <4>1. SUFFICES ASSUME NEW y \in Of(c2, s) PROVE L + 1 <= y
        OBVIOUS
      <4>2. y \in 1 .. L + 1 /\ y \notin 1 .. L /\ L \in Nat
        BY <1>3, <1>5, <2>2
      <4> QED
        BY <4>2
    <3>2. Of(c2, s) \in SUBSET Int
      BY <1>5
    <3>3. Min(Of(c2, s)) = L + 1
      BY <1>6, <3>1, <3>2, Minimum
    <3>4. Of(c2, s) # {}
      BY <1>6
    <3>5. Successor(c2, s) = c2.cases[L + 1].next
      BY <1>4, <3>3, <3>4, Zenon
    <3> QED
      BY <1>3, <3>5 DEF e
  <2> QED
    BY <2>1, <2>2
<1> QED
  BY <1>1, <1>8, <1>9 DEF L, e

LEMMA CodeExcept ==
    ASSUME NEW code, IsCode(code), NEW b \in 1 .. Len(code), NEW c, NEW code2, code2 = Replaced(code, b, c)
    PROVE  /\ IsCode(code2) /\ Len(code2) = Len(code) /\ code2[b] = c
           /\ \A x \in 1 .. Len(code) : x # b => code2[x] = code[x]
<1>1. PICK S : code \in Seq(S)
  BY DEF IsCode
<1>2. code \in Seq(S \cup {c}) /\ c \in S \cup {c}
  BY <1>1
<1>3. code2 \in Seq(S \cup {c}) /\ Len(code2) = Len(code) /\ code2[b] = c /\ \A x \in 1 .. Len(code) : x # b => code2[x] = code[x]
  BY <1>2 DEF Replaced
<1>4. IsCode(code2)
  BY <1>3, Zenon DEF IsCode
<1> QED
  BY <1>3, <1>4

\* One block is changed, and ways that come to it are added.
LEMMA CodeChange ==
    ASSUME NEW code, NEW W, NEW plans, CodeOK(code, W, plans), NEW b \in 1 .. Len(code), NEW c,
           c.op = code[b].op, NEW W2, W \subseteq W2,
           NEW code2, code2 = Replaced(code, b, c),
           \A x, s, t, r : <<x, s, t, r>> \in W2 /\ <<x, s, t, r>> \notin W => x = b,
           \A s, t, r : <<b, s, t, r>> \in W2 => WayOK(code2, W2, c, s, t, r),
           BlockOK(code2, W2, plans, b, c)
    PROVE  CodeOK(code2, W2, plans) /\ Keeps(code, code2)
<1>0. IsCode(code) /\ Len(code) \in Nat
  BY CodeIs DEF CodeOK
<1>1. /\ IsCode(code2) /\ Len(code2) = Len(code) /\ code2[b] = c
      /\ \A x \in 1 .. Len(code) : x # b => code2[x] = code[x]
  BY <1>0, CodeExcept
<1>2. Keeps(code, code2) /\ KeepsPlans(plans, plans)
  BY <1>0, <1>1 DEF Keeps, KeepsPlans
<1>3. ASSUME NEW x \in 1 .. Len(code2) PROVE BlockOK(code2, W2, plans, x, code2[x])
  <2>1. CASE x = b
    BY <1>1, <2>1
  <2>2. CASE x # b
    <3>1. BlockOK(code, W, plans, x, code[x]) /\ code2[x] = code[x]
      BY <1>1, <2>2 DEF CodeOK
    <3> QED
      BY <1>0, <1>1, <1>2, <3>1, BlockMore
  <2> QED
    BY <2>1, <2>2
<1>4. ASSUME NEW x, NEW s, NEW t, NEW r, <<x, s, t, r>> \in W2
      PROVE  x \in 1 .. Len(code2) /\ WayOK(code2, W2, code2[x], s, t, r)
  <2>1. CASE x = b
    BY <1>1, <1>4, <2>1
  <2>2. CASE x # b
    <3>1. <<x, s, t, r>> \in W
      BY <1>4, <2>2
    <3>2. x \in 1 .. Len(code) /\ WayOK(code, W, code[x], s, t, r)
      BY <3>1, Zenon DEF CodeOK
    <3>3. code2[x] = code[x]
      BY <1>1, <2>2, <3>2
    <3> QED
      BY <1>0, <1>1, <1>2, <3>2, <3>3, WayMore
  <2> QED
    BY <2>1, <2>2
<1> QED
  BY <1>1, <1>2, <1>3, <1>4, Zenon DEF CodeOK

\* The ways that begin at block b with the routes R.
MoreRoutes(W, b, s, R) == W \cup {<<b, s, t, R[t]>> : t \in Keys(s)}

LEMMA LinkCode ==
    ASSUME NEW code, NEW W, NEW plans, CodeOK(code, W, plans), NEW b \in 1 .. Len(code), code[b].op = "act",
           NEW s \in Modes, NEW n \in Nat, NEW R, NEW W2, W2 = MoreRoutes(W, b, s, R),
           \A t \in Keys(s) : /\ R[t] \in Routes /\ R[t].todo # <<>> /\ Head(R[t].todo) = code[b].id
                              /\ Reaches(code, W, n, s, t, Rest(R[t])),
           \A u, t, r : <<b, u, t, r>> \in W => (u = "Throw" <=> s = "Throw") /\ (u = s => r = R[t]),
           s = "Throw" => \A t \in Types : <<b, s, t, R[t]>> \in W,
           code[b].body = "try" => s # "Throw",
           code[b].body \in {"loop", "mayThrow"} => Stored(s) = "Normal",
           NEW code2, \/ code2 = code /\ code[b].cases = <<>> /\ code[b].next = n
                      \/ code2 = Replaced(code, b, WithCase(code[b], s, n))
    PROVE  /\ CodeOK(code2, W2, plans) /\ Keeps(code, code2) /\ Len(code2) = Len(code)
           /\ \A x \in 1 .. Len(code) : x # b => code2[x] = code[x]
           /\ code2[b].op = "act" /\ code2[b].id = code[b].id /\ code2[b].body = code[b].body
<1> DEFINE c  == code[b]
           c2 == code2[b]
<1>0. IsCode(code) /\ Len(code) \in Nat /\ DOMAIN code = 1 .. Len(code)
  BY CodeIs DEF CodeOK
<1>1. ActForm(c) /\ CasesOK(W, b, c) /\ BlockOK(code, W, plans, b, c) /\ ActOK(code, W, plans, b, c)
  BY DEF CodeOK, BlockOK, ActOK
<1>2. /\ W \subseteq W2 /\ \A t \in Keys(s) : <<b, s, t, R[t]>> \in W2
      /\ \A x, u, t, r : <<x, u, t, r>> \in W2 /\ <<x, u, t, r>> \notin W => x = b /\ u = s /\ t \in Keys(s) /\ r = R[t]
  BY DEF MoreRoutes
<1>3. /\ ActForm(c2) /\ c2.op = c.op /\ c2.id = c.id /\ c2.body = c.body /\ c2.pad = c.pad
      /\ IsCode(code2) /\ Len(code2) = Len(code) /\ \A x \in 1 .. Len(code) : x # b => code2[x] = code[x]
      /\ code2 = Replaced(code, b, c2)
      /\ \A x : x # s => Successor(c2, x) = Successor(c, x)
      /\ Successor(c2, s) = n \/ \E k \in 1 .. Len(c.cases) : c.cases[k].state = s /\ Successor(c2, s) = Successor(c, s)
      /\ c2.cases = c.cases \/ c2.cases = Append(c.cases, [state |-> s, next |-> n])
  <2>1. CASE code2 = code /\ code[b].cases = <<>> /\ code[b].next = n
    <3>1. Successor(c, s) = n
      BY <2>1 DEF Successor
    <3>2. code = Replaced(code, b, code[b])
      BY <1>0 DEF IsCode, Replaced
    <3> QED
      BY <1>0, <1>1, <2>1, <3>1, <3>2
  <2>2. CASE code2 = Replaced(code, b, WithCase(code[b], s, n))
    <3> DEFINE d == WithCase(c, s, n)
    <3>1. code2 = Replaced(code, b, d)
      BY <2>2
    <3>2. /\ ActForm(d) /\ d.op = c.op /\ d.id = c.id /\ d.body = c.body /\ d.pad = c.pad
          /\ d.cases = Append(c.cases, [state |-> s, next |-> n])
          /\ \A x : x # s => Successor(d, x) = Successor(c, x)
          /\ Successor(d, s) = n \/ \E k \in 1 .. Len(c.cases) : c.cases[k].state = s /\ Successor(d, s) = Successor(c, s)
      <4>1. c.cases \in Branches
        BY <1>1 DEF CasesOK
      <4>2. ActForm(c) /\ d = WithCase(c, s, n)
        BY <1>1
      <4> HIDE DEF c, d
      <4> QED
        BY <4>1, <4>2, SuccessorAppend
    <3> HIDE DEF d
    <3>3. IsCode(code2) /\ Len(code2) = Len(code) /\ code2[b] = d /\ \A x \in 1 .. Len(code) : x # b => code2[x] = code[x]
      BY <1>0, <3>1, CodeExcept
    <3> QED
      BY <3>1, <3>2, <3>3
  <2> QED
    BY <2>1, <2>2
<1> HIDE DEF c, c2
<1>4. Keeps(code, code2)
  BY <1>0, <1>3 DEF Keeps, c, c2
<1>5. \A x, u, t, r : Reaches(code, W, x, u, t, r) => Reaches(code2, W2, x, u, t, r)
  BY <1>0, <1>2, <1>3, <1>4, ReachesMore
<1>6. ASSUME NEW u, NEW t, NEW r, <<b, u, t, r>> \in W PROVE WayOK(code2, W2, c2, u, t, r)
  <2>1. WayOK(code, W, c, u, t, r)
    BY <1>6, Zenon DEF CodeOK, c
  <2>2. u \in Modes /\ t \in Keys(u) /\ r \in Routes /\ ActWay(code, W, c, u, t, r) /\ c.op = "act"
    BY <2>1 DEF WayOK, c
  <2>3. (u = "Throw" <=> s = "Throw") /\ (u = s => r = R[t])
    BY <1>6
  <2>4. Reaches(code2, W2, Successor(c2, Stored(u)), u, t, Rest(r))
    <3>1. Reaches(code, W, Successor(c, Stored(u)), u, t, Rest(r))
      BY <2>2 DEF ActWay
    <3>2. CASE Stored(u) # s
      BY <1>3, <1>5, <3>1, <3>2
    <3>3. CASE Stored(u) = s
      <4>1. s # "Throw" /\ u = s
        BY <2>3, <3>3 DEF Stored
      <4>2. r = R[t]
        BY <2>3, <4>1
      <4>3. Reaches(code, W, n, u, t, Rest(r))
        BY <2>2, <4>1, <4>2
      <4>4. Successor(c2, Stored(u)) = n \/ Successor(c2, Stored(u)) = Successor(c, Stored(u))
        BY <1>3, <3>3
      <4> QED
        BY <1>5, <3>1, <4>3, <4>4
    <3> QED
      BY <3>2, <3>3
  <2>5. ActWay(code2, W2, c2, u, t, r)
    BY <1>3, <2>2, <2>4 DEF ActWay
  <2> QED
    BY <1>3, <2>2, <2>5 DEF WayOK
<1>7. ASSUME NEW t \in Keys(s) PROVE WayOK(code2, W2, c2, s, t, R[t])
  <2>1. CASE <<b, s, t, R[t]>> \in W
    BY <1>6, <2>1
  <2>2. CASE <<b, s, t, R[t]>> \notin W
    <3>1. s # "Throw"
      BY <2>2 DEF Keys
    <3>2. t = NoType /\ Stored(s) = s
      BY <3>1 DEF Keys, Stored
    <3>3. Successor(c2, s) = n
      <4>1. ASSUME NEW k \in 1 .. Len(c.cases), c.cases[k].state = s PROVE FALSE
        <5>1. \E r : <<b, s, NoType, r>> \in W
          BY <1>1, <3>1, <4>1 DEF CasesOK, Branches
        <5> QED
          BY <2>2, <3>2, <5>1
      <4> QED
        BY <1>3, <4>1
    <3>4. ActWay(code2, W2, c2, s, t, R[t])
      BY <1>3, <1>5, <3>2, <3>3 DEF ActWay, c
    <3> QED
      BY <1>3, <3>4 DEF WayOK, c
  <2> QED
    BY <2>1, <2>2
<1>8. BlockOK(code2, W2, plans, b, c2)
  <2>1. CasesOK(W2, b, c2)
    <3>1. c2.cases \in Branches
      <4>1. c.cases \in Seq([state : Modes, next : Nat]) /\ [state |-> s, next |-> n] \in [state : Modes, next : Nat]
        BY <1>1 DEF CasesOK, Branches
      <4>2. Append(c.cases, [state |-> s, next |-> n]) \in Seq([state : Modes, next : Nat])
        BY <4>1, AppendProperties
      <4> QED
        BY <1>3, <4>1, <4>2 DEF Branches
    <3>2. ASSUME NEW k \in 1 .. Len(c2.cases), c2.cases[k].state # "Throw"
          PROVE  \E r : <<b, c2.cases[k].state, NoType, r>> \in W2
      <4>1. CASE k \in 1 .. Len(c.cases)
        <5>1. c2.cases[k] = c.cases[k]
          BY <1>1, <1>3, <4>1 DEF CasesOK, Branches
        <5> QED
          BY <1>1, <1>2, <3>2, <4>1, <5>1 DEF CasesOK
      <4>2. CASE k \notin 1 .. Len(c.cases)
        <5>1. c2.cases[k].state = s
          <6>1. Len(c.cases) \in Nat
            BY <1>1 DEF CasesOK, Branches
          <6>2. c2.cases = Append(c.cases, [state |-> s, next |-> n]) /\ k = Len(c.cases) + 1
            BY <1>1, <1>3, <3>2, <4>2, <6>1 DEF CasesOK, Branches
          <6> QED
            BY <1>1, <6>2 DEF CasesOK, Branches
        <5>2. NoType \in Keys(s)
          BY <3>2, <5>1 DEF Keys
        <5> QED
          BY <1>2, <5>1, <5>2
      <4> QED
        BY <4>1, <4>2
    <3> QED
      BY <3>1, <3>2 DEF CasesOK
  <2>2. BlockOK(code2, W2, plans, b, c)
    BY <1>0, <1>1, <1>2, <1>3, <1>4, BlockMore DEF KeepsPlans
  <2>3. c.op = "act"
    BY DEF c
  <2> QED
    BY <1>3, <2>1, <2>2, <2>3 DEF BlockOK, ActOK, Ops
<1>9. CodeOK(code2, W2, plans)
  <2>1. \A x, u, t, r : <<x, u, t, r>> \in W2 /\ <<x, u, t, r>> \notin W => x = b
    BY <1>2
  <2>2. \A u, t, r : <<b, u, t, r>> \in W2 => WayOK(code2, W2, c2, u, t, r)
    BY <1>2, <1>6, <1>7
  <2>3. c2.op = code[b].op /\ code2 = Replaced(code, b, c2)
    BY <1>3 DEF c
  <2> QED
    BY <1>2, <1>8, <2>1, <2>2, <2>3, CodeChange
<1> QED
  BY <1>3, <1>4, <1>9 DEF c, c2

-----------------------------------------------------------------------------
(***************************************************************************)
(* What the stack remembers of the code that was generated with it.        *)
(***************************************************************************)
IsPoint(code, n) == n \in 3 .. Len(code) /\ code[n].op = "point"

\* There is a block for action a in state s.
Made(a, s) == IsActiveForState(a, s) /\ a.block[s] # 0

\* It is the one for the rest of the route from there.
PlaceOK(stack, code, W, i, s) ==
    /\ IsTerminator(stack[i]) \/ s = "Throw" =>
            \A t \in Keys(s) : <<stack[i].block[s], s, t, RouteAt(stack, i, s, t)>> \in W
    /\ ~IsTerminator(stack[i]) =>
            /\ code[stack[i].block[s]].op = "act"
            /\ code[stack[i].block[s]].id = stack[i].id /\ code[stack[i].block[s]].body = stack[i].body
            /\ \A u, t, r : <<stack[i].block[s], u, t, r>> \in W =>
                    /\ u = "Throw" <=> s = "Throw"
                    /\ u = s => t \in Keys(s) /\ EndsAt(stack, i, s, t) /\ r = RouteAt(stack, i, s, t)

\* No two actions share a block, and no exception shares it with another state.
Apart(stack) ==
    \A i, j \in 1 .. Len(stack), s, u \in Modes :
        /\ Made(stack[i], s) /\ ~IsTerminator(stack[i])
        /\ Made(stack[j], u) /\ stack[j].block[u] = stack[i].block[s]
        => i = j /\ (u = "Throw" <=> s = "Throw")

MarkOK(code, a) ==
    /\ a.kind = "FUNCTIONMARKER" => a.to["Return"] = Returned /\ a.to["Throw"] = Resumed
    /\ a.kind = "SCOPEMARKER" => IsPoint(code, a.to["Normal"])
    /\ a.kind = "CONTROLFLOW" => IsPoint(code, a.to["Break"]) /\ IsPoint(code, a.to["Continue"])

\* What the language asks for when the block of a scope exit throws.
BodyOK(stack, plans, i) ==
    /\ stack[i].body # "plain" => stack[i].kind = "SCOPEEXIT"
    /\ stack[i].body \in {"try", "mayThrow"} => stack[i].when = "success"
    /\ stack[i].body = "mayThrow" =>
            /\ stack[i].id \in DOMAIN plans
            /\ \A t \in Types : /\ plans[stack[i].id][t].todo = RouteAt(stack, i - 1, "Throw", t).todo
                                /\ plans[stack[i].id][t].goal = RouteAt(stack, i - 1, "Throw", t).goal

\* The first clause of a try leads to where the clauses are compared.
CatchOK(stack, W, i) ==
    stack[i].kind = "CATCH" /\ (i = Len(stack) \/ stack[i + 1].kind # "CATCH") =>
        \A t \in Types : <<stack[i].to["Throw"], "Throw", t, RouteAt(stack, i, "Throw", t)>> \in W

PadOK(stack, code, W, i) ==
    stack[i].pad["Throw"] # 0 =>
        /\ stack[i].pad["Throw"] \in 1 .. Len(code) /\ code[stack[i].pad["Throw"]].op = "pad"
        /\ \A t \in Types : <<stack[i].pad["Throw"], "Throw", t, RouteAt(stack, i, "Throw", t)>> \in W

Ground(code) == 3 <= Len(code) /\ code[1].op = "point" /\ code[2].op = "point" /\ code[3].op = "point"

StackOK(stack, code, W, plans) ==
    /\ IsStack(stack) /\ Ground(code) /\ Apart(stack)
    /\ \A i \in 1 .. Len(stack), s \in Modes : stack[i].block[s] <= Len(code)
    /\ \A i \in 1 .. Len(stack), s \in Modes : Made(stack[i], s) => PlaceOK(stack, code, W, i, s)
    /\ \A i \in 1 .. Len(stack) :
            MarkOK(code, stack[i]) /\ BodyOK(stack, plans, i) /\ CatchOK(stack, W, i) /\ PadOK(stack, code, W, i)

LEMMA EndsActive ==
    ASSUME NEW stack, IsStack(stack), NEW i \in 1 .. Len(stack), NEW s \in Modes, NEW t \in Keys(s),
           s = "Throw" \/ (IsTerminator(stack[i]) /\ IsActiveForState(stack[i], s))
    PROVE  EndsAt(stack, i, s, t)
<1>1. 1 \in 1 .. i /\ i \in 1 .. i /\ 1 \in 1 .. Len(stack)
  BY DEF IsStack
<1>2. stack[1].kind = "FUNCTIONMARKER"
  BY <1>1 DEF IsStack
<1>3. CASE s = "Throw"
  BY <1>1, <1>2, <1>3 DEF EndsAt, Ends
<1>4. CASE s # "Throw" /\ IsTerminator(stack[i]) /\ IsActiveForState(stack[i], s)
  <2>1. Ends(stack[i], s, t)
    BY <1>4 DEF Ends, IsTerminator, Terminators, IsActiveForState, ActiveStates, Modes, States
  <2> QED
    BY <1>1, <2>1 DEF EndsAt
<1> QED
  BY <1>3, <1>4

\* The way begins at a new block, or at one that an action has on the stack.
WayIn(stack, code, b, u, t, r) ==
    \/ b > Len(code)
    \/ /\ u \in Modes /\ t \in Keys(u)
       /\ \E i \in 1 .. Len(stack) :
            /\ Made(stack[i], u) /\ ~IsTerminator(stack[i]) /\ b = stack[i].block[u]
            /\ EndsAt(stack, i, u, t) /\ r = RouteAt(stack, i, u, t)

KeepsActs(code, code2) ==
    \A b \in 1 .. Len(code) : code[b].op = "act" => code2[b].id = code[b].id /\ code2[b].body = code[b].body

\* What was true of the stack stays true.
LEMMA StackMore ==
    ASSUME NEW stack, NEW code, NEW W, NEW plans, StackOK(stack, code, W, plans),
           NEW stack2, IsStack(stack2), Len(stack2) = Len(stack),
           \A i \in 1 .. Len(stack) : SameAs(stack[i], stack2[i]),
           Len(code) \in Nat, NEW code2, Len(code2) \in Nat, Keeps(code, code2), KeepsActs(code, code2),
           NEW W2, W \subseteq W2, NEW plans2, KeepsPlans(plans, plans2),
           \A b, u, t, r : <<b, u, t, r>> \in W2 /\ <<b, u, t, r>> \notin W => WayIn(stack, code, b, u, t, r)
    PROVE  /\ Ground(code2)
           /\ \A i \in 1 .. Len(stack), s \in Modes : stack[i].block[s] <= Len(code2)
           /\ \A i \in 1 .. Len(stack), s \in Modes : \A t : t \in Keys(s) /\ EndsAt(stack, i, s, t) =>
                    EndsAt(stack2, i, s, t) /\ RouteAt(stack2, i, s, t) = RouteAt(stack, i, s, t)
           /\ \A i \in 1 .. Len(stack), s \in Modes :
                    Made(stack[i], s) /\ stack2[i].block[s] = stack[i].block[s] => PlaceOK(stack2, code2, W2, i, s)
           /\ \A i \in 1 .. Len(stack) :
                    /\ MarkOK(code2, stack2[i]) /\ BodyOK(stack2, plans2, i) /\ CatchOK(stack2, W2, i)
                    /\ stack2[i].pad["Throw"] = stack[i].pad["Throw"] => PadOK(stack2, code2, W2, i)
<1> DEFINE L == Len(stack)
<1>0. IsStack(stack) /\ L \in Nat \ {0} /\ Ground(code) /\ Len(code) <= Len(code2)
  BY DEF StackOK, IsStack, Keeps
<1>1. \A b \in 1 .. Len(code) : b \in 1 .. Len(code2) /\ code2[b].op = code[b].op
  BY DEF Keeps
<1>2. Ground(code2)
  BY <1>0, <1>1 DEF Ground
<1>3. \A i \in 1 .. L, s \in Modes : stack[i].block[s] \in Nat /\ stack[i].block[s] <= Len(code2) /\ stack[i].block[s] <= Len(code)
  <2>1. SUFFICES ASSUME NEW i \in 1 .. L, NEW s \in Modes
                 PROVE  stack[i].block[s] \in Nat /\ stack[i].block[s] <= Len(code2) /\ stack[i].block[s] <= Len(code)
    OBVIOUS
  <2>2. stack[i] \in Acts /\ s \in States
    BY DEF StackOK, IsStack, Modes
  <2>3. stack[i].block[s] \in Nat
    BY <2>2 DEF Acts
  <2> QED
    BY <1>0, <2>3 DEF StackOK
<1>4. ASSUME NEW i \in 1 .. L, NEW s \in Modes, NEW t \in Keys(s), EndsAt(stack, i, s, t)
      PROVE  EndsAt(stack2, i, s, t) /\ RouteAt(stack2, i, s, t) = RouteAt(stack, i, s, t)
  <2>1. i \in Nat /\ i <= Len(stack) /\ i <= Len(stack2) /\ \A j \in 1 .. i : SameAs(stack[j], stack2[j])
    BY <1>0
  <2> QED
    BY <1>0, <1>4, <2>1, RouteSame
<1>5. ASSUME NEW i \in 1 .. L, NEW s \in Modes, Made(stack[i], s), stack2[i].block[s] = stack[i].block[s]
      PROVE  PlaceOK(stack2, code2, W2, i, s)
  <2> DEFINE b == stack[i].block[s]
  <2>1. PlaceOK(stack, code, W, i, s) /\ SameAs(stack[i], stack2[i]) /\ b \in 1 .. Len(code)
    BY <1>3, <1>5 DEF StackOK, Made
  <2>2. (IsTerminator(stack2[i]) <=> IsTerminator(stack[i])) /\ stack2[i].id = stack[i].id /\ stack2[i].body = stack[i].body
    BY <2>1 DEF SameAs, IsTerminator
  <2>3. ASSUME IsTerminator(stack[i]) \/ s = "Throw", NEW t \in Keys(s)
        PROVE  <<b, s, t, RouteAt(stack2, i, s, t)>> \in W2
    <3>1. EndsAt(stack, i, s, t)
      BY <1>0, <1>5, <2>3, EndsActive DEF Made
    <3>2. <<b, s, t, RouteAt(stack, i, s, t)>> \in W
      BY <2>1, <2>3 DEF PlaceOK
    <3> QED
      BY <1>4, <3>1, <3>2
  <2>4. ASSUME ~IsTerminator(stack[i]) PROVE code2[b].op = "act" /\ code2[b].id = stack[i].id /\ code2[b].body = stack[i].body
    <3>1. code[b].op = "act" /\ code[b].id = stack[i].id /\ code[b].body = stack[i].body
      BY <2>1, <2>4 DEF PlaceOK
    <3> QED
      BY <1>1, <2>1, <3>1 DEF KeepsActs
  <2>5. ASSUME ~IsTerminator(stack[i]), NEW u, NEW t, NEW r, <<b, u, t, r>> \in W2
        PROVE  /\ u = "Throw" <=> s = "Throw"
               /\ u = s => t \in Keys(s) /\ EndsAt(stack2, i, s, t) /\ r = RouteAt(stack2, i, s, t)
    <3>1. /\ u = "Throw" <=> s = "Throw"
          /\ u = s => t \in Keys(s) /\ EndsAt(stack, i, s, t) /\ r = RouteAt(stack, i, s, t)
      <4>1. CASE <<b, u, t, r>> \in W
        BY <2>1, <2>5, <4>1 DEF PlaceOK
      <4>2. CASE <<b, u, t, r>> \notin W
        <5>1. WayIn(stack, code, b, u, t, r)
          BY <2>5, <4>2
        <5>2. ~(b > Len(code))
          BY <2>1
        <5>3. u \in Modes /\ t \in Keys(u)
          BY <5>1, <5>2 DEF WayIn
        <5>4. PICK j \in 1 .. L : /\ Made(stack[j], u) /\ ~IsTerminator(stack[j]) /\ b = stack[j].block[u]
                                  /\ EndsAt(stack, j, u, t) /\ r = RouteAt(stack, j, u, t)
          BY <5>1, <5>2 DEF WayIn
        <5>5. i = j /\ (u = "Throw" <=> s = "Throw")
          <6>1. Apart(stack)
            BY DEF StackOK
          <6> QED
            BY <1>5, <2>5, <5>3, <5>4, <6>1 DEF Apart
        <5> QED
          BY <5>3, <5>4, <5>5
      <4> QED
        BY <4>1, <4>2
    <3> QED
      BY <1>4, <3>1
  <2> QED
    BY <1>5, <2>2, <2>3, <2>4, <2>5 DEF PlaceOK
<1>6. ASSUME NEW i \in 1 .. L
      PROVE  MarkOK(code2, stack2[i]) /\ BodyOK(stack2, plans2, i) /\ CatchOK(stack2, W2, i)
  <2>1. MarkOK(code, stack[i]) /\ BodyOK(stack, plans, i) /\ CatchOK(stack, W, i) /\ SameAs(stack[i], stack2[i])
    BY DEF StackOK
  <2>2. MarkOK(code2, stack2[i])
    <3>1. \A n : IsPoint(code, n) => IsPoint(code2, n)
      BY <1>0, <1>1 DEF IsPoint
    <3> QED
      BY <2>1, <3>1 DEF MarkOK, SameAs
  <2>3. BodyOK(stack2, plans2, i)
    <3>1. ASSUME stack[i].body = "mayThrow"
          PROVE  /\ stack[i].id \in DOMAIN plans2
                 /\ \A t \in Types : /\ plans2[stack[i].id][t].todo = RouteAt(stack2, i - 1, "Throw", t).todo
                                     /\ plans2[stack[i].id][t].goal = RouteAt(stack2, i - 1, "Throw", t).goal
      <4>1. i - 1 \in 1 .. L
        <5>1. stack[i].kind = "SCOPEEXIT"
          BY <2>1, <3>1 DEF BodyOK
        <5>2. i # 1
          BY <1>0, <5>1 DEF IsStack
        <5> QED
          BY <1>0, <5>2
      <4>2. "Throw" \in Modes /\ Keys("Throw") = Types
        BY DEF Modes, States, Keys
      <4>3. \A t \in Types : RouteAt(stack2, i - 1, "Throw", t) = RouteAt(stack, i - 1, "Throw", t)
        BY <1>0, <1>4, <4>1, <4>2, EndsActive
      <4> QED
        BY <2>1, <3>1, <4>3 DEF BodyOK, KeepsPlans
    <3> QED
      BY <2>1, <3>1 DEF BodyOK, SameAs
  <2>4. CatchOK(stack2, W2, i)
    <3>1. SUFFICES ASSUME stack2[i].kind = "CATCH", i = Len(stack2) \/ stack2[i + 1].kind # "CATCH", NEW t \in Types
                   PROVE  <<stack2[i].to["Throw"], "Throw", t, RouteAt(stack2, i, "Throw", t)>> \in W2
      BY DEF CatchOK
    <3>2. stack[i].kind = "CATCH" /\ (i = Len(stack) \/ stack[i + 1].kind # "CATCH")
      <4>1. i # L => i + 1 \in 1 .. L
        BY <1>0
      <4> QED
        BY <2>1, <3>1, <4>1 DEF SameAs
    <3>3. "Throw" \in Modes /\ t \in Keys("Throw")
      BY DEF Modes, States, Keys
    <3>4. RouteAt(stack2, i, "Throw", t) = RouteAt(stack, i, "Throw", t)
      BY <1>0, <1>4, <3>3, EndsActive
    <3> QED
      BY <2>1, <3>2, <3>4 DEF CatchOK, SameAs
  <2> QED
    BY <2>2, <2>3, <2>4
<1>7. ASSUME NEW i \in 1 .. L, stack2[i].pad["Throw"] = stack[i].pad["Throw"] PROVE PadOK(stack2, code2, W2, i)
  <2>1. PadOK(stack, code, W, i)
    BY DEF StackOK
  <2>2. "Throw" \in Modes /\ \A t \in Types : t \in Keys("Throw")
    BY DEF Modes, States, Keys
  <2>3. \A t \in Types : RouteAt(stack2, i, "Throw", t) = RouteAt(stack, i, "Throw", t)
    BY <1>0, <1>4, <2>2, EndsActive
  <2> QED
    BY <1>1, <1>7, <2>1, <2>3 DEF PadOK
<1> QED
  BY <1>2, <1>3, <1>4, <1>5, <1>6, <1>7

-----------------------------------------------------------------------------
(***************************************************************************)
(* The loop of genUnwindBlock, action by action.                           *)
(***************************************************************************)
LEMMA LastUpTo ==
    ASSUME NEW k \in Nat, NEW s \in SUBSET (1 .. k + 1), k + 1 \in s
    PROVE  Max(s) = k + 1
<1> DEFINE IsLast(x) == x \in s /\ \A y \in s : x >= y
<1>1. IsLast(k + 1) /\ \A x : IsLast(x) => x = k + 1
  <2>1. \A y \in s : k + 1 >= y
    OBVIOUS
  <2>2. ASSUME NEW x \in s, \A y \in s : x >= y PROVE x = k + 1
    <3>1. x \in 1 .. k + 1 /\ x >= k + 1
      BY <2>2
    <3> QED
      BY <3>1
  <2> QED
    BY <2>1, <2>2
<1>2. Max(s) = CHOOSE x : IsLast(x)
  BY Zenon DEF Max
<1> HIDE DEF IsLast
<1>3. IsLast(CHOOSE x : IsLast(x))
  BY <1>1, Zenon
<1> QED
  BY <1>1, <1>2, <1>3, Zenon

\* One more action, in an unwinding of kind loop[1] and in state loop[2].
FoldStep(loop, h, i) ==
    IF loop[1] = "throw" THEN GenAction(h, i, loop[2], NoPad(h, i)) ELSE GenAction(h, i, loop[2], BodyPad(h, i))

FoldOf(loop, base, seq, g, s) ==
    IF s = {} THEN base ELSE LET i == Max(s) IN FoldStep(loop, g[s \ {i}], seq[i])

IsFold(loop, base, seq, n, g) == g = [s \in SUBSET (1 .. n) |-> FoldOf(loop, base, seq, g, s)]

LEMMA FoldExists ==
    ASSUME NEW loop, NEW base, NEW seq
    PROVE  \A k \in Nat : \E g : IsFold(loop, base, seq, k, g)
<1> DEFINE S == {k \in Nat : \E g : g = [s \in SUBSET (1 .. k) |-> FoldOf(loop, base, seq, g, s)]}
<1>1. 0 \in S
  <2> DEFINE g == [s \in SUBSET (1 .. 0) |-> base]
  <2>1. \A s \in SUBSET (1 .. 0) : FoldOf(loop, base, seq, g, s) = base
    BY DEF FoldOf
  <2>2. g = [s \in SUBSET (1 .. 0) |-> FoldOf(loop, base, seq, g, s)]
    BY <2>1
  <2> QED
    BY <2>2
<1>2. ASSUME NEW k \in S PROVE k + 1 \in S
  <2>1. PICK g : g = [s \in SUBSET (1 .. k) |-> FoldOf(loop, base, seq, g, s)]
    OBVIOUS
  <2> DEFINE f == [s \in SUBSET (1 .. k + 1) |->
                      IF k + 1 \in s THEN FoldStep(loop, g[s \ {k + 1}], seq[k + 1]) ELSE g[s]]
  <2>2. ASSUME NEW s \in SUBSET (1 .. k + 1), k + 1 \in s PROVE f[s] = FoldOf(loop, base, seq, f, s)
    <3>1. s \ {k + 1} \in SUBSET (1 .. k) /\ s \ {k + 1} \in SUBSET (1 .. k + 1) /\ k + 1 \notin s \ {k + 1}
      OBVIOUS
    <3>2. f[s \ {k + 1}] = g[s \ {k + 1}]
      BY <3>1, Zenon
    <3>3. Max(s) = k + 1
      BY <2>2, LastUpTo
    <3>4. f[s] = FoldStep(loop, g[s \ {k + 1}], seq[k + 1])
      BY <2>2, Zenon
    <3> HIDE DEF f
    <3>5. FoldOf(loop, base, seq, f, s) = FoldStep(loop, f[s \ {k + 1}], seq[k + 1])
      BY <2>2, <3>3, Zenon DEF FoldOf
    <3> QED
      BY <3>2, <3>4, <3>5, Zenon
  <2>3. ASSUME NEW s \in SUBSET (1 .. k + 1), k + 1 \notin s PROVE f[s] = FoldOf(loop, base, seq, f, s)
    <3>1. s \in SUBSET (1 .. k)
      BY <2>3
    <3>2. f[s] = g[s] /\ g[s] = FoldOf(loop, base, seq, g, s)
      BY <2>1, <2>3, <3>1, Zenon
    <3>3. \A i : s \ {i} \in SUBSET (1 .. k) /\ s \ {i} \in SUBSET (1 .. k + 1) /\ k + 1 \notin s \ {i}
      BY <2>3, <3>1
    <3>4. \A i : f[s \ {i}] = g[s \ {i}]
      BY <3>3, Zenon
    <3> HIDE DEF f
    <3>5. FoldOf(loop, base, seq, f, s) = FoldOf(loop, base, seq, g, s)
      BY <3>4, Zenon DEF FoldOf
    <3> QED
      BY <3>2, <3>5
  <2>4. f = [s \in SUBSET (1 .. k + 1) |-> f[s]]
    OBVIOUS
  <2>5. \A s \in SUBSET (1 .. k + 1) : f[s] = FoldOf(loop, base, seq, f, s)
    BY <2>2, <2>3
  <2> HIDE DEF f
  <2>6. f = [s \in SUBSET (1 .. k + 1) |-> FoldOf(loop, base, seq, f, s)]
    BY <2>4, <2>5, Zenon
  <2> QED
    BY <2>6
<1> HIDE DEF S
<1>3. S = Nat
  <2>1. S \in SUBSET Nat
    BY DEF S
  <2> QED
    BY <1>1, <1>2, <2>1, Induction
<1> QED
  BY <1>3 DEF S, IsFold

\* What a fold is after k elements, W[k].
IsChain(loop, base, seq, n, W) ==
    W[0] = base /\ \A k \in 0 .. n - 1 : W[k + 1] = FoldStep(loop, W[k], seq[k + 1])

LEMMA FoldChain ==
    ASSUME NEW loop, NEW base, NEW seq, NEW n \in Nat,
           NEW g, IsFold(loop, base, seq, n, g)
    PROVE  \E W : IsChain(loop, base, seq, n, W) /\ W[n] = g[1 .. n]
<1> DEFINE W == [k \in 0 .. n |-> g[1 .. k]]
<1>3. W[0] = base
  <2>1. 1 .. 0 = {} /\ 0 \in 0 .. n /\ {} \in SUBSET (1 .. n)
    OBVIOUS
  <2>2. W[0] = g[{}]
    BY <2>1
  <2>3. g[{}] = FoldOf(loop, base, seq, g, {})
    BY <2>1, Zenon DEF IsFold
  <2> QED
    BY <2>2, <2>3, Zenon DEF FoldOf
<1>4. W[n] = g[1 .. n]
  <2>1. n \in 0 .. n
    OBVIOUS
  <2> QED
    BY <2>1, Zenon
<1>5. ASSUME NEW k \in 0 .. n - 1 PROVE W[k + 1] = FoldStep(loop, W[k], seq[k + 1])
  <2>1. k \in Nat /\ n \in Nat /\ k + 1 <= n
    OBVIOUS
  <2>2. (1 .. k + 1) \ {k + 1} = 1 .. k
    BY <2>1
  <2>3. k + 1 \in 1 .. k + 1 /\ k \in 0 .. n /\ k + 1 \in 0 .. n /\ k + 1 \in 1 .. n
    BY <2>1
  <2>4. 1 .. k + 1 # {} /\ 1 .. k + 1 \in SUBSET (1 .. n)
    <3>1. 1 .. k + 1 # {}
      BY <2>3, Zenon
    <3>2. 1 .. k + 1 \subseteq 1 .. n
      BY <2>1
    <3> QED
      BY <3>1, <3>2
  <2>5. Max(1 .. k + 1) = k + 1
    BY <2>1, <2>3, LastUpTo
  <2>6. g[1 .. k + 1] = FoldOf(loop, base, seq, g, 1 .. k + 1)
    BY <2>4, Zenon DEF IsFold
  <2>7. g[1 .. k + 1] = FoldStep(loop, g[1 .. k], seq[k + 1])
    BY <2>2, <2>4, <2>5, <2>6, Zenon DEF FoldOf
  <2> QED
    BY <2>3, <2>7, Zenon
<1> HIDE DEF W
<1> QED
  BY <1>3, <1>4, <1>5 DEF IsChain

\* The loops, without operators as parameters.
TopThrow(g, i, s)  == GenTopUnwindAction(g, i, s, NoRethrow)
TopUnwind(g, i, s) == GenTopUnwindAction(g, i, s, GenRethrowScope)
ThrowBlocks(g, s)  == GenBlocks(g, s, NoRethrow, NoPad)
UnwindBlocks(g, s) == GenBlocks(g, s, GenRethrowScope, BodyPad)

LEMMA ThrowFold ==
    ASSUME NEW g, NEW s, NEW start, start = UnwindStartPosition(g.stack, s), NEW n \in Nat, n = Len(g.stack) - start
    PROVE  \E W : /\ W[0] = TopThrow(g, start, s) /\ W[n] = ThrowBlocks(g, s)
                  /\ \A k \in 0 .. n - 1 : W[k + 1] = GenAction(W[k], start + (k + 1), s, NoPad(W[k], start + (k + 1)))
<1> DEFINE seq == [k \in 1 .. Len(g.stack) - start |-> start + k]
           loop == <<"throw", s>>
           base == TopThrow(g, start, s)
<1>1. DOMAIN seq = 1 .. n
  OBVIOUS
<1>2. \A b, e : FoldStep(loop, b, e) = GenAction(b, e, s, NoPad(b, e))
  <2>1. loop[1] = "throw" /\ loop[2] = s
    OBVIOUS
  <2> HIDE DEF loop
  <2> QED
    BY <2>1, Zenon DEF FoldStep
<1>3. ThrowBlocks(g, s) = FoldLeft(LAMBDA h, i : GenAction(h, i, s, NoPad(h, i)), base, seq)
  BY Zenon DEF GenBlocks, ThrowBlocks, TopThrow
<1>9. \A k \in 0 .. n - 1 : seq[k + 1] = start + (k + 1)
  OBVIOUS
<1> HIDE DEF seq, loop, base
<1>4. \A f, x : FoldOf(loop, base, seq, f, x) =
                   IF x = {} THEN base ELSE LET i == Max(x) IN GenAction(f[x \ {i}], seq[i], s, NoPad(f[x \ {i}], seq[i]))
  BY <1>2, Zenon DEF FoldOf
<1>5. PICK f : IsFold(loop, base, seq, n, f) /\ ThrowBlocks(g, s) = f[1 .. n]
  <2>1. \E f : f = [x \in SUBSET (DOMAIN seq) |->
                       IF x = {} THEN base ELSE LET i == Max(x) IN GenAction(f[x \ {i}], seq[i], s, NoPad(f[x \ {i}], seq[i]))]
    <3>1. PICK f : IsFold(loop, base, seq, n, f)
      BY FoldExists
    <3>2. f = [x \in SUBSET (1 .. n) |->
                 IF x = {} THEN base ELSE LET i == Max(x) IN GenAction(f[x \ {i}], seq[i], s, NoPad(f[x \ {i}], seq[i]))]
      BY <1>4, <3>1 DEF IsFold
    <3> QED
      BY <1>1, <3>2
  <2>2. PICK f : /\ f = [x \in SUBSET (DOMAIN seq) |->
                            IF x = {} THEN base ELSE LET i == Max(x) IN GenAction(f[x \ {i}], seq[i], s, NoPad(f[x \ {i}], seq[i]))]
                 /\ ThrowBlocks(g, s) = f[DOMAIN seq]
    BY <1>3, <2>1, Zenon DEF FoldLeft, MapThenFoldSet
  <2>3. IsFold(loop, base, seq, n, f)
    BY <1>1, <1>4, <2>2 DEF IsFold
  <2> QED
    BY <1>1, <2>2, <2>3
<1>6. PICK W : IsChain(loop, base, seq, n, W) /\ W[n] = f[1 .. n]
  BY <1>5, FoldChain
<1>7. \A k \in 0 .. n - 1 : W[k + 1] = GenAction(W[k], start + (k + 1), s, NoPad(W[k], start + (k + 1)))
  <2>1. SUFFICES ASSUME NEW k \in 0 .. n - 1
                 PROVE  W[k + 1] = GenAction(W[k], start + (k + 1), s, NoPad(W[k], start + (k + 1)))
    OBVIOUS
  <2>2. W[k + 1] = FoldStep(loop, W[k], seq[k + 1])
    BY <1>6, Zenon DEF IsChain
  <2>3. seq[k + 1] = start + (k + 1)
    BY <1>9
  <2>4. W[k + 1] = FoldStep(loop, W[k], start + (k + 1))
    BY <2>2, <2>3, Zenon
  <2> QED
    BY <1>2, <2>4, Zenon
<1>8. W[0] = base /\ W[n] = ThrowBlocks(g, s)
  BY <1>5, <1>6 DEF IsChain
<1> QED
  BY <1>7, <1>8 DEF base

LEMMA UnwindFold ==
    ASSUME NEW g, NEW s, NEW start, start = UnwindStartPosition(g.stack, s), NEW n \in Nat, n = Len(g.stack) - start
    PROVE  \E W : /\ W[0] = TopUnwind(g, start, s) /\ W[n] = UnwindBlocks(g, s)
                  /\ \A k \in 0 .. n - 1 : W[k + 1] = GenAction(W[k], start + (k + 1), s, BodyPad(W[k], start + (k + 1)))
<1> DEFINE seq == [k \in 1 .. Len(g.stack) - start |-> start + k]
           loop == <<"unwind", s>>
           base == TopUnwind(g, start, s)
<1>1. DOMAIN seq = 1 .. n
  OBVIOUS
<1>2. \A b, e : FoldStep(loop, b, e) = GenAction(b, e, s, BodyPad(b, e))
  <2>1. loop[1] # "throw" /\ loop[2] = s
    OBVIOUS
  <2> HIDE DEF loop
  <2> QED
    BY <2>1, Zenon DEF FoldStep
<1>3. UnwindBlocks(g, s) = FoldLeft(LAMBDA h, i : GenAction(h, i, s, BodyPad(h, i)), base, seq)
  BY Zenon DEF GenBlocks, UnwindBlocks, TopUnwind
<1>9. \A k \in 0 .. n - 1 : seq[k + 1] = start + (k + 1)
  OBVIOUS
<1> HIDE DEF seq, loop, base
<1>4. \A f, x : FoldOf(loop, base, seq, f, x) =
                   IF x = {} THEN base ELSE LET i == Max(x) IN GenAction(f[x \ {i}], seq[i], s, BodyPad(f[x \ {i}], seq[i]))
  BY <1>2, Zenon DEF FoldOf
<1>5. PICK f : IsFold(loop, base, seq, n, f) /\ UnwindBlocks(g, s) = f[1 .. n]
  <2>1. \E f : f = [x \in SUBSET (DOMAIN seq) |->
                       IF x = {} THEN base ELSE LET i == Max(x) IN GenAction(f[x \ {i}], seq[i], s, BodyPad(f[x \ {i}], seq[i]))]
    <3>1. PICK f : IsFold(loop, base, seq, n, f)
      BY FoldExists
    <3>2. f = [x \in SUBSET (1 .. n) |->
                 IF x = {} THEN base ELSE LET i == Max(x) IN GenAction(f[x \ {i}], seq[i], s, BodyPad(f[x \ {i}], seq[i]))]
      BY <1>4, <3>1 DEF IsFold
    <3> QED
      BY <1>1, <3>2
  <2>2. PICK f : /\ f = [x \in SUBSET (DOMAIN seq) |->
                            IF x = {} THEN base ELSE LET i == Max(x) IN GenAction(f[x \ {i}], seq[i], s, BodyPad(f[x \ {i}], seq[i]))]
                 /\ UnwindBlocks(g, s) = f[DOMAIN seq]
    BY <1>3, <2>1, Zenon DEF FoldLeft, MapThenFoldSet
  <2>3. IsFold(loop, base, seq, n, f)
    BY <1>1, <1>4, <2>2 DEF IsFold
  <2> QED
    BY <1>1, <2>2, <2>3
<1>6. PICK W : IsChain(loop, base, seq, n, W) /\ W[n] = f[1 .. n]
  BY <1>5, FoldChain
<1>7. \A k \in 0 .. n - 1 : W[k + 1] = GenAction(W[k], start + (k + 1), s, BodyPad(W[k], start + (k + 1)))
  <2>1. SUFFICES ASSUME NEW k \in 0 .. n - 1
                 PROVE  W[k + 1] = GenAction(W[k], start + (k + 1), s, BodyPad(W[k], start + (k + 1)))
    OBVIOUS
  <2>2. W[k + 1] = FoldStep(loop, W[k], seq[k + 1])
    BY <1>6, Zenon DEF IsChain
  <2>3. seq[k + 1] = start + (k + 1)
    BY <1>9
  <2>4. W[k + 1] = FoldStep(loop, W[k], start + (k + 1))
    BY <2>2, <2>3, Zenon
  <2> QED
    BY <1>2, <2>4, Zenon
<1>8. W[0] = base /\ W[n] = UnwindBlocks(g, s)
  BY <1>5, <1>6 DEF IsChain
<1> QED
  BY <1>7, <1>8 DEF base

LEMMA BlocksAre ==
    /\ \A g : GenThrowBlock(g) = ThrowBlocks(g, "Throw")
    /\ \A g, s : GenUnwindBlock(g, s) = UnwindBlocks(g, s)
BY Zenon DEF GenThrowBlock, GenUnwindBlock, ThrowBlocks, UnwindBlocks

-----------------------------------------------------------------------------
(***************************************************************************)
(* What the operators on the emitter change.                               *)
(***************************************************************************)
Emitter(stack, code, made) == [stack |-> stack, code |-> code, made |-> made]
IsEmitter(g) == g = Emitter(g.stack, g.code, g.made)

IsAll(g, stack, code, made) == IsEmitter(g) /\ g.stack = stack /\ g.code = code /\ g.made = made

\* An action, with a block or a landing pad generated for it.
WithBlock(a, s, n) == [a EXCEPT !.block = [t \in States |-> IF t \in SharedStates(a, s) THEN n ELSE @[t]]]
WithPad(a, s, n)   == [a EXCEPT !.pad[s] = n]

LEMMA EmitterIs ==
    ASSUME NEW stack, NEW code, NEW made, NEW g, g = Emitter(stack, code, made)
    PROVE  IsEmitter(g) /\ g.stack = stack /\ g.code = code /\ g.made = made
BY DEF Emitter, IsEmitter

LEMMA MadeIs ==
    ASSUME NEW g, IsEmitter(g), NEW n
    PROVE  [g EXCEPT !.made = n] = Emitter(g.stack, g.code, n)
BY DEF Emitter, IsEmitter

LEMMA CodeMadeIs ==
    ASSUME NEW g, IsEmitter(g), NEW code, NEW n
    PROVE  [g EXCEPT !.code = code, !.made = n] = Emitter(g.stack, code, n)
<1>1. [g EXCEPT !.code = code] = Emitter(g.stack, code, g.made)
  BY DEF Emitter, IsEmitter
<1> DEFINE h == [g EXCEPT !.code = code]
<1>2. h = Emitter(h.stack, h.code, h.made) /\ h.stack = g.stack /\ h.code = code
  BY <1>1 DEF Emitter
<1> HIDE DEF h
<1>3. [h EXCEPT !.made = n] = Emitter(g.stack, code, n)
  BY <1>2, MadeIs DEF IsEmitter
<1> QED
  BY <1>3 DEF h

LEMMA EmitIs ==
    ASSUME NEW g, IsEmitter(g), NEW c
    PROVE  Emit(g, c) = Emitter(g.stack, Append(g.code, c), Len(g.code) + 1)
<1> DEFINE code == Append(g.code, c)
           n == Len(g.code) + 1
<1>1. Emit(g, c) = [g EXCEPT !.code = code, !.made = n]
  BY Zenon DEF Emit
<1> HIDE DEF code, n
<1>2. [g EXCEPT !.code = code, !.made = n] = Emitter(g.stack, code, n)
  BY CodeMadeIs
<1> QED
  BY <1>1, <1>2 DEF code, n

LEMMA SetIs ==
    ASSUME NEW g, IsEmitter(g), NEW i, NEW s
    PROVE  SetActionBlock(g, i, s) = Emitter(Replaced(g.stack, i, WithBlock(g.stack[i], s, g.made)), g.code, g.made)
BY DEF Emitter, IsEmitter, SetActionBlock, Replaced, WithBlock

LEMMA LinkIs ==
    ASSUME NEW g, IsEmitter(g), NEW b, NEW s
    PROVE  Link(g, b, s) = Emitter(g.stack, IF g.code[b].cases = <<>> /\ g.code[b].next = g.made THEN g.code
                                            ELSE Replaced(g.code, b, WithCase(g.code[b], s, g.made)), b)
BY DEF Emitter, IsEmitter, Link, Replaced, WithCase

LEMMA BelowIs ==
    ASSUME NEW g, IsEmitter(g), NEW i
    PROVE  Below(g, i) = Emitter(Prefix(g.stack, i - 1), g.code, g.made)
<1> DEFINE stack == SubSeq(g.stack, 1, i - 1)
<1>1. Below(g, i) = [g EXCEPT !.stack = stack]
  BY Zenon DEF Below
<1> HIDE DEF stack
<1>2. [g EXCEPT !.stack = stack] = Emitter(stack, g.code, g.made)
  BY DEF Emitter, IsEmitter
<1> QED
  BY <1>1, <1>2 DEF stack, Prefix

LEMMA BackToIs ==
    ASSUME NEW g, IsEmitter(g), NEW stack
    PROVE  BackTo(g, stack) = Emitter(stack, g.code, g.made)
BY DEF Emitter, IsEmitter, BackTo

LEMMA EmitAll ==
    ASSUME NEW g, IsEmitter(g), NEW c, NEW h, h = Emit(g, c)
    PROVE  IsAll(h, g.stack, Append(g.code, c), Len(g.code) + 1)
<1> DEFINE code == Append(g.code, c)
           n == Len(g.code) + 1
<1>1. h = Emitter(g.stack, code, n)
  BY EmitIs
<1> HIDE DEF code, n
<1>2. IsAll(h, g.stack, code, n)
  BY <1>1, EmitterIs DEF IsAll
<1> QED
  BY <1>2 DEF code, n

LEMMA SetAll ==
    ASSUME NEW g, IsEmitter(g), NEW i, NEW s, NEW h, h = SetActionBlock(g, i, s)
    PROVE  IsAll(h, Replaced(g.stack, i, WithBlock(g.stack[i], s, g.made)), g.code, g.made)
BY SetIs, EmitterIs DEF IsAll

LEMMA MadeAll ==
    ASSUME NEW g, IsEmitter(g), NEW n, NEW h, h = [g EXCEPT !.made = n]
    PROVE  IsAll(h, g.stack, g.code, n)
<1>1. h = Emitter(g.stack, g.code, n)
  BY MadeIs
<1> QED
  BY <1>1, EmitterIs DEF IsAll

LEMMA BelowAll ==
    ASSUME NEW g, IsEmitter(g), NEW i, NEW h, h = Below(g, i)
    PROVE  IsAll(h, Prefix(g.stack, i - 1), g.code, g.made)
BY BelowIs, EmitterIs DEF IsAll

LEMMA BackToAll ==
    ASSUME NEW g, IsEmitter(g), NEW stack, NEW h, h = BackTo(g, stack)
    PROVE  IsAll(h, stack, g.code, g.made)
BY BackToIs, EmitterIs DEF IsAll

LEMMA LinkAll ==
    ASSUME NEW g, IsEmitter(g), NEW b, NEW s, NEW h, h = Link(g, b, s)
    PROVE  IsAll(h, g.stack, IF g.code[b].cases = <<>> /\ g.code[b].next = g.made THEN g.code
                             ELSE Replaced(g.code, b, WithCase(g.code[b], s, g.made)), b)
<1> DEFINE code == IF g.code[b].cases = <<>> /\ g.code[b].next = g.made THEN g.code
                   ELSE Replaced(g.code, b, WithCase(g.code[b], s, g.made))
<1>1. h = Emitter(g.stack, code, b)
  BY LinkIs
<1> HIDE DEF code
<1>2. IsAll(h, g.stack, code, b)
  BY <1>1, EmitterIs DEF IsAll
<1> QED
  BY <1>2 DEF code

LEMMA WithBlockIs ==
    ASSUME NEW a \in Acts, NEW s, NEW n \in Nat
    PROVE  LET b == WithBlock(a, s, n)
           IN  /\ b \in Acts /\ SameAs(a, b) /\ b.pad = a.pad
               /\ \A t \in States : b.block[t] = IF t \in SharedStates(a, s) THEN n ELSE a.block[t]
<1> DEFINE new == [t \in States |-> IF t \in SharedStates(a, s) THEN n ELSE a.block[t]]
           b == WithBlock(a, s, n)
<1>1. new \in [States -> Nat] /\ \A t \in States : new[t] = IF t \in SharedStates(a, s) THEN n ELSE a.block[t]
  BY DEF Acts
<1>2. b = [a EXCEPT !.block = new]
  BY Zenon DEF WithBlock
<1> HIDE DEF new, b
<1>3. b \in Acts /\ b.block = new /\ b.pad = a.pad /\ SameAs(a, b)
  BY <1>1, <1>2 DEF Acts, SameAs
<1> QED
  BY <1>1, <1>3 DEF b

LEMMA WithPadIs ==
    ASSUME NEW a \in Acts, NEW s \in ExceptionStates, NEW n \in Nat
    PROVE  LET b == WithPad(a, s, n)
           IN  /\ b \in Acts /\ SameAs(a, b) /\ b.block = a.block /\ b.pad[s] = n
BY DEF Acts, SameAs, WithPad

LEMMA StackReplaced ==
    ASSUME NEW stack, IsStack(stack), NEW i \in 1 .. Len(stack), NEW a \in Acts, SameAs(stack[i], a),
           NEW stack2, stack2 = Replaced(stack, i, a)
    PROVE  /\ IsStack(stack2) /\ Len(stack2) = Len(stack) /\ stack2[i] = a
           /\ \A j \in 1 .. Len(stack) : j # i => stack2[j] = stack[j]
           /\ \A j \in 1 .. Len(stack) : SameAs(stack[j], stack2[j])
<1>1. stack \in Seq(Acts)
  BY DEF IsStack
<1>2. /\ stack2 \in Seq(Acts) /\ Len(stack2) = Len(stack) /\ stack2[i] = a
      /\ \A j \in 1 .. Len(stack) : j # i => stack2[j] = stack[j]
  BY <1>1 DEF Replaced
<1>3. \A j \in 1 .. Len(stack) : SameAs(stack[j], stack2[j])
  <2>1. \A j \in 1 .. Len(stack) : SameAs(stack[j], stack[j])
    BY DEF SameAs
  <2>2. SUFFICES ASSUME NEW j \in 1 .. Len(stack) PROVE SameAs(stack[j], stack2[j])
    OBVIOUS
  <2>3. CASE j = i
    BY <1>2, <2>3
  <2>4. CASE j # i
    <3>1. stack2[j] = stack[j]
      BY <1>2, <2>4
    <3> QED
      BY <2>1, <3>1
  <2> QED
    BY <2>3, <2>4
<1> QED
  BY <1>2, <1>3 DEF IsStack, SameAs

LEMMA SameSelf == \A a : SameAs(a, a)
BY DEF SameAs

LEMMA KeepsSelf ==
    /\ \A code : Len(code) \in Nat => Keeps(code, code)
    /\ \A code : KeepsActs(code, code)
    /\ \A plans : KeepsPlans(plans, plans)
BY DEF Keeps, KeepsActs, KeepsPlans

\* Code and ways were added: what the stack remembers holds of them too.
LEMMA StackGrows ==
    ASSUME NEW stack, NEW code, NEW W, NEW plans, StackOK(stack, code, W, plans),
           Len(code) \in Nat, NEW code2, Len(code2) \in Nat, Keeps(code, code2), KeepsActs(code, code2),
           NEW W2, W \subseteq W2, NEW plans2, KeepsPlans(plans, plans2),
           \A b, u, t, r : <<b, u, t, r>> \in W2 /\ <<b, u, t, r>> \notin W => WayIn(stack, code, b, u, t, r)
    PROVE  StackOK(stack, code2, W2, plans2)
<1>1. IsStack(stack) /\ Apart(stack) /\ \A i \in 1 .. Len(stack) : SameAs(stack[i], stack[i])
  BY SameSelf DEF StackOK
<1>2. /\ Ground(code2)
      /\ \A i \in 1 .. Len(stack), s \in Modes : stack[i].block[s] <= Len(code2)
      /\ \A i \in 1 .. Len(stack), s \in Modes : Made(stack[i], s) => PlaceOK(stack, code2, W2, i, s)
      /\ \A i \in 1 .. Len(stack) :
            MarkOK(code2, stack[i]) /\ BodyOK(stack, plans2, i) /\ CatchOK(stack, W2, i) /\ PadOK(stack, code2, W2, i)
  BY <1>1, StackMore
<1> QED
  BY <1>1, <1>2 DEF StackOK

\* Blocks or landing pads are remembered.
LEMMA StackSame ==
    ASSUME NEW stack, NEW code, NEW W, NEW plans, StackOK(stack, code, W, plans), Len(code) \in Nat,
           NEW stack2, IsStack(stack2), Len(stack2) = Len(stack), \A i \in 1 .. Len(stack) : SameAs(stack[i], stack2[i])
    PROVE  /\ Ground(code)
           /\ \A i \in 1 .. Len(stack), s \in Modes : stack[i].block[s] <= Len(code)
           /\ \A i \in 1 .. Len(stack), s \in Modes : \A t : t \in Keys(s) /\ EndsAt(stack, i, s, t) =>
                    EndsAt(stack2, i, s, t) /\ RouteAt(stack2, i, s, t) = RouteAt(stack, i, s, t)
           /\ \A i \in 1 .. Len(stack), s \in Modes :
                    Made(stack[i], s) /\ stack2[i].block[s] = stack[i].block[s] => PlaceOK(stack2, code, W, i, s)
           /\ \A i \in 1 .. Len(stack) :
                    /\ MarkOK(code, stack2[i]) /\ BodyOK(stack2, plans, i) /\ CatchOK(stack2, W, i)
                    /\ stack2[i].pad["Throw"] = stack[i].pad["Throw"] => PadOK(stack2, code, W, i)
<1>1. PICK code2, W2, plans2 : code2 = code /\ W2 = W /\ plans2 = plans
  OBVIOUS
<1>2. Keeps(code, code2) /\ KeepsActs(code, code2) /\ KeepsPlans(plans, plans2) /\ W \subseteq W2 /\ Len(code2) \in Nat
  BY <1>1, KeepsSelf
<1>3. \A b, u, t, r : <<b, u, t, r>> \in W2 /\ <<b, u, t, r>> \notin W => WayIn(stack, code, b, u, t, r)
  BY <1>1
<1>4. /\ Ground(code2)
      /\ \A i \in 1 .. Len(stack), s \in Modes : stack[i].block[s] <= Len(code2)
      /\ \A i \in 1 .. Len(stack), s \in Modes : \A t : t \in Keys(s) /\ EndsAt(stack, i, s, t) =>
              EndsAt(stack2, i, s, t) /\ RouteAt(stack2, i, s, t) = RouteAt(stack, i, s, t)
      /\ \A i \in 1 .. Len(stack), s \in Modes :
              Made(stack[i], s) /\ stack2[i].block[s] = stack[i].block[s] => PlaceOK(stack2, code2, W2, i, s)
      /\ \A i \in 1 .. Len(stack) :
              /\ MarkOK(code2, stack2[i]) /\ BodyOK(stack2, plans2, i) /\ CatchOK(stack2, W2, i)
              /\ stack2[i].pad["Throw"] = stack[i].pad["Throw"] => PadOK(stack2, code2, W2, i)
  BY <1>2, <1>3, StackMore
<1> QED
  BY <1>1, <1>4, Zenon

\* Block b is the one that was generated for the action at i in state s.
LEMMA StackSet ==
    ASSUME NEW stack, NEW code, NEW W, NEW plans, StackOK(stack, code, W, plans), Len(code) \in Nat,
           NEW i \in 1 .. Len(stack), NEW s \in Modes, IsActiveForState(stack[i], s), NEW b \in 1 .. Len(code),
           \A j \in 1 .. Len(stack), u \in Modes : stack[j].block[u] # b,
           \A t \in Keys(s) : <<b, s, t, RouteAt(stack, i, s, t)>> \in W,
           ~IsTerminator(stack[i]) =>
                /\ code[b].op = "act" /\ code[b].id = stack[i].id /\ code[b].body = stack[i].body
                /\ \A u, t, r : <<b, u, t, r>> \in W =>
                        u = s /\ t \in Keys(s) /\ EndsAt(stack, i, s, t) /\ r = RouteAt(stack, i, s, t),
           NEW stack2, stack2 = Replaced(stack, i, WithBlock(stack[i], s, b))
    PROVE  StackOK(stack2, code, W, plans) /\ Len(stack2) = Len(stack) /\ \A j \in 1 .. Len(stack) : SameAs(stack[j], stack2[j])
<1> DEFINE a == WithBlock(stack[i], s, b)
           L == Len(stack)
<1>0. IsStack(stack) /\ stack[i] \in Acts /\ b \in Nat /\ L \in Nat
  BY DEF StackOK, IsStack
<1>1. /\ a \in Acts /\ SameAs(stack[i], a) /\ a.pad = stack[i].pad
      /\ \A t \in States : a.block[t] = IF t \in SharedStates(stack[i], s) THEN b ELSE stack[i].block[t]
  BY <1>0, WithBlockIs
<1>2. /\ IsStack(stack2) /\ Len(stack2) = L /\ stack2[i] = a
      /\ \A j \in 1 .. L : j # i => stack2[j] = stack[j]
      /\ \A j \in 1 .. L : SameAs(stack[j], stack2[j])
  <2> HIDE DEF a
  <2>1. stack2 = Replaced(stack, i, a)
    BY DEF a
  <2> QED
    BY <1>0, <1>1, <2>1, StackReplaced
<1> HIDE DEF a
<1>3. Keeps(code, code) /\ KeepsActs(code, code) /\ KeepsPlans(plans, plans)
  BY KeepsSelf
<1>4. /\ Ground(code)
      /\ \A j \in 1 .. L, u \in Modes : \A t : t \in Keys(u) /\ EndsAt(stack, j, u, t) =>
            EndsAt(stack2, j, u, t) /\ RouteAt(stack2, j, u, t) = RouteAt(stack, j, u, t)
      /\ \A j \in 1 .. L, u \in Modes :
            Made(stack[j], u) /\ stack2[j].block[u] = stack[j].block[u] => PlaceOK(stack2, code, W, j, u)
      /\ \A j \in 1 .. L :
            /\ MarkOK(code, stack2[j]) /\ BodyOK(stack2, plans, j) /\ CatchOK(stack2, W, j)
            /\ stack2[j].pad["Throw"] = stack[j].pad["Throw"] => PadOK(stack2, code, W, j)
  <2>2. IsStack(stack2) /\ Len(stack2) = Len(stack) /\ \A j \in 1 .. Len(stack) : SameAs(stack[j], stack2[j])
    BY <1>2
  <2> HIDE DEF L
  <2>3. /\ Ground(code)
        /\ \A j \in 1 .. Len(stack), u \in Modes : \A t : t \in Keys(u) /\ EndsAt(stack, j, u, t) =>
              EndsAt(stack2, j, u, t) /\ RouteAt(stack2, j, u, t) = RouteAt(stack, j, u, t)
        /\ \A j \in 1 .. Len(stack), u \in Modes :
              Made(stack[j], u) /\ stack2[j].block[u] = stack[j].block[u] => PlaceOK(stack2, code, W, j, u)
        /\ \A j \in 1 .. Len(stack) :
              /\ MarkOK(code, stack2[j]) /\ BodyOK(stack2, plans, j) /\ CatchOK(stack2, W, j)
              /\ stack2[j].pad["Throw"] = stack[j].pad["Throw"] => PadOK(stack2, code, W, j)
    BY <2>2, StackSame, SMTT(30)
  <2> QED
    BY <2>3 DEF L
<1>5. \A j \in 1 .. L : stack2[j].pad = stack[j].pad
  BY <1>1, <1>2
<1>6. \A u \in Modes : u \in States
  BY DEF Modes
<1>7. \A j \in 1 .. L, u \in Modes :
        stack2[j].block[u] = IF j = i /\ u \in SharedStates(stack[i], s) THEN b ELSE stack[j].block[u]
  BY <1>1, <1>2, <1>6
<1>8. \A u \in Modes : u \in SharedStates(stack[i], s) /\ IsActiveForState(stack[i], u) =>
            (u = "Throw" <=> s = "Throw") /\ (IsTerminator(stack[i]) => u = s)
  BY DEF SharedStates, IsActiveForState, ActiveStates, IsTerminator, Terminators, Modes, States, ExceptionStates, NormalStates
<1>9. \A j \in 1 .. L : \A u : IsActiveForState(stack2[j], u) <=> IsActiveForState(stack[j], u)
  BY <1>2 DEF SameAs, IsActiveForState, ActiveStates
<1>10. \A j \in 1 .. L : IsTerminator(stack2[j]) <=> IsTerminator(stack[j])
  BY <1>2 DEF SameAs, IsTerminator
<1>11. \A j \in 1 .. L, u \in Modes : stack2[j].block[u] <= Len(code)
  BY <1>7 DEF StackOK
<1>12. ASSUME NEW u \in Modes, u \in SharedStates(stack[i], s), IsActiveForState(stack[i], u)
       PROVE  PlaceOK(stack2, code, W, i, u)
  <2>1. stack2[i].block[u] = b /\ stack2[i].id = stack[i].id /\ stack2[i].body = stack[i].body
    BY <1>2, <1>7, <1>12 DEF SameAs
  <2>2. (u = "Throw" <=> s = "Throw") /\ (IsTerminator(stack[i]) => u = s)
    BY <1>8, <1>12
  <2>3. ASSUME IsTerminator(stack[i]) \/ u = "Throw", NEW t \in Keys(u)
        PROVE  <<b, u, t, RouteAt(stack2, i, u, t)>> \in W
    <3>1. u = s
      BY <2>2, <2>3
    <3>2. EndsAt(stack, i, s, t)
      BY <1>0, <2>3, <3>1, EndsActive
    <3> QED
      BY <1>4, <2>3, <3>1, <3>2
  <2>4. ASSUME ~IsTerminator(stack[i]), NEW v, NEW t, NEW r, <<b, v, t, r>> \in W
        PROVE  /\ v = "Throw" <=> u = "Throw"
               /\ v = u => t \in Keys(u) /\ EndsAt(stack2, i, u, t) /\ r = RouteAt(stack2, i, u, t)
    <3>1. v = s /\ t \in Keys(s) /\ EndsAt(stack, i, s, t) /\ r = RouteAt(stack, i, s, t)
      BY <2>4
    <3> QED
      BY <1>4, <2>2, <3>1
  <2> QED
    BY <1>10, <2>1, <2>3, <2>4 DEF PlaceOK
<1>13. ASSUME NEW j \in 1 .. L, NEW u \in Modes, Made(stack2[j], u) PROVE PlaceOK(stack2, code, W, j, u)
  <2>1. CASE j = i /\ u \in SharedStates(stack[i], s)
    BY <1>9, <1>12, <1>13, <2>1 DEF Made
  <2>2. CASE ~(j = i /\ u \in SharedStates(stack[i], s))
    <3>1. stack2[j].block[u] = stack[j].block[u]
      BY <1>7, <2>2
    <3>2. Made(stack[j], u)
      BY <1>9, <1>13, <3>1 DEF Made
    <3> QED
      BY <1>4, <3>1, <3>2
  <2> QED
    BY <2>1, <2>2
<1>14. Apart(stack2)
  <2>1. SUFFICES ASSUME NEW j \in 1 .. L, NEW k \in 1 .. L, NEW u \in Modes, NEW v \in Modes,
                        Made(stack2[j], u), ~IsTerminator(stack2[j]),
                        Made(stack2[k], v), stack2[k].block[v] = stack2[j].block[u]
                 PROVE  j = k /\ (v = "Throw" <=> u = "Throw")
    BY <1>2 DEF Apart
  <2> DEFINE new(x, y) == x = i /\ y \in SharedStates(stack[i], s)
  <2>2. new(j, u) <=> new(k, v)
    BY <1>7, <2>1
  <2>3. CASE new(j, u)
    BY <1>8, <1>9, <2>1, <2>2, <2>3 DEF Made
  <2>4. CASE ~new(j, u)
    <3>1. Made(stack[j], u) /\ ~IsTerminator(stack[j]) /\ Made(stack[k], v) /\ stack[k].block[v] = stack[j].block[u]
      BY <1>7, <1>9, <1>10, <2>1, <2>2, <2>4 DEF Made
    <3>2. Apart(stack)
      BY DEF StackOK
    <3> QED
      BY <3>1, <3>2 DEF Apart
  <2> QED
    BY <2>3, <2>4
<1> QED
  BY <1>2, <1>4, <1>5, <1>11, <1>13, <1>14 DEF StackOK

\* The landing pad of the stack is remembered.
Padded(stack, m, n) ==
    [i \in 1 .. Len(stack) |-> IF i >= m THEN WithPad(stack[i], "Throw", n) ELSE stack[i]]

LEMMA StackPad ==
    ASSUME NEW stack, NEW code, NEW W, NEW plans, StackOK(stack, code, W, plans), Len(code) \in Nat,
           NEW m \in 1 .. Len(stack), NEW b \in 1 .. Len(code), code[b].op = "pad",
           \A i \in m .. Len(stack), t \in Types : <<b, "Throw", t, RouteAt(stack, i, "Throw", t)>> \in W,
           NEW stack2, stack2 = Padded(stack, m, b)
    PROVE  StackOK(stack2, code, W, plans) /\ Len(stack2) = Len(stack) /\ \A j \in 1 .. Len(stack) : SameAs(stack[j], stack2[j])
<1> DEFINE L == Len(stack)
<1>0. IsStack(stack) /\ stack \in Seq(Acts) /\ b \in Nat /\ L \in Nat /\ L # 0 /\ m \in Nat
  BY DEF StackOK, IsStack
<1>1. \A i \in 1 .. L : stack[i] \in Acts
  BY <1>0
<1>2. ASSUME NEW i \in 1 .. L
      PROVE  LET a == WithPad(stack[i], "Throw", b)
             IN  a \in Acts /\ SameAs(stack[i], a) /\ a.block = stack[i].block /\ a.pad["Throw"] = b
  <2>1. "Throw" \in ExceptionStates /\ stack[i] \in Acts
    BY <1>1 DEF ExceptionStates
  <2> QED
    BY <1>0, <2>1, WithPadIs
<1>3. ASSUME NEW i \in 1 .. L
      PROVE  /\ stack2[i] \in Acts /\ SameAs(stack[i], stack2[i]) /\ stack2[i].block = stack[i].block
             /\ IF i >= m THEN stack2[i].pad["Throw"] = b ELSE stack2[i].pad["Throw"] = stack[i].pad["Throw"]
  <2> DEFINE a == WithPad(stack[i], "Throw", b)
  <2>1. a \in Acts /\ SameAs(stack[i], a) /\ a.block = stack[i].block /\ a.pad["Throw"] = b
    BY <1>2
  <2>2. stack2[i] = IF i >= m THEN a ELSE stack[i]
    BY DEF Padded
  <2> HIDE DEF a
  <2> QED
    BY <1>1, <2>1, <2>2, SameSelf
<1>4. stack2 \in Seq(Acts) /\ Len(stack2) = L
  <2>1. \A i \in 1 .. L : stack2[i] \in Acts
    BY <1>3
  <2>2. DOMAIN stack2 = 1 .. L /\ stack2 = [i \in 1 .. L |-> stack2[i]]
    BY DEF Padded
  <2> HIDE DEF L
  <2>3. stack2 \in [1 .. L -> Acts]
    BY <2>1, <2>2
  <2> QED
    BY <1>0, <2>3
<1>5. IsStack(stack2)
  BY <1>0, <1>3, <1>4, SMTT(30) DEF IsStack, SameAs
<1>6. Keeps(code, code) /\ KeepsActs(code, code) /\ KeepsPlans(plans, plans)
  BY KeepsSelf
<1>7. /\ Ground(code)
      /\ \A j \in 1 .. L, u \in Modes : stack[j].block[u] <= Len(code)
      /\ \A j \in 1 .. L, u \in Modes : \A t : t \in Keys(u) /\ EndsAt(stack, j, u, t) =>
            EndsAt(stack2, j, u, t) /\ RouteAt(stack2, j, u, t) = RouteAt(stack, j, u, t)
      /\ \A j \in 1 .. L, u \in Modes :
            Made(stack[j], u) /\ stack2[j].block[u] = stack[j].block[u] => PlaceOK(stack2, code, W, j, u)
      /\ \A j \in 1 .. L :
            /\ MarkOK(code, stack2[j]) /\ BodyOK(stack2, plans, j) /\ CatchOK(stack2, W, j)
            /\ stack2[j].pad["Throw"] = stack[j].pad["Throw"] => PadOK(stack2, code, W, j)
  <2>2. IsStack(stack2) /\ Len(stack2) = Len(stack) /\ \A j \in 1 .. Len(stack) : SameAs(stack[j], stack2[j])
    BY <1>3, <1>4, <1>5
  <2> HIDE DEF L
  <2>3. /\ Ground(code)
        /\ \A j \in 1 .. Len(stack), u \in Modes : \A t : t \in Keys(u) /\ EndsAt(stack, j, u, t) =>
              EndsAt(stack2, j, u, t) /\ RouteAt(stack2, j, u, t) = RouteAt(stack, j, u, t)
        /\ \A j \in 1 .. Len(stack), u \in Modes :
              Made(stack[j], u) /\ stack2[j].block[u] = stack[j].block[u] => PlaceOK(stack2, code, W, j, u)
        /\ \A j \in 1 .. Len(stack) :
              /\ MarkOK(code, stack2[j]) /\ BodyOK(stack2, plans, j) /\ CatchOK(stack2, W, j)
              /\ stack2[j].pad["Throw"] = stack[j].pad["Throw"] => PadOK(stack2, code, W, j)
    BY <2>2, StackSame, SMTT(30)
  <2> QED
    BY <2>3 DEF L, StackOK
<1>8. ASSUME NEW j \in 1 .. L, NEW u
      PROVE  (Made(stack2[j], u) <=> Made(stack[j], u)) /\ (IsTerminator(stack2[j]) <=> IsTerminator(stack[j]))
  <2>1. SameAs(stack[j], stack2[j]) /\ stack2[j].block = stack[j].block
    BY <1>3
  <2> QED
    BY <2>1 DEF SameAs, Made, IsActiveForState, ActiveStates, IsTerminator
<1>9. Apart(stack2)
  <2>1. Apart(stack)
    BY DEF StackOK
  <2> QED
    <3>1. SUFFICES ASSUME NEW j \in 1 .. L, NEW k \in 1 .. L, NEW u \in Modes, NEW v \in Modes,
                          Made(stack2[j], u), ~IsTerminator(stack2[j]),
                          Made(stack2[k], v), stack2[k].block[v] = stack2[j].block[u]
                   PROVE  j = k /\ (v = "Throw" <=> u = "Throw")
      BY <1>4 DEF Apart
    <3>2. stack2[j].block = stack[j].block /\ stack2[k].block = stack[k].block
      BY <1>3
    <3>3. Made(stack[j], u) /\ ~IsTerminator(stack[j]) /\ Made(stack[k], v) /\ stack[k].block[v] = stack[j].block[u]
      BY <1>8, <3>1, <3>2
    <3> QED
      BY <2>1, <3>3 DEF Apart
<1>10. ASSUME NEW j \in 1 .. L PROVE PadOK(stack2, code, W, j)
  <2>1. CASE j >= m
    <3>1. j \in m .. L
      BY <1>0, <2>1
    <3>2. "Throw" \in Modes /\ \A t \in Types : t \in Keys("Throw")
      BY DEF Modes, States, Keys
    <3>3. \A t \in Types : RouteAt(stack2, j, "Throw", t) = RouteAt(stack, j, "Throw", t)
      BY <1>0, <1>7, <3>2, EndsActive
    <3>4. stack2[j].pad["Throw"] = b
      BY <1>3, <2>1
    <3> QED
      BY <3>1, <3>3, <3>4 DEF PadOK
  <2>2. CASE ~(j >= m)
    BY <1>3, <1>7, <2>2
  <2> QED
    BY <2>1, <2>2
<1> QED
  BY <1>3, <1>4, <1>5, <1>7, <1>8, <1>9, <1>10 DEF StackOK

\* A part of the stack that cuts no try's clauses apart.
LEMMA StackPrefix ==
    ASSUME NEW stack, NEW code, NEW W, NEW plans, StackOK(stack, code, W, plans),
           NEW n \in 1 .. Len(stack), n = Len(stack) \/ stack[n + 1].kind # "CATCH" \/ stack[n].kind # "CATCH"
    PROVE  StackOK(Prefix(stack, n), code, W, plans)
<1> DEFINE p == Prefix(stack, n)
<1>0. IsStack(stack) /\ Len(stack) \in Nat /\ n \in Nat
  BY DEF StackOK, IsStack
<1>1. IsStack(p) /\ Len(p) = n /\ \A i \in 1 .. n : p[i] = stack[i]
  BY <1>0, PrefixIs
<1>2. \A i \in 1 .. n : i \in 1 .. Len(stack)
  BY <1>0
<1>3. ASSUME NEW i \in 1 .. n PROVE Prefix(p, i) = Prefix(stack, i)
  BY <1>0, PrefixPrefix
<1> HIDE DEF p
<1>4. ASSUME NEW i \in 1 .. n, NEW s, NEW t
      PROVE  RouteAt(p, i, s, t) = RouteAt(stack, i, s, t) /\ (EndsAt(p, i, s, t) <=> EndsAt(stack, i, s, t))
  <2>1. RouteAt(p, i, s, t) = RouteAt(stack, i, s, t)
    BY <1>3 DEF RouteAt
  <2>2. \A j \in 1 .. i : p[j] = stack[j]
    BY <1>0, <1>1
  <2> QED
    BY <2>1, <2>2 DEF EndsAt
<1>5. Apart(p)
  <2>1. Apart(stack)
    BY DEF StackOK
  <2> QED
    BY <1>1, <1>2, <2>1 DEF Apart
<1>6. ASSUME NEW i \in 1 .. n, NEW s \in Modes, Made(p[i], s) PROVE PlaceOK(p, code, W, i, s)
  <2>1. PlaceOK(stack, code, W, i, s)
    BY <1>1, <1>2, <1>6 DEF StackOK
  <2> QED
    BY <1>1, <1>4, <2>1 DEF PlaceOK
<1>7. ASSUME NEW i \in 1 .. n
      PROVE  MarkOK(code, p[i]) /\ BodyOK(p, plans, i) /\ CatchOK(p, W, i) /\ PadOK(p, code, W, i)
  <2>1. MarkOK(code, stack[i]) /\ BodyOK(stack, plans, i) /\ CatchOK(stack, W, i) /\ PadOK(stack, code, W, i)
    BY <1>2 DEF StackOK
  <2>2. BodyOK(p, plans, i)
    <3>1. CASE i = 1
      <4>1. p[i].kind = "FUNCTIONMARKER"
        BY <1>1, <3>1 DEF IsStack
      <4> QED
        BY <1>1, <2>1, <4>1 DEF BodyOK
    <3>2. CASE i # 1
      <4>1. i - 1 \in 1 .. n
        BY <1>0, <3>2
      <4> QED
        BY <1>1, <1>4, <2>1, <4>1 DEF BodyOK
    <3> QED
      BY <3>1, <3>2
  <2>3. CatchOK(p, W, i)
    <3>1. SUFFICES ASSUME p[i].kind = "CATCH", i = n \/ p[i + 1].kind # "CATCH"
                   PROVE  i = Len(stack) \/ stack[i + 1].kind # "CATCH"
      BY <1>1, <1>4, <2>1 DEF CatchOK
    <3>2. CASE i = n
      BY <1>1, <3>1, <3>2
    <3>3. CASE i # n
      <4>1. i + 1 \in 1 .. n
        BY <1>0, <3>3
      <4> QED
        BY <1>1, <3>1, <3>3, <4>1
    <3> QED
      BY <3>2, <3>3
  <2>4. PadOK(p, code, W, i)
    BY <1>1, <1>4, <2>1 DEF PadOK
  <2> QED
    BY <1>1, <2>1, <2>2, <2>3, <2>4
<1>8. \A i \in 1 .. n, s \in Modes : p[i].block[s] <= Len(code)
  BY <1>1, <1>2 DEF StackOK
<1> QED
  BY <1>1, <1>5, <1>6, <1>7, <1>8 DEF StackOK, p

LEMMA RouteRecord ==
    ASSUME NEW a \in Seq(Nat), NEW n \in Nat, NEW k \in Nat
    PROVE  [todo |-> a, goal |-> n, selector |-> k] \in Routes
BY DEF Routes

LEMMA RouteTyped ==
    ASSUME NEW stack, IsStack(stack), NEW s \in Modes, NEW t \in Keys(s), NEW n \in 1 .. Len(stack),
           EndsAt(stack, n, s, t)
    PROVE  RouteAt(stack, n, s, t) \in Routes
<1> DEFINE S == {k \in Nat : k \in 1 .. Len(stack) /\ EndsAt(stack, k, s, t) => RouteAt(stack, k, s, t) \in Routes}
<1>0. Len(stack) \in Nat /\ stack \in Seq(Acts)
  BY DEF IsStack
<1>1. 0 \in S
  OBVIOUS
<1>2. ASSUME NEW k \in S PROVE k + 1 \in S
  <2>1. SUFFICES ASSUME k + 1 \in 1 .. Len(stack), EndsAt(stack, k + 1, s, t)
                 PROVE  RouteAt(stack, k + 1, s, t) \in Routes
    OBVIOUS
  <2>2. k \in Nat /\ (k \in 1 .. Len(stack) /\ EndsAt(stack, k, s, t) => RouteAt(stack, k, s, t) \in Routes)
    OBVIOUS
  <2>3. stack[k + 1] \in Acts
    BY <1>0, <2>1
  <2>4. stack[k + 1].id \in Nat /\ stack[k + 1].to[s] \in Nat
    BY <2>3 DEF Acts, Modes
  <2>5. CASE Ends(stack[k + 1], s, t)
    <3>1. RouteAt(stack, k + 1, s, t) =
                [todo |-> <<>>, goal |-> stack[k + 1].to[s],
                 selector |-> IF stack[k + 1].kind = "CATCH" THEN stack[k + 1].id ELSE 0]
      BY <2>1, <2>5, RouteEnd
    <3>2. <<>> \in Seq(Nat) /\ (IF stack[k + 1].kind = "CATCH" THEN stack[k + 1].id ELSE 0) \in Nat
      BY <2>4
    <3> QED
      BY <2>4, <3>1, <3>2, RouteRecord
  <2>6. CASE ~Ends(stack[k + 1], s, t)
    <3>1. PICK j \in 1 .. k + 1 : Ends(stack[j], s, t)
      BY <2>1 DEF EndsAt
    <3>2. j \in 1 .. k /\ k # 0
      BY <2>2, <2>6, <3>1
    <3>3. k \in 1 .. Len(stack) /\ k + 1 \in 2 .. Len(stack) /\ (k + 1) - 1 = k
      BY <1>0, <2>1, <2>2, <3>2
    <3>4. EndsAt(stack, k, s, t)
      BY <3>1, <3>2 DEF EndsAt
    <3>5. RouteAt(stack, k, s, t) \in Routes
      BY <2>2, <3>3, <3>4
    <3> DEFINE below == RouteAt(stack, k, s, t)
    <3>6. RouteAt(stack, k + 1, s, t) =
                [todo |-> IF Runs(stack[k + 1], s) THEN <<stack[k + 1].id>> \o below.todo ELSE below.todo,
                 goal |-> below.goal, selector |-> below.selector]
      BY <2>6, <3>3, <3>4, RouteBelow
    <3> HIDE DEF below
    <3>7. below.todo \in Seq(Nat) /\ below.goal \in Nat /\ below.selector \in Nat
      BY <3>5 DEF Routes, below
    <3>8. <<stack[k + 1].id>> \o below.todo \in Seq(Nat)
      BY <2>4, <3>7
    <3>9. (IF Runs(stack[k + 1], s) THEN <<stack[k + 1].id>> \o below.todo ELSE below.todo) \in Seq(Nat)
      BY <3>7, <3>8
    <3> QED
      BY <3>6, <3>7, <3>9, RouteRecord
  <2> QED
    BY <2>5, <2>6
<1>3. S = Nat
  <2> HIDE DEF S
  <2>1. S \in SUBSET Nat
    BY DEF S
  <2> QED
    BY <1>1, <1>2, <2>1, Induction
<1>4. n \in S
  BY <1>0, <1>3
<1> QED
  BY <1>4

-----------------------------------------------------------------------------
(***************************************************************************)
(* What generating code leaves as it was.                                  *)
(***************************************************************************)
Sound(g, W, plans) == IsEmitter(g) /\ CodeOK(g.code, W, plans) /\ StackOK(g.stack, g.code, W, plans)

Similar(stack, stack2) == Len(stack2) = Len(stack) /\ \A i \in 1 .. Len(stack) : SameAs(stack[i], stack2[i])

\* Only the branches of actions are changed, and no clause of a try is added.
Frozen(code, code2) ==
    /\ \A b \in 1 .. Len(code) : code[b].op # "act" => code2[b] = code[b]
    /\ \A b \in Len(code) + 1 .. Len(code2) : code2[b].op # "dispatch"

FreshWays(code, W, W2) == \A b, u, t, r : <<b, u, t, r>> \in W2 /\ <<b, u, t, r>> \notin W => b > Len(code)

ActWays(code, W, W2) ==
    \A b, u, t, r : <<b, u, t, r>> \in W2 /\ <<b, u, t, r>> \notin W =>
        b > Len(code) \/ (b \in 1 .. Len(code) /\ code[b].op = "act")

Grows(g, W, h, W2, plans) ==
    /\ Sound(h, W2, plans) /\ W \subseteq W2
    /\ Similar(g.stack, h.stack) /\ Keeps(g.code, h.code) /\ KeepsActs(g.code, h.code) /\ Frozen(g.code, h.code)
    /\ ActWays(g.code, W, W2)

\* What was generated or found is for an unwinding that comes to i.
Goes(g, W, s, i) ==
    /\ g.made \in 1 .. Len(g.code)
    /\ \A t \in Keys(s) : <<g.made, s, t, RouteAt(g.stack, i, s, t)>> \in W

LEMMA SoundIs ==
    ASSUME NEW g, NEW W, NEW plans, Sound(g, W, plans)
    PROVE  /\ Len(g.code) \in Nat /\ DOMAIN g.code = 1 .. Len(g.code) /\ IsStack(g.stack)
           /\ Len(g.stack) \in Nat \ {0} /\ DOMAIN g.stack = 1 .. Len(g.stack) /\ g.stack \in Seq(Acts)
<1>1. IsCode(g.code) /\ IsStack(g.stack)
  BY DEF Sound, CodeOK, StackOK
<1>2. Len(g.code) \in Nat /\ DOMAIN g.code = 1 .. Len(g.code)
  BY <1>1, CodeIs
<1>3. g.stack \in Seq(Acts) /\ Len(g.stack) \in Nat \ {0}
  BY <1>1 DEF IsStack
<1> QED
  BY <1>1, <1>2, <1>3

LEMMA GrowsSelf ==
    ASSUME NEW g, NEW W, NEW plans, Sound(g, W, plans)
    PROVE  Grows(g, W, g, W, plans) /\ FreshWays(g.code, W, W)
<1>1. Len(g.code) \in Nat
  BY SoundIs
<1>2. Similar(g.stack, g.stack) /\ Frozen(g.code, g.code)
  BY <1>1, SameSelf DEF Similar, Frozen
<1>3. ActWays(g.code, W, W) /\ FreshWays(g.code, W, W)
  BY DEF ActWays, FreshWays
<1> QED
  BY <1>1, <1>2, <1>3, KeepsSelf DEF Grows

LEMMA GrowsTwice ==
    ASSUME NEW g, NEW W, NEW h, NEW W2, NEW k, NEW W3, NEW plans, Sound(g, W, plans),
           Grows(g, W, h, W2, plans), Grows(h, W2, k, W3, plans)
    PROVE  /\ Grows(g, W, k, W3, plans)
           /\ FreshWays(g.code, W, W2) /\ FreshWays(h.code, W2, W3) => FreshWays(g.code, W, W3)
<1>1. Len(g.code) \in Nat /\ Len(h.code) \in Nat /\ Len(k.code) \in Nat
  BY SoundIs DEF Grows
<1>2. Len(g.code) <= Len(h.code) /\ \A b \in 1 .. Len(g.code) : h.code[b].op = g.code[b].op
  BY DEF Grows, Keeps
<1>3. Len(h.code) <= Len(k.code) /\ \A b \in 1 .. Len(h.code) : k.code[b].op = h.code[b].op
  BY DEF Grows, Keeps
<1>4. \A b \in 1 .. Len(g.code) : b \in 1 .. Len(h.code)
  BY <1>1, <1>2
<1>5. Keeps(g.code, k.code)
  BY <1>1, <1>2, <1>3, <1>4 DEF Keeps
<1>6. KeepsActs(g.code, k.code)
  BY <1>2, <1>4 DEF KeepsActs, Grows
<1>7. Frozen(g.code, k.code)
  <2>1. \A b \in 1 .. Len(g.code) : g.code[b].op # "act" => k.code[b] = g.code[b]
    BY <1>2, <1>4 DEF Frozen, Grows
  <2>2. ASSUME NEW b \in Len(g.code) + 1 .. Len(k.code) PROVE k.code[b].op # "dispatch"
    <3>1. CASE b \in 1 .. Len(h.code)
      <4>1. b \in Len(g.code) + 1 .. Len(h.code)
        BY <1>1, <3>1
      <4>2. h.code[b].op # "dispatch"
        BY <4>1 DEF Frozen, Grows
      <4> QED
        BY <1>3, <3>1, <4>2
    <3>2. CASE b \notin 1 .. Len(h.code)
      <4>1. b \in Len(h.code) + 1 .. Len(k.code)
        BY <1>1, <3>2
      <4> QED
        BY <4>1 DEF Frozen, Grows
    <3> QED
      BY <3>1, <3>2
  <2> QED
    BY <2>1, <2>2 DEF Frozen
<1>8. Similar(g.stack, k.stack)
  BY DEF Similar, Grows, SameAs
<1>9. ASSUME NEW b, NEW u, NEW t, NEW r, <<b, u, t, r>> \in W3, <<b, u, t, r>> \notin W
      PROVE  /\ b > Len(g.code) \/ (b \in 1 .. Len(g.code) /\ g.code[b].op = "act")
             /\ FreshWays(g.code, W, W2) /\ FreshWays(h.code, W2, W3) => b > Len(g.code)
  <2>1. CASE <<b, u, t, r>> \in W2
    BY <1>9, <2>1 DEF Grows, ActWays, FreshWays
  <2>2. CASE <<b, u, t, r>> \notin W2
    <3>1. b \in 1 .. Len(k.code)
      BY <1>9, Zenon DEF Grows, Sound, CodeOK
    <3>2. b \in Nat
      BY <1>1, <3>1
    <3>3. b > Len(h.code) \/ (b \in 1 .. Len(h.code) /\ h.code[b].op = "act")
      BY <1>9, <2>2 DEF Grows, ActWays
    <3>4. b > Len(h.code) => b > Len(g.code)
      BY <1>1, <1>2, <3>2
    <3>5. FreshWays(h.code, W2, W3) => b > Len(h.code)
      BY <1>9, <2>2 DEF FreshWays
    <3>6. b \in 1 .. Len(h.code) => b > Len(g.code) \/ b \in 1 .. Len(g.code)
      BY <1>1
    <3> QED
      BY <1>2, <3>3, <3>4, <3>5, <3>6
  <2> QED
    BY <2>1, <2>2
<1>10. W \subseteq W3 /\ Sound(k, W3, plans)
  BY DEF Grows
<1> QED
  BY <1>5, <1>6, <1>7, <1>8, <1>9, <1>10 DEF Grows, ActWays, FreshWays

\* A block is emitted.
Emitted(g, c, h) ==
    /\ h.stack = g.stack /\ h.code = Append(g.code, c) /\ h.made = Len(g.code) + 1
    /\ Len(h.code) = Len(g.code) + 1 /\ h.code[Len(g.code) + 1] = c
    /\ \A b \in 1 .. Len(g.code) : h.code[b] = g.code[b]

LEMMA EmitSound ==
    ASSUME NEW g, NEW W, NEW plans, Sound(g, W, plans), NEW c, NEW W2, W \subseteq W2,
           \A b, u, t, r : <<b, u, t, r>> \in W2 /\ <<b, u, t, r>> \notin W =>
                b = Len(g.code) + 1 /\ WayOK(Append(g.code, c), W2, c, u, t, r),
           BlockOK(Append(g.code, c), W2, plans, Len(g.code) + 1, c),
           NEW h, h = Emit(g, c)
    PROVE  /\ Sound(h, W2, plans) /\ FreshWays(g.code, W, W2) /\ Emitted(g, c, h)
           /\ IsEmitter(h) /\ Keeps(g.code, h.code) /\ KeepsActs(g.code, h.code)
<1>1. /\ IsEmitter(g) /\ IsCode(g.code) /\ CodeOK(g.code, W, plans) /\ StackOK(g.stack, g.code, W, plans)
      /\ Len(g.code) \in Nat
  BY SoundIs DEF Sound, CodeOK
<1>2. IsEmitter(h) /\ h.stack = g.stack /\ h.code = Append(g.code, c) /\ h.made = Len(g.code) + 1
  BY <1>1, EmitAll DEF IsAll
<1>3. CodeOK(h.code, W2, plans)
  BY <1>1, <1>2, CodeEmit
<1>4. /\ Len(h.code) = Len(g.code) + 1 /\ h.code[Len(g.code) + 1] = c
      /\ \A b \in 1 .. Len(g.code) : h.code[b] = g.code[b]
      /\ Keeps(g.code, h.code)
  BY <1>1, <1>2, CodeAppend
<1>5. KeepsActs(g.code, h.code)
  BY <1>4 DEF KeepsActs
<1>6. \A b, u, t, r : <<b, u, t, r>> \in W2 /\ <<b, u, t, r>> \notin W => b > Len(g.code)
  <2>1. Len(g.code) + 1 > Len(g.code)
    BY <1>1
  <2> QED
    BY <2>1, Zenon
<1>7. StackOK(g.stack, h.code, W2, plans)
  <2>1. \A b, u, t, r : <<b, u, t, r>> \in W2 /\ <<b, u, t, r>> \notin W => WayIn(g.stack, g.code, b, u, t, r)
    BY <1>6 DEF WayIn
  <2>2. KeepsPlans(plans, plans) /\ Len(h.code) \in Nat
    BY <1>1, <1>4, KeepsSelf
  <2> QED
    BY <1>1, <1>4, <1>5, <2>1, <2>2, StackGrows
<1>8. FreshWays(g.code, W, W2)
  BY <1>6 DEF FreshWays
<1>9. Emitted(g, c, h)
  BY <1>2, <1>4 DEF Emitted
<1> QED
  BY <1>2, <1>3, <1>4, <1>5, <1>7, <1>8, <1>9 DEF Sound

LEMMA EmitGrows ==
    ASSUME NEW g, NEW W, NEW plans, Sound(g, W, plans), NEW c, NEW W2, W \subseteq W2,
           \A b, u, t, r : <<b, u, t, r>> \in W2 /\ <<b, u, t, r>> \notin W =>
                b = Len(g.code) + 1 /\ WayOK(Append(g.code, c), W2, c, u, t, r),
           BlockOK(Append(g.code, c), W2, plans, Len(g.code) + 1, c),
           c.op # "dispatch", NEW h, h = Emit(g, c)
    PROVE  /\ Grows(g, W, h, W2, plans) /\ FreshWays(g.code, W, W2)
           /\ Emitted(g, c, h)
<1>1. /\ Sound(h, W2, plans) /\ FreshWays(g.code, W, W2) /\ Emitted(g, c, h)
      /\ IsEmitter(h) /\ Keeps(g.code, h.code) /\ KeepsActs(g.code, h.code)
  BY EmitSound
<1>2. Len(g.code) \in Nat
  BY SoundIs
<1>3. Frozen(g.code, h.code)
  BY <1>1, <1>2 DEF Frozen, Emitted
<1>4. ActWays(g.code, W, W2)
  BY <1>1 DEF ActWays, FreshWays
<1>5. Similar(g.stack, h.stack)
  BY <1>1, SameSelf DEF Similar, Emitted
<1> QED
  BY <1>1, <1>3, <1>4, <1>5 DEF Grows

\* The ways that begin at block b with what is left at i.
WaysFrom(stack, i, s, b)    == {<<b, s, t, RouteAt(stack, i, s, t)>> : t \in Keys(s)}
MoreWays(W, stack, i, s, b) == W \cup WaysFrom(stack, i, s, b)

\* Equal stacks have equal routes.
LEMMA RouteSimilar ==
    ASSUME NEW stack, IsStack(stack), NEW stack2, IsStack(stack2), Similar(stack, stack2),
           NEW i \in 1 .. Len(stack), NEW s \in Modes, NEW t \in Keys(s), EndsAt(stack, i, s, t)
    PROVE  EndsAt(stack2, i, s, t) /\ RouteAt(stack2, i, s, t) = RouteAt(stack, i, s, t)
<1>1. Len(stack) \in Nat /\ Len(stack2) = Len(stack) /\ i \in Nat /\ i <= Len(stack) /\ i <= Len(stack2)
  BY DEF IsStack, Similar
<1>2. \A j \in 1 .. i : SameAs(stack[j], stack2[j])
  BY <1>1 DEF Similar
<1> QED
  BY <1>1, <1>2, RouteSame

\* The block of an action is remembered.
LEMMA SetSound ==
    ASSUME NEW h, NEW W, NEW plans, Sound(h, W, plans), NEW i \in 1 .. Len(h.stack), NEW s \in Modes,
           IsActiveForState(h.stack[i], s), h.made \in 1 .. Len(h.code),
           \A j \in 1 .. Len(h.stack), u \in Modes : h.stack[j].block[u] # h.made,
           Goes(h, W, s, i),
           ~IsTerminator(h.stack[i]) =>
                /\ h.code[h.made].op = "act" /\ h.code[h.made].id = h.stack[i].id /\ h.code[h.made].body = h.stack[i].body
                /\ \A u, t, r : <<h.made, u, t, r>> \in W =>
                        u = s /\ t \in Keys(s) /\ EndsAt(h.stack, i, s, t) /\ r = RouteAt(h.stack, i, s, t),
           NEW k, k = SetActionBlock(h, i, s)
    PROVE  Sound(k, W, plans) /\ Similar(h.stack, k.stack) /\ k.code = h.code /\ k.made = h.made
<1> DEFINE stack2 == Replaced(h.stack, i, WithBlock(h.stack[i], s, h.made))
<1>1. IsEmitter(h) /\ StackOK(h.stack, h.code, W, plans) /\ CodeOK(h.code, W, plans) /\ Len(h.code) \in Nat
  BY SoundIs DEF Sound
<1>2. IsEmitter(k) /\ k.stack = stack2 /\ k.code = h.code /\ k.made = h.made
  BY <1>1, SetAll DEF IsAll
<1>3. \A t \in Keys(s) : <<h.made, s, t, RouteAt(h.stack, i, s, t)>> \in W
  BY DEF Goes
<1>4. PICK st2 : st2 = stack2
  OBVIOUS
<1> HIDE DEF stack2
<1>5. st2 = Replaced(h.stack, i, WithBlock(h.stack[i], s, h.made))
  BY <1>4 DEF stack2
<1>6. StackOK(st2, h.code, W, plans) /\ Len(st2) = Len(h.stack) /\ \A j \in 1 .. Len(h.stack) : SameAs(h.stack[j], st2[j])
  BY <1>1, <1>3, <1>5, StackSet, SMTT(30)
<1> QED
  BY <1>1, <1>2, <1>4, <1>6 DEF Sound, Similar

\* The block of an action is emitted and remembered.
LEMMA SetGrows ==
    ASSUME NEW g, NEW W, NEW plans, Sound(g, W, plans), NEW i \in 1 .. Len(g.stack), NEW s \in Modes,
           IsActiveForState(g.stack[i], s), \A t \in Keys(s) : EndsAt(g.stack, i, s, t),
           NEW c, NEW W2, W2 = MoreWays(W, g.stack, i, s, Len(g.code) + 1),
           \A t \in Keys(s) : WayOK(Append(g.code, c), W2, c, s, t, RouteAt(g.stack, i, s, t)),
           BlockOK(Append(g.code, c), W2, plans, Len(g.code) + 1, c), c.op # "dispatch",
           ~IsTerminator(g.stack[i]) => c.op = "act" /\ c.id = g.stack[i].id /\ c.body = g.stack[i].body,
           NEW k, k = SetActionBlock(Emit(g, c), i, s)
    PROVE  Grows(g, W, k, W2, plans) /\ FreshWays(g.code, W, W2) /\ Goes(k, W2, s, i)
<1> DEFINE h == Emit(g, c)
           b == Len(g.code) + 1
           new == WaysFrom(g.stack, i, s, b)
<1>0. Len(g.code) \in Nat /\ IsStack(g.stack) /\ Len(g.stack) \in Nat /\ StackOK(g.stack, g.code, W, plans)
  BY SoundIs DEF Sound
<1>1. \A x, u, t, r : <<x, u, t, r>> \in new <=> x = b /\ u = s /\ t \in Keys(s) /\ r = RouteAt(g.stack, i, s, t)
  BY DEF WaysFrom
<1>2. \A x, u, t, r : <<x, u, t, r>> \in W => x \in 1 .. Len(g.code)
  BY Zenon DEF Sound, CodeOK
<1>3. b \notin 1 .. Len(g.code)
  BY <1>0
<1>4. W \subseteq W2 /\ \A x, u, t, r : <<x, u, t, r>> \in W2 <=> <<x, u, t, r>> \in W \/ <<x, u, t, r>> \in new
  BY DEF MoreWays
<1> HIDE DEF new
<1>5. \A x, u, t, r : <<x, u, t, r>> \in W2 /\ <<x, u, t, r>> \notin W =>
            x = Len(g.code) + 1 /\ WayOK(Append(g.code, c), W2, c, u, t, r)
  <2>1. SUFFICES ASSUME NEW x, NEW u, NEW t, NEW r, <<x, u, t, r>> \in W2, <<x, u, t, r>> \notin W
                 PROVE  x = Len(g.code) + 1 /\ WayOK(Append(g.code, c), W2, c, u, t, r)
    OBVIOUS
  <2>2. <<x, u, t, r>> \in new
    BY <1>4, <2>1
  <2>3. x = b /\ u = s /\ t \in Keys(s) /\ r = RouteAt(g.stack, i, s, t)
    BY <1>1, <2>2
  <2> QED
    BY <2>3
<1>6. /\ Grows(g, W, h, W2, plans) /\ FreshWays(g.code, W, W2)
      /\ h.stack = g.stack /\ h.code = Append(g.code, c) /\ h.made = b
      /\ Len(h.code) = b /\ h.code[b] = c
  <2>1. h = Emit(g, c)
    OBVIOUS
  <2> HIDE DEF h
  <2>2. Grows(g, W, h, W2, plans) /\ FreshWays(g.code, W, W2) /\ Emitted(g, c, h)
    BY <1>4, <1>5, <2>1, EmitGrows
  <2> QED
    BY <2>2 DEF Emitted
<1> HIDE DEF h
<1>7. IsEmitter(h) /\ StackOK(h.stack, h.code, W2, plans) /\ CodeOK(h.code, W2, plans)
  BY <1>6 DEF Grows, Sound
<1>8. Sound(k, W2, plans) /\ Similar(h.stack, k.stack) /\ k.code = h.code /\ k.made = h.made
  <2>1. b \in 1 .. Len(h.code) /\ Len(h.code) \in Nat
    BY <1>0, <1>6
  <2>2. \A j \in 1 .. Len(h.stack), u \in Modes : h.stack[j].block[u] # h.made
    <3>1. \A j \in 1 .. Len(g.stack), u \in Modes : g.stack[j].block[u] \in Nat
      <4>1. \A j \in 1 .. Len(g.stack) : g.stack[j] \in Acts
        BY <1>0 DEF IsStack
      <4> QED
        BY <4>1 DEF Acts, Modes
    <3>2. \A j \in 1 .. Len(g.stack), u \in Modes : g.stack[j].block[u] <= Len(g.code)
      BY <1>0 DEF StackOK
    <3> QED
      BY <1>0, <1>6, <3>1, <3>2
  <2>3. Goes(h, W2, s, i)
    BY <1>1, <1>4, <1>6, <2>1 DEF Goes
  <2>4. ~IsTerminator(h.stack[i]) =>
            /\ h.code[h.made].op = "act" /\ h.code[h.made].id = h.stack[i].id /\ h.code[h.made].body = h.stack[i].body
            /\ \A u, t, r : <<h.made, u, t, r>> \in W2 =>
                    u = s /\ t \in Keys(s) /\ EndsAt(h.stack, i, s, t) /\ r = RouteAt(h.stack, i, s, t)
    <3>1. \A u, t, r : <<b, u, t, r>> \in W2 => <<b, u, t, r>> \in new
      BY <1>2, <1>3, <1>4
    <3>2. \A u, t, r : <<b, u, t, r>> \in W2 =>
                    u = s /\ t \in Keys(s) /\ EndsAt(h.stack, i, s, t) /\ r = RouteAt(h.stack, i, s, t)
      BY <1>1, <1>6, <3>1
    <3> QED
      BY <1>6, <3>2
  <2>5. i \in 1 .. Len(h.stack) /\ IsActiveForState(h.stack[i], s) /\ h.made \in 1 .. Len(h.code) /\ Sound(h, W2, plans)
    BY <1>6, <2>1 DEF Grows
  <2>6. k = SetActionBlock(h, i, s)
    BY DEF h
  <2> HIDE DEF b
  <2> QED
    BY <2>2, <2>3, <2>4, <2>5, <2>6, SetSound
<1>11. Similar(g.stack, k.stack)
  BY <1>6, <1>8 DEF Similar
<1>12. Grows(g, W, k, W2, plans)
  BY <1>6, <1>8, <1>11 DEF Grows
<1>13. Goes(k, W2, s, i)
  <2>1. SUFFICES ASSUME NEW t \in Keys(s) PROVE <<b, s, t, RouteAt(k.stack, i, s, t)>> \in W2
    BY <1>0, <1>6, <1>8 DEF Goes
  <2>2. RouteAt(k.stack, i, s, t) = RouteAt(g.stack, i, s, t)
    <3>1. IsStack(k.stack)
      BY <1>8, SoundIs
    <3> QED
      BY <1>0, <1>11, <3>1, RouteSimilar
  <2> QED
    BY <1>1, <1>4, <2>2
<1> QED
  BY <1>6, <1>12, <1>13

\* What is generated for the terminator.
TopGen(g, i, s) ==
    IF g.stack[i].block[s] # 0 THEN [g EXCEPT !.made = g.stack[i].block[s]]
    ELSE SetActionBlock(Emit(g, TopBlock(g.stack[i], s)), i, s)

LEMMA TopIs ==
    ASSUME NEW g, NEW i, NEW s, g.stack[i].kind # "RETHROWSCOPE"
    PROVE  TopThrow(g, i, s) = TopGen(g, i, s) /\ TopUnwind(g, i, s) = TopGen(g, i, s)
BY Zenon DEF GenTopUnwindAction, TopGen, TopThrow, TopUnwind

LEMMA TopGrows ==
    ASSUME NEW g, NEW W, NEW plans, Sound(g, W, plans), NEW i \in 1 .. Len(g.stack), NEW s \in Modes,
           IsActiveForState(g.stack[i], s), IsTerminator(g.stack[i]),
           g.stack[i].kind = "CATCH" => i = Len(g.stack) \/ g.stack[i + 1].kind # "CATCH",
           NEW h, h = TopGen(g, i, s)
    PROVE  \E W2 : Grows(g, W, h, W2, plans) /\ FreshWays(g.code, W, W2) /\ Goes(h, W2, s, i)
<1> DEFINE a == g.stack[i]
<1>0. /\ IsEmitter(g) /\ CodeOK(g.code, W, plans) /\ StackOK(g.stack, g.code, W, plans) /\ IsStack(g.stack)
      /\ Len(g.code) \in Nat /\ IsCode(g.code)
  BY SoundIs DEF Sound, CodeOK
<1>1. \A t \in Keys(s) : EndsAt(g.stack, i, s, t)
  BY <1>0, EndsActive
<1>2. CASE a.block[s] # 0
  <2>1. h = Emitter(g.stack, g.code, a.block[s])
    BY <1>0, <1>2, MadeIs DEF TopGen
  <2> HIDE DEF a
  <2>2. IsEmitter(h) /\ h.stack = g.stack /\ h.code = g.code /\ h.made = a.block[s]
    BY <2>1, EmitterIs
  <2>3. Grows(g, W, h, W, plans) /\ FreshWays(g.code, W, W)
    BY <1>0, <2>2, GrowsSelf DEF Grows, Sound
  <2>4. PlaceOK(g.stack, g.code, W, i, s)
    BY <1>0, <1>2 DEF StackOK, Made, a
  <2>5. h.made \in 1 .. Len(h.code)
    <3>1. g.stack[i] \in Acts /\ s \in States
      BY <1>0 DEF IsStack, Modes
    <3>2. a.block[s] \in Nat
      BY <3>1 DEF Acts, a
    <3>3. a.block[s] <= Len(g.code)
      BY <1>0 DEF StackOK, a
    <3> QED
      BY <1>0, <1>2, <2>2, <3>2, <3>3
  <2>6. Goes(h, W, s, i)
    BY <2>2, <2>4, <2>5 DEF PlaceOK, Goes, a
  <2> QED
    BY <2>3, <2>6
<1>3. CASE a.block[s] = 0
  <2> DEFINE c == TopBlock(a, s)
             b == Len(g.code) + 1
             W2 == MoreWays(W, g.stack, i, s, b)
             code2 == Append(g.code, c)
  <2>1. h = SetActionBlock(Emit(g, c), i, s)
    BY <1>3 DEF TopGen
  <2>2. c.op = "jump" /\ c.store = (IF a.kind = "CONTROLFLOW" THEN "Normal" ELSE Keep) /\ c.next = a.to[s]
    BY DEF TopBlock, Jump
  <2>3. Keeps(g.code, code2) /\ Len(code2) = b
    BY <1>0, CodeAppend
  <2>4. \A x, u, t, r : Reaches(g.code, W, x, u, t, r) => Reaches(code2, W2, x, u, t, r)
    <3>1. W \subseteq W2 /\ Len(code2) \in Nat
      BY <1>0, <2>3 DEF MoreWays
    <3> HIDE DEF W2, code2
    <3> QED
      BY <1>0, <2>3, <3>1, ReachesMore
  <2>5. ASSUME NEW t \in Keys(s)
        PROVE  /\ c.store = Keep => Reaches(g.code, W, a.to[s], s, t, RouteAt(g.stack, i, s, t))
               /\ c.store # Keep => c.store = "Normal" /\ Arrived(g.code, a.to[s], RouteAt(g.stack, i, s, t))
    <3>1. MarkOK(g.code, a) /\ CatchOK(g.stack, W, i) /\ Ground(g.code)
      BY <1>0 DEF StackOK
    <3>2. CASE a.kind = "CATCH"
      <4>1. s = "Throw"
        BY <3>2 DEF IsActiveForState, ActiveStates
      <4>2. <<a.to["Throw"], "Throw", t, RouteAt(g.stack, i, "Throw", t)>> \in W
        BY <3>1, <3>2, <4>1 DEF CatchOK, Keys
      <4> QED
        BY <2>2, <3>2, <4>1, <4>2 DEF Reaches, Keep
    <3>3. CASE a.kind # "CATCH"
      <4>1. Ends(a, s, t)
        BY <3>3 DEF Ends, IsTerminator, Terminators, IsActiveForState, ActiveStates, Modes, States
      <4>2. RouteAt(g.stack, i, s, t) = [todo |-> <<>>, goal |-> a.to[s], selector |-> 0]
        BY <1>0, <3>3, <4>1, RouteEnd
      <4>3. Arrived(g.code, a.to[s], RouteAt(g.stack, i, s, t))
        <5>1. a.kind = "FUNCTIONMARKER" => a.to[s] \in 1 .. Len(g.code) /\ g.code[a.to[s]].op = "point"
          BY <1>0, <3>1, <4>1 DEF Ends, MarkOK, Ground, Returned, Resumed
        <5>2. a.kind = "SCOPEMARKER" => a.to[s] \in 1 .. Len(g.code) /\ g.code[a.to[s]].op = "point"
          BY <1>0, <3>1, <4>1 DEF Ends, MarkOK, IsPoint
        <5>3. a.kind = "CONTROLFLOW" => a.to[s] \in 1 .. Len(g.code) /\ g.code[a.to[s]].op = "point"
          BY <1>0, <3>1, <4>1, SMTT(30) DEF Ends, MarkOK, IsPoint
        <5>4. a.to[s] \in 1 .. Len(g.code) /\ g.code[a.to[s]].op = "point"
          BY <3>3, <4>1, <5>1, <5>2, <5>3 DEF Ends
        <5> QED
          BY <4>2, <5>4 DEF Arrived
      <4>4. c.store = Keep => a.to[s] \in {Returned, Resumed} \/ Stored(s) = "Normal"
        BY <2>2, <3>1, <3>3, <4>1 DEF Ends, MarkOK, Stored, Keep
      <4> QED
        BY <2>2, <4>3, <4>4 DEF Reaches, Keep
    <3> QED
      BY <3>2, <3>3
  <2>6. ASSUME NEW t \in Keys(s) PROVE WayOK(code2, W2, c, s, t, RouteAt(g.stack, i, s, t))
    <3>1. \A r : Arrived(g.code, a.to[s], r) => Arrived(code2, a.to[s], r)
      BY <1>0, <2>3 DEF Arrived, Keeps
    <3>2. JumpWay(code2, W2, c, s, t, RouteAt(g.stack, i, s, t))
      BY <2>2, <2>4, <2>5, <3>1 DEF JumpWay
    <3>3. RouteAt(g.stack, i, s, t) \in Routes
      BY <1>0, <1>1, RouteTyped
    <3> HIDE DEF c, code2, W2
    <3> QED
      BY <2>2, <3>2, <3>3 DEF WayOK
  <2>7. BlockOK(code2, W2, plans, b, c)
    <3> HIDE DEF c, code2, W2, b
    <3> QED
      BY <2>2 DEF BlockOK, Ops
  <2>8. W2 = MoreWays(W, g.stack, i, s, Len(g.code) + 1)
    OBVIOUS
  <2> HIDE DEF W2, c
  <2>9. Grows(g, W, h, W2, plans) /\ FreshWays(g.code, W, W2) /\ Goes(h, W2, s, i)
    BY <1>1, <2>1, <2>2, <2>6, <2>7, <2>8, SetGrows
  <2> QED
    BY <2>9
<1> QED
  BY <1>2, <1>3

TheRoute(a, n, k) == [todo |-> a, goal |-> n, selector |-> k]

LEMMA RestIs == \A a, n, k : Rest(TheRoute(a, n, k)) = TheRoute(Tail(a), n, k)
<1> SUFFICES ASSUME NEW a, NEW n, NEW k PROVE Rest(TheRoute(a, n, k)) = TheRoute(Tail(a), n, k)
  OBVIOUS
<1> DEFINE r == TheRoute(a, n, k)
           b == Tail(r.todo)
<1>1. Rest(r) = [r EXCEPT !.todo = b] /\ r = [todo |-> a, goal |-> n, selector |-> k]
  BY DEF Rest, TheRoute
<1>2. b = Tail(a)
  BY <1>1
<1> HIDE DEF b, r
<1>3. [r EXCEPT !.todo = b] = [todo |-> b, goal |-> n, selector |-> k]
  BY <1>1
<1> QED
  BY <1>1, <1>2, <1>3 DEF TheRoute, r

\* The route from an action that is performed.
LEMMA RouteActs ==
    ASSUME NEW stack, IsStack(stack), NEW s \in Modes, NEW t \in Keys(s), NEW i \in 2 .. Len(stack),
           Runs(stack[i], s), EndsAt(stack, i - 1, s, t), NEW R, R = RouteAt(stack, i, s, t)
    PROVE  /\ EndsAt(stack, i, s, t) /\ R \in Routes /\ R.todo # <<>> /\ Head(R.todo) = stack[i].id
           /\ Rest(R) = RouteAt(stack, i - 1, s, t)
<1> DEFINE below == RouteAt(stack, i - 1, s, t)
<1>0. Len(stack) \in Nat /\ i \in 1 .. Len(stack) /\ i - 1 \in 1 .. Len(stack)
  BY DEF IsStack
<1>1. ~Ends(stack[i], s, t)
  BY DEF Runs, Ends, IsTerminator, Terminators
<1>2. R = [todo |-> <<stack[i].id>> \o below.todo, goal |-> below.goal, selector |-> below.selector]
  BY <1>1, RouteBelow
<1>3. EndsAt(stack, i, s, t)
  <2>1. \A j \in 1 .. i - 1 : j \in 1 .. i
    BY <1>0
  <2> QED
    BY <2>1 DEF EndsAt
<1>4. R \in Routes /\ below \in Routes
  BY <1>0, <1>3, RouteTyped
<1>5. below = [todo |-> below.todo, goal |-> below.goal, selector |-> below.selector]
  BY DEF RouteAt, Route
<1> HIDE DEF below
<1>6. below.todo \in Seq(Nat) /\ stack[i].id \in Nat
  <2>1. stack[i] \in Acts
    BY <1>0 DEF IsStack
  <2> QED
    BY <1>4, <2>1 DEF Routes, Acts
<1>7. /\ <<stack[i].id>> \o below.todo # <<>> /\ Head(<<stack[i].id>> \o below.todo) = stack[i].id
      /\ Tail(<<stack[i].id>> \o below.todo) = below.todo
  BY <1>6
<1>8. Rest(R) = [todo |-> below.todo, goal |-> below.goal, selector |-> below.selector]
  <2>1. PICK new, u, v : new = <<stack[i].id>> \o below.todo /\ u = below.goal /\ v = below.selector
    OBVIOUS
  <2>2. R = TheRoute(new, u, v) /\ Tail(new) = below.todo
    BY <1>2, <1>7, <2>1 DEF TheRoute
  <2>3. Rest(TheRoute(new, u, v)) = TheRoute(Tail(new), u, v)
    BY RestIs
  <2> QED
    BY <2>1, <2>2, <2>3 DEF TheRoute
<1>9. Rest(R) = below
  BY <1>5, <1>8
<1>10. R.todo # <<>> /\ Head(R.todo) = stack[i].id
  BY <1>2, <1>7
<1> QED
  BY <1>3, <1>4, <1>9, <1>10 DEF below

\* In what states the code of an action can be generated.
Calm(a, s) == Runs(a, s) /\ a.body \in {"loop", "mayThrow"} => s \in {"Normal", "Throw"}

\* The block that was generated for the action goes on in one more state.
LEMMA LinkGrows ==
    ASSUME NEW g, NEW W, NEW plans, Sound(g, W, plans), NEW i \in 2 .. Len(g.stack), NEW s \in Modes,
           Runs(g.stack[i], s), Calm(g.stack[i], s), g.stack[i].block[s] # 0,
           \A t \in Keys(s) : EndsAt(g.stack, i - 1, s, t), Goes(g, W, s, i - 1),
           NEW h, h = Link(g, g.stack[i].block[s], s)
    PROVE  \E W2 : Grows(g, W, h, W2, plans) /\ Goes(h, W2, s, i) /\ (s = "Throw" => FreshWays(g.code, W, W2))
<1> DEFINE b == g.stack[i].block[s]
           R == [t \in Keys(s) |-> RouteAt(g.stack, i, s, t)]
           new == {<<b, s, t, R[t]>> : t \in Keys(s)}
           W2 == W \cup new
           n == g.made
<1>0. /\ IsEmitter(g) /\ CodeOK(g.code, W, plans) /\ StackOK(g.stack, g.code, W, plans)
      /\ Len(g.code) \in Nat /\ IsStack(g.stack) /\ i \in 1 .. Len(g.stack) /\ Len(g.stack) \in Nat
  <2>1. Len(g.code) \in Nat /\ IsStack(g.stack) /\ Len(g.stack) \in Nat
    BY SoundIs
  <2> QED
    BY <2>1 DEF Sound
<1>1. Made(g.stack[i], s) /\ ~IsTerminator(g.stack[i])
  BY DEF Runs, Made
<1>2. b \in 1 .. Len(g.code)
  <2>1. g.stack[i] \in Acts /\ s \in States
    BY <1>0 DEF IsStack, Modes
  <2>2. b \in Nat
    BY <2>1 DEF Acts
  <2>3. b <= Len(g.code)
    BY <1>0 DEF StackOK
  <2> QED
    BY <1>0, <2>2, <2>3
<1>3. PlaceOK(g.stack, g.code, W, i, s) /\ BodyOK(g.stack, plans, i)
  BY <1>0, <1>1 DEF StackOK
<1>4. g.code[b].op = "act" /\ g.code[b].id = g.stack[i].id /\ g.code[b].body = g.stack[i].body
  BY <1>1, <1>3 DEF PlaceOK
<1>5. n \in Nat /\ \A t \in Keys(s) : <<n, s, t, RouteAt(g.stack, i - 1, s, t)>> \in W
  BY <1>0 DEF Goes
<1>6. ASSUME NEW t \in Keys(s)
      PROVE  /\ R[t] \in Routes /\ R[t].todo # <<>> /\ Head(R[t].todo) = g.code[b].id
             /\ Reaches(g.code, W, n, s, t, Rest(R[t]))
             /\ EndsAt(g.stack, i, s, t)
  <2>1. PICK r : r = RouteAt(g.stack, i, s, t)
    OBVIOUS
  <2>2. /\ EndsAt(g.stack, i, s, t) /\ r \in Routes /\ r.todo # <<>> /\ Head(r.todo) = g.stack[i].id
        /\ Rest(r) = RouteAt(g.stack, i - 1, s, t)
    BY <1>0, <2>1, RouteActs
  <2>3. Reaches(g.code, W, n, s, t, Rest(r))
    BY <1>5, <2>2 DEF Reaches
  <2>4. r = R[t]
    BY <2>1
  <2> HIDE DEF R
  <2> QED
    BY <1>4, <2>2, <2>3, <2>4
<1>7. \A u, t, r : <<b, u, t, r>> \in W => (u = "Throw" <=> s = "Throw") /\ (u = s => r = R[t])
  <2>1. SUFFICES ASSUME NEW u, NEW t, NEW r, <<b, u, t, r>> \in W
                 PROVE  (u = "Throw" <=> s = "Throw") /\ (u = s => r = R[t])
    OBVIOUS
  <2>2. /\ u = "Throw" <=> s = "Throw"
        /\ u = s => t \in Keys(s) /\ r = RouteAt(g.stack, i, s, t)
    BY <1>1, <1>3, <2>1 DEF PlaceOK
  <2> QED
    BY <2>2
<1>8. s = "Throw" => \A t \in Types : <<b, s, t, R[t]>> \in W
  <2>1. SUFFICES ASSUME s = "Throw", NEW t \in Types PROVE <<b, s, t, R[t]>> \in W
    OBVIOUS
  <2>2. t \in Keys(s)
    BY <2>1 DEF Keys
  <2> QED
    BY <1>3, <2>1, <2>2 DEF PlaceOK
<1>9. /\ g.code[b].body = "try" => s # "Throw"
      /\ g.code[b].body \in {"loop", "mayThrow"} => Stored(s) = "Normal"
  <2>1. g.stack[i].body = "try" => s # "Throw"
    BY <1>3 DEF BodyOK, Runs, IsActiveForState, ActiveStates, ExceptionStates, NormalStates
  <2>2. g.stack[i].body \in {"loop", "mayThrow"} => Stored(s) = "Normal"
    BY DEF Calm, Stored
  <2> QED
    BY <1>4, <2>1, <2>2
<1>10. PICK code2 : /\ h.stack = g.stack /\ h.code = code2 /\ h.made = b /\ IsEmitter(h)
                    /\ \/ code2 = g.code /\ g.code[b].cases = <<>> /\ g.code[b].next = n
                       \/ code2 = Replaced(g.code, b, WithCase(g.code[b], s, n))
  <2> DEFINE new2 == IF g.code[b].cases = <<>> /\ g.code[b].next = g.made THEN g.code
                    ELSE Replaced(g.code, b, WithCase(g.code[b], s, g.made))
  <2>1. IsAll(h, g.stack, new2, b)
    BY <1>0, LinkAll
  <2>2. \/ new2 = g.code /\ g.code[b].cases = <<>> /\ g.code[b].next = n
        \/ new2 = Replaced(g.code, b, WithCase(g.code[b], s, n))
    OBVIOUS
  <2> HIDE DEF new2, b, n
  <2> QED
    BY <2>1, <2>2 DEF IsAll
<1> HIDE DEF R, b, n
<1>11. PICK V : V = W2
  OBVIOUS
<1>12. V = MoreRoutes(W, b, s, R)
  BY <1>11 DEF MoreRoutes
<1>13. \A x, u, t, r : <<x, u, t, r>> \in V /\ <<x, u, t, r>> \notin W => x = b /\ u = s /\ t \in Keys(s) /\ r = R[t]
  BY <1>12 DEF MoreRoutes
<1>14. W \subseteq V /\ \A t \in Keys(s) : <<b, s, t, R[t]>> \in V
  BY <1>12 DEF MoreRoutes
<1> HIDE DEF W2, new
<1>15. /\ CodeOK(code2, V, plans) /\ Keeps(g.code, code2) /\ Len(code2) = Len(g.code)
       /\ \A x \in 1 .. Len(g.code) : x # b => code2[x] = g.code[x]
       /\ code2[b].op = "act" /\ code2[b].id = g.code[b].id /\ code2[b].body = g.code[b].body
  <2>1. PICK code, q, Q, m : code = g.code /\ q = b /\ Q = R /\ m = n
    OBVIOUS
  <2>2. \A t \in Keys(s) : /\ Q[t] \in Routes /\ Q[t].todo # <<>> /\ Head(Q[t].todo) = code[q].id
                           /\ Reaches(code, W, m, s, t, Rest(Q[t]))
    BY <1>6, <2>1
  <2>3. /\ CodeOK(code, W, plans) /\ q \in 1 .. Len(code) /\ code[q].op = "act" /\ m \in Nat
        /\ s = "Throw" => \A t \in Types : <<q, s, t, Q[t]>> \in W
        /\ code[q].body = "try" => s # "Throw"
        /\ code[q].body \in {"loop", "mayThrow"} => Stored(s) = "Normal"
    BY <1>0, <1>2, <1>4, <1>5, <1>8, <1>9, <2>1
  <2>4. \/ code2 = code /\ code[q].cases = <<>> /\ code[q].next = m
        \/ code2 = Replaced(code, q, WithCase(code[q], s, m))
    BY <1>10, <2>1
  <2>5. V = MoreRoutes(W, q, s, Q) /\ \A u, t, r : <<q, u, t, r>> \in W => (u = "Throw" <=> s = "Throw") /\ (u = s => r = Q[t])
    BY <1>7, <1>12, <2>1
  <2>6. /\ CodeOK(code2, V, plans) /\ Keeps(code, code2) /\ Len(code2) = Len(code)
        /\ \A x \in 1 .. Len(code) : x # q => code2[x] = code[x]
        /\ code2[q].op = "act" /\ code2[q].id = code[q].id /\ code2[q].body = code[q].body
    BY <2>2, <2>3, <2>4, <2>5, LinkCode
  <2> QED
    BY <2>1, <2>6
<1>16. \A t \in Keys(s) : R[t] = RouteAt(g.stack, i, s, t)
  BY DEF R
<1>17. StackOK(g.stack, code2, V, plans)
  <2>1. KeepsActs(g.code, code2)
    BY <1>15 DEF KeepsActs
  <2>2. \A x, u, t, r : <<x, u, t, r>> \in V /\ <<x, u, t, r>> \notin W => WayIn(g.stack, g.code, x, u, t, r)
    <3>1. SUFFICES ASSUME NEW x, NEW u, NEW t, NEW r, <<x, u, t, r>> \in V, <<x, u, t, r>> \notin W
                   PROVE  WayIn(g.stack, g.code, x, u, t, r)
      OBVIOUS
    <3>2. x = b /\ u = s /\ t \in Keys(s) /\ r = R[t]
      BY <1>13, <3>1
    <3>3. EndsAt(g.stack, i, s, t) /\ r = RouteAt(g.stack, i, s, t) /\ x = g.stack[i].block[s]
      BY <1>6, <1>16, <3>2 DEF b
    <3> QED
      BY <1>0, <1>1, <3>2, <3>3 DEF WayIn
  <2>3. Len(code2) \in Nat /\ KeepsPlans(plans, plans) /\ Keeps(g.code, code2)
    BY <1>0, <1>15, KeepsSelf
  <2> QED
    BY <1>0, <1>14, <2>1, <2>2, <2>3, StackGrows
<1>18. Sound(h, V, plans)
  BY <1>10, <1>15, <1>17 DEF Sound
<1>19. Grows(g, W, h, V, plans)
  <2>1. Similar(g.stack, h.stack)
    BY <1>10, SameSelf DEF Similar
  <2>2. Keeps(g.code, h.code) /\ KeepsActs(g.code, h.code)
    BY <1>10, <1>15 DEF KeepsActs
  <2>3. Frozen(g.code, h.code)
    BY <1>0, <1>4, <1>10, <1>15, SMTT(30) DEF Frozen, b
  <2>4. ActWays(g.code, W, V)
    BY <1>2, <1>4, <1>13 DEF ActWays, b
  <2> QED
    BY <1>14, <1>18, <2>1, <2>2, <2>3, <2>4 DEF Grows
<1>20. Goes(h, V, s, i)
  BY <1>2, <1>10, <1>14, <1>15, <1>16 DEF Goes
<1>21. s = "Throw" => FreshWays(g.code, W, V)
  BY <1>8, <1>13 DEF FreshWays, Keys
<1> QED
  BY <1>19, <1>20, <1>21

LEMMA SameActs ==
    ASSUME NEW a, NEW b, SameAs(a, b), NEW s, NEW t
    PROVE  /\ IsTerminator(a) <=> IsTerminator(b)
           /\ IsActiveForState(a, s) <=> IsActiveForState(b, s)
           /\ Runs(a, s) <=> Runs(b, s)
           /\ Ends(a, s, t) <=> Ends(b, s, t)
           /\ Calm(a, s) <=> Calm(b, s)
           /\ a.kind = b.kind /\ a.body = b.body /\ a.id = b.id
<1>1. IsTerminator(a) <=> IsTerminator(b)
  BY DEF SameAs, IsTerminator
<1>2. ActiveStates(a) = ActiveStates(b)
  BY DEF SameAs, ActiveStates
<1>3. IsActiveForState(a, s) <=> IsActiveForState(b, s)
  BY <1>2 DEF IsActiveForState
<1>4. Runs(a, s) <=> Runs(b, s)
  BY <1>1, <1>3 DEF Runs
<1>5. Ends(a, s, t) <=> Ends(b, s, t)
  BY DEF SameAs, Ends
<1> QED
  BY <1>1, <1>3, <1>4, <1>5 DEF SameAs, Calm

\* An action that ends an unwinding or is performed is active.
LEMMA Inactive ==
    ASSUME NEW a, NEW s, ~IsActiveForState(a, s), NEW t
    PROVE  ~Ends(a, s, t) /\ ~Runs(a, s)
BY DEF IsActiveForState, ActiveStates, Ends, Runs

\* The block of an action is as it should be.
LEMMA ActBlock ==
    ASSUME NEW code, NEW code2, NEW W, NEW W2, Len(code) \in Nat, Len(code2) \in Nat, Keeps(code, code2), W \subseteq W2,
           NEW a \in Acts, NEW pad, NEW n, NEW plans,
           a.body = "mayThrow" => a.id \in DOMAIN plans /\ Thrown(code, W, pad, plans[a.id]),
           NEW b, NEW c, c = Act(a, pad, n)
    PROVE  BlockOK(code2, W2, plans, b, c)
<1>1. /\ c.op = "act" /\ c.id = a.id /\ c.body = a.body /\ c.cases = <<>> /\ c.pad = pad /\ ActForm(c)
  BY ActIs DEF Act
<1>2. CasesOK(W2, b, c)
  BY <1>1 DEF CasesOK, Branches
<1>3. c.body = "mayThrow" => c.id \in DOMAIN plans /\ Thrown(code2, W2, c.pad, plans[c.id])
  <2>1. \A x, y : Thrown(code, W, x, y) => Thrown(code2, W2, x, y)
    BY ReachesMore
  <2> QED
    BY <1>1, <2>1
<1> QED
  BY <1>1, <1>2, <1>3 DEF BlockOK, ActOK, Ops

\* An action is passed on the way up.
LEMMA PassGrows ==
    ASSUME NEW g, NEW W, NEW plans, Sound(g, W, plans), NEW i \in 2 .. Len(g.stack), NEW s \in Modes,
           IsActiveForState(g.stack[i], s) => ~IsTerminator(g.stack[i]), Calm(g.stack[i], s),
           \A t \in Keys(s) : EndsAt(g.stack, i - 1, s, t), Goes(g, W, s, i - 1),
           NEW p, NEW Wp, Grows(g, W, p, Wp, plans), FreshWays(g.code, W, Wp), p.stack = g.stack,
           Runs(g.stack[i], s) /\ g.stack[i].body = "mayThrow" => Thrown(p.code, Wp, p.made, plans[g.stack[i].id]),
           NEW h, h = GenAction(g, i, s, p)
    PROVE  \E W2 : Grows(g, W, h, W2, plans) /\ Goes(h, W2, s, i) /\ (s = "Throw" => FreshWays(g.code, W, W2))
<1>0. /\ IsStack(g.stack) /\ Len(g.stack) \in Nat /\ i \in 1 .. Len(g.stack) /\ i - 1 \in 1 .. Len(g.stack)
      /\ g.stack[i] \in Acts
  <2>1. IsStack(g.stack) /\ Len(g.stack) \in Nat
    BY SoundIs
  <2> QED
    BY <2>1 DEF IsStack
<1>1. CASE ~IsActiveForState(g.stack[i], s)
  <2>1. h = g
    BY <1>1 DEF GenAction
  <2>2. ASSUME NEW t \in Keys(s) PROVE RouteAt(g.stack, i, s, t) = RouteAt(g.stack, i - 1, s, t)
    <3>1. \A j \in i - 1 + 1 .. i : j = i
      BY <1>0
    <3>2. ~Ends(g.stack[i], s, t) /\ ~Runs(g.stack[i], s)
      BY <1>1, Inactive
    <3>3. \A j \in i - 1 + 1 .. i : ~Ends(g.stack[j], s, t) /\ ~Runs(g.stack[j], s)
      BY <3>1, <3>2
    <3>4. i \in i - 1 .. Len(g.stack)
      BY <1>0
    <3> QED
      BY <1>0, <3>3, <3>4, RouteInactive
  <2>3. Goes(g, W, s, i)
    BY <2>2 DEF Goes
  <2>4. Grows(g, W, g, W, plans) /\ FreshWays(g.code, W, W)
    BY GrowsSelf
  <2> QED
    BY <2>1, <2>3, <2>4
<1>2. CASE IsActiveForState(g.stack[i], s) /\ g.stack[i].block[s] # 0
  <2>1. h = Link(g, g.stack[i].block[s], s)
    BY <1>2 DEF GenAction
  <2>2. Runs(g.stack[i], s)
    BY <1>2 DEF Runs
  <2> QED
    BY <1>2, <2>1, <2>2, LinkGrows
<1>3. CASE IsActiveForState(g.stack[i], s) /\ g.stack[i].block[s] = 0
  <2> DEFINE c == Act(g.stack[i], p.made, g.made)
  <2>1. h = SetActionBlock(Emit(p, c), i, s)
    BY <1>3 DEF GenAction
  <2>2. Runs(g.stack[i], s) /\ ~IsTerminator(g.stack[i])
    BY <1>3 DEF Runs
  <2>3. c.op = "act" /\ c.id = g.stack[i].id /\ c.body = g.stack[i].body /\ c.cases = <<>> /\ c.next = g.made
    BY DEF Act
  <2>4. Sound(p, Wp, plans) /\ W \subseteq Wp
    BY DEF Grows
  <2>5. Len(p.code) \in Nat /\ IsCode(p.code) /\ BodyOK(p.stack, plans, i)
    BY <1>0, <2>4, SoundIs DEF Sound, CodeOK, StackOK
  <2>6. PICK W2 : W2 = MoreWays(Wp, g.stack, i, s, Len(p.code) + 1)
    OBVIOUS
  <2>7. Wp \subseteq W2
    BY <2>6 DEF MoreWays
  <2>8. PICK code2 : code2 = Append(p.code, c)
    OBVIOUS
  <2>9. Len(code2) \in Nat /\ Keeps(p.code, code2)
    BY <2>5, <2>8, CodeAppend
  <2>10. g.stack[i].body = "mayThrow" => g.stack[i].id \in DOMAIN plans /\ Thrown(p.code, Wp, p.made, plans[g.stack[i].id])
    BY <2>2, <2>5 DEF BodyOK
  <2>11. BlockOK(code2, W2, plans, Len(p.code) + 1, c)
    BY <1>0, <2>5, <2>7, <2>9, <2>10, ActBlock
  <2>12. ASSUME NEW t \in Keys(s) PROVE WayOK(code2, W2, c, s, t, RouteAt(g.stack, i, s, t))
    <3>1. PICK R : R = RouteAt(g.stack, i, s, t)
      OBVIOUS
    <3>2. R \in Routes /\ R.todo # <<>> /\ Head(R.todo) = g.stack[i].id /\ Rest(R) = RouteAt(g.stack, i - 1, s, t)
      BY <1>0, <2>2, <3>1, RouteActs
    <3>3. Reaches(code2, W2, g.made, s, t, Rest(R))
      BY <2>4, <2>7, <3>2 DEF Reaches, Goes
    <3>4. Successor(c, Stored(s)) = g.made
      BY <2>3 DEF Successor
    <3>5. c.body = "try" => s # "Throw"
      BY <2>2, <2>3, <2>5 DEF BodyOK, Runs, IsActiveForState, ActiveStates, ExceptionStates, NormalStates
    <3>6. c.body \in {"loop", "mayThrow"} => Stored(s) = "Normal"
      BY <2>2, <2>3 DEF Calm, Stored
    <3>7. ActWay(code2, W2, c, s, t, R)
      BY <2>3, <3>2, <3>3, <3>4, <3>5, <3>6 DEF ActWay
    <3> HIDE DEF c
    <3> QED
      BY <2>3, <3>1, <3>2, <3>7 DEF WayOK
  <2> HIDE DEF c
  <2>13. Grows(p, Wp, h, W2, plans) /\ FreshWays(p.code, Wp, W2) /\ Goes(h, W2, s, i)
    <3>1. PICK q : q = p.stack[i]
      OBVIOUS
    <3>2. \A t \in Keys(s) : EndsAt(p.stack, i, s, t)
      <4>1. \A j \in 1 .. i - 1 : j \in 1 .. i
        BY <1>0
      <4> QED
        BY <4>1 DEF EndsAt
    <3>3. i \in 1 .. Len(p.stack) /\ IsActiveForState(p.stack[i], s)
      BY <1>0, <1>3
    <3>4. W2 = MoreWays(Wp, p.stack, i, s, Len(p.code) + 1)
      BY <2>6
    <3>5. \A t \in Keys(s) : WayOK(Append(p.code, c), W2, c, s, t, RouteAt(p.stack, i, s, t))
      BY <2>8, <2>12
    <3>6. BlockOK(Append(p.code, c), W2, plans, Len(p.code) + 1, c)
      BY <2>8, <2>11
    <3>7. c.op = "act" /\ c.op # "dispatch" /\ c.id = p.stack[i].id /\ c.body = p.stack[i].body
      BY <2>3
    <3> QED
      BY <2>1, <2>4, <3>2, <3>3, <3>4, <3>5, <3>6, <3>7, SetGrows
  <2>14. Grows(g, W, h, W2, plans) /\ FreshWays(g.code, W, W2)
    BY <2>13, GrowsTwice
  <2> QED
    BY <2>13, <2>14
<1> QED
  BY <1>1, <1>2, <1>3

LEMMA Greatest ==
    ASSUME NEW n \in Nat, NEW S \in SUBSET (1 .. n), S # {}
    PROVE  Max(S) \in S /\ \A y \in S : y <= Max(S)
<1> DEFINE T == {n - x : x \in S}
<1>1. T \in SUBSET Nat /\ T # {}
  <2>1. \A x \in S : n - x \in Nat
    OBVIOUS
  <2>2. \A y \in T : y \in Nat
    BY <2>1
  <2> QED
    BY <2>2
<1>2. PICK m \in T : \A y \in T : m <= y
  BY <1>1, Least
<1>3. PICK x \in S : m = n - x
  OBVIOUS
<1>4. \A y \in S : y <= x
  <2>1. SUFFICES ASSUME NEW y \in S PROVE y <= x
    OBVIOUS
  <2>2. m <= n - y
    BY <1>2
  <2> QED
    BY <1>3, <2>2
<1>5. S \in SUBSET Int
  OBVIOUS
<1>6. Max(S) = x
  BY <1>4, <1>5, Maximum
<1> QED
  BY <1>4, <1>6

\* An unwinding in state s ends at the terminator at start.
Climbs(stack, start, s) ==
    /\ start \in 1 .. Len(stack) /\ IsTerminator(stack[start]) /\ IsActiveForState(stack[start], s)
    /\ \A i \in start + 1 .. Len(stack) : IsActiveForState(stack[i], s) => ~IsTerminator(stack[i])

LEMMA StartIs ==
    ASSUME NEW stack, IsStack(stack), NEW s,
           \E i \in 1 .. Len(stack) : IsTerminator(stack[i]) /\ IsActiveForState(stack[i], s)
    PROVE  Climbs(stack, UnwindStartPosition(stack, s), s)
<1> DEFINE S == {i \in ActivePositions(stack, s) : IsTerminator(stack[i])}
           m == Max(S)
<1>1. Len(stack) \in Nat /\ DOMAIN stack = 1 .. Len(stack)
  BY DEF IsStack
<1>2. \A i : i \in S <=> i \in 1 .. Len(stack) /\ IsTerminator(stack[i]) /\ IsActiveForState(stack[i], s)
  BY <1>1 DEF ActivePositions
<1>3. S \in SUBSET (1 .. Len(stack)) /\ S # {}
  BY <1>2
<1> HIDE DEF S
<1>4. m \in S /\ \A y \in S : y <= m
  BY <1>1, <1>3, Greatest
<1>5. UnwindStartPosition(stack, s) = m
  BY DEF UnwindStartPosition, S
<1>6. \A i \in m + 1 .. Len(stack) : i \notin S /\ i \in 1 .. Len(stack)
  <2>1. m \in 1 .. Len(stack)
    BY <1>3, <1>4
  <2> HIDE DEF m
  <2>2. \A i \in m + 1 .. Len(stack) : i \in 1 .. Len(stack) /\ ~(i <= m)
    BY <1>1, <2>1
  <2> QED
    BY <1>4, <2>2
<1> QED
  BY <1>2, <1>4, <1>5, <1>6 DEF Climbs

\* The landing pad for the action at i, if it needs one, is there in p.
PassPad(g, i, s, p, plans) ==
    \A W : Sound(g, W, plans) /\ i \in 2 .. Len(g.stack) =>
        \E Wp : /\ Grows(g, W, p, Wp, plans) /\ FreshWays(g.code, W, Wp) /\ p.stack = g.stack
                /\ Runs(g.stack[i], s) /\ g.stack[i].body = "mayThrow" =>
                        Thrown(p.code, Wp, p.made, plans[g.stack[i].id])

LEMMA SimilarAt ==
    ASSUME NEW stack, NEW stack2, Similar(stack, stack2), NEW i \in 1 .. Len(stack), NEW s
    PROVE  /\ IsTerminator(stack2[i]) <=> IsTerminator(stack[i])
           /\ IsActiveForState(stack2[i], s) <=> IsActiveForState(stack[i], s)
           /\ Runs(stack2[i], s) <=> Runs(stack[i], s)
           /\ Calm(stack2[i], s) <=> Calm(stack[i], s)
           /\ stack2[i].kind = stack[i].kind /\ stack2[i].body = stack[i].body /\ stack2[i].id = stack[i].id
<1>1. SameAs(stack[i], stack2[i])
  BY DEF Similar
<1> QED
  BY <1>1, SameActs

\* Position by position, the code is generated for all of the stack.
LEMMA ClimbGrows ==
    ASSUME NEW g, NEW W, NEW plans, Sound(g, W, plans), NEW s \in Modes, NEW start, Climbs(g.stack, start, s),
           \A i \in 1 .. Len(g.stack) : Calm(g.stack[i], s),
           NEW n \in Nat, n = Len(g.stack) - start, NEW V, NEW P,
           \E W2 : Grows(g, W, V[0], W2, plans) /\ Goes(V[0], W2, s, start) /\ (s = "Throw" => FreshWays(g.code, W, W2)),
           \A k \in 0 .. n - 1 : /\ V[k + 1] = GenAction(V[k], start + (k + 1), s, P[k])
                                 /\ PassPad(V[k], start + (k + 1), s, P[k], plans)
    PROVE  \E W2 : Grows(g, W, V[n], W2, plans) /\ Goes(V[n], W2, s, Len(g.stack)) /\ (s = "Throw" => FreshWays(g.code, W, W2))
<1> DEFINE Done(k) == \E W2 : /\ Grows(g, W, V[k], W2, plans) /\ Goes(V[k], W2, s, start + k)
                              /\ s = "Throw" => FreshWays(g.code, W, W2)
           S == {k \in Nat : k <= n => Done(k)}
<1>0. IsStack(g.stack) /\ Len(g.stack) \in Nat /\ start \in 1 .. Len(g.stack)
  BY SoundIs DEF Climbs
<1>1. 0 \in S
  <2>1. start + 0 = start
    BY <1>0
  <2> QED
    BY <2>1
<1>2. ASSUME NEW k \in S PROVE k + 1 \in S
  <2>1. SUFFICES ASSUME k + 1 <= n PROVE Done(k + 1)
    OBVIOUS
  <2>2. PICK W2 : /\ Grows(g, W, V[k], W2, plans) /\ Goes(V[k], W2, s, start + k)
                  /\ s = "Throw" => FreshWays(g.code, W, W2)
    BY <2>1
  <2>3. PICK h, i, p : h = V[k] /\ i = start + (k + 1) /\ p = P[k]
    OBVIOUS
  <2>4. V[k + 1] = GenAction(h, i, s, p) /\ PassPad(h, i, s, p, plans)
    BY <2>1, <2>3
  <2>5. /\ Grows(g, W, h, W2, plans) /\ Sound(h, W2, plans) /\ Similar(g.stack, h.stack) /\ Len(h.stack) = Len(g.stack)
        /\ i \in 2 .. Len(h.stack) /\ i \in start + 1 .. Len(g.stack) /\ i \in 1 .. Len(g.stack) /\ i - 1 = start + k
        /\ start \in 1 .. i - 1 /\ i - 1 \in 1 .. Len(h.stack)
    BY <1>0, <2>1, <2>2, <2>3 DEF Grows, Similar
  <2>6. PICK Wp : /\ Grows(h, W2, p, Wp, plans) /\ FreshWays(h.code, W2, Wp) /\ p.stack = h.stack
                  /\ Runs(h.stack[i], s) /\ h.stack[i].body = "mayThrow" =>
                        Thrown(p.code, Wp, p.made, plans[h.stack[i].id])
    BY <2>4, <2>5 DEF PassPad
  <2>7. IsActiveForState(h.stack[i], s) => ~IsTerminator(h.stack[i])
    BY <2>5, SimilarAt DEF Climbs
  <2>8. Calm(h.stack[i], s)
    BY <2>5, SimilarAt
  <2>9. ASSUME NEW t \in Keys(s) PROVE EndsAt(h.stack, i - 1, s, t)
    <3>1. IsTerminator(h.stack[start]) /\ IsActiveForState(h.stack[start], s)
      BY <1>0, <2>5, SimilarAt DEF Climbs
    <3>2. IsStack(h.stack) /\ start \in 1 .. Len(h.stack)
      BY <1>0, <2>5, SoundIs
    <3>3. EndsAt(h.stack, start, s, t)
      BY <3>1, <3>2, EndsActive
    <3>4. \A j \in 1 .. start : j \in 1 .. i - 1
      BY <1>0, <2>5
    <3> QED
      BY <3>3, <3>4 DEF EndsAt
  <2>10. Goes(h, W2, s, i - 1)
    BY <2>2, <2>3, <2>5
  <2>11. PICK q : q = V[k + 1]
    OBVIOUS
  <2>12. q = GenAction(h, i, s, p)
    BY <2>4, <2>11
  <2>13. PICK W3 : Grows(h, W2, q, W3, plans) /\ Goes(q, W3, s, i) /\ (s = "Throw" => FreshWays(h.code, W2, W3))
    BY <2>5, <2>6, <2>7, <2>8, <2>9, <2>10, <2>12, PassGrows
  <2>14. Grows(g, W, q, W3, plans) /\ (s = "Throw" => FreshWays(g.code, W, W3))
    BY <2>2, <2>5, <2>13, GrowsTwice
  <2> QED
    BY <2>3, <2>11, <2>13, <2>14
<1>3. S = Nat
  <2> HIDE DEF Done
  <2>1. S \in SUBSET Nat
    OBVIOUS
  <2> HIDE DEF S
  <2> QED
    BY <1>1, <1>2, <2>1, Induction
<1>4. Done(n)
  BY <1>3
<1>5. start + n = Len(g.stack)
  BY <1>0
<1> QED
  BY <1>4, <1>5

LEMMA SameGrows ==
    ASSUME NEW g, NEW W, NEW plans, Sound(g, W, plans), NEW p, IsEmitter(p), p.stack = g.stack, p.code = g.code
    PROVE  Grows(g, W, p, W, plans) /\ FreshWays(g.code, W, W)
<1>1. Sound(p, W, plans)
  BY DEF Sound
<1>2. Grows(g, W, g, W, plans) /\ FreshWays(g.code, W, W)
  BY GrowsSelf
<1> QED
  BY <1>1, <1>2 DEF Grows

LEMMA NoPadPass ==
    ASSUME NEW g, NEW i, NEW plans
    PROVE  PassPad(g, i, "Throw", NoPad(g, i), plans)
<1> SUFFICES ASSUME NEW W, Sound(g, W, plans), i \in 2 .. Len(g.stack), NEW p, p = NoPad(g, i)
             PROVE  \E Wp : /\ Grows(g, W, p, Wp, plans) /\ FreshWays(g.code, W, Wp) /\ p.stack = g.stack
                            /\ Runs(g.stack[i], "Throw") /\ g.stack[i].body = "mayThrow" =>
                                    Thrown(p.code, Wp, p.made, plans[g.stack[i].id])
  BY DEF PassPad
<1>1. IsAll(p, g.stack, g.code, 0)
  BY MadeAll DEF NoPad, Sound
<1>2. Grows(g, W, p, W, plans) /\ FreshWays(g.code, W, W)
  BY <1>1, SameGrows DEF IsAll
<1>3. BodyOK(g.stack, plans, i)
  <2>1. i \in 1 .. Len(g.stack)
    BY SoundIs
  <2> QED
    BY <2>1 DEF Sound, StackOK
<1>4. ~(Runs(g.stack[i], "Throw") /\ g.stack[i].body = "mayThrow")
  BY <1>3 DEF BodyOK, Runs, IsActiveForState, ActiveStates, NormalStates, ExceptionStates
<1> QED
  BY <1>1, <1>2, <1>4 DEF IsAll

\* The terminator of an unwinding.
LEMMA TopStart ==
    ASSUME NEW g, NEW W, NEW plans, Sound(g, W, plans), NEW s \in Modes, NEW start, Climbs(g.stack, start, s)
    PROVE  /\ TopThrow(g, start, s) = TopGen(g, start, s) /\ TopUnwind(g, start, s) = TopGen(g, start, s)
           /\ \E W2 : /\ Grows(g, W, TopGen(g, start, s), W2, plans) /\ Goes(TopGen(g, start, s), W2, s, start)
                      /\ FreshWays(g.code, W, W2)
<1>1. g.stack[start].kind # "RETHROWSCOPE"
  BY DEF Climbs, IsActiveForState, ActiveStates, Modes
<1>2. Len(g.stack) \in Nat /\ start \in 1 .. Len(g.stack) /\ IsActiveForState(g.stack[start], s) /\ IsTerminator(g.stack[start])
  BY SoundIs DEF Climbs
<1>3. g.stack[start].kind = "CATCH" => start = Len(g.stack) \/ g.stack[start + 1].kind # "CATCH"
  <2>1. SUFFICES ASSUME g.stack[start].kind = "CATCH", start # Len(g.stack), g.stack[start + 1].kind = "CATCH"
                 PROVE  FALSE
    OBVIOUS
  <2>2. start + 1 \in start + 1 .. Len(g.stack)
    BY <1>2, <2>1
  <2>3. s = "Throw"
    BY <1>2, <2>1 DEF IsActiveForState, ActiveStates
  <2>4. IsActiveForState(g.stack[start + 1], s) /\ IsTerminator(g.stack[start + 1])
    BY <2>1, <2>3 DEF IsActiveForState, ActiveStates, IsTerminator, Terminators
  <2> QED
    BY <2>2, <2>4 DEF Climbs
<1>4. PICK h : h = TopGen(g, start, s)
  OBVIOUS
<1>5. \E W2 : Grows(g, W, h, W2, plans) /\ FreshWays(g.code, W, W2) /\ Goes(h, W2, s, start)
  BY <1>2, <1>3, <1>4, TopGrows
<1> QED
  BY <1>1, <1>4, <1>5, TopIs

LEMMA ThrowStart ==
    ASSUME NEW stack, IsStack(stack)
    PROVE  Climbs(stack, UnwindStartPosition(stack, "Throw"), "Throw")
<1>1. 1 \in 1 .. Len(stack) /\ stack[1].kind = "FUNCTIONMARKER"
  BY DEF IsStack
<1>2. IsTerminator(stack[1]) /\ IsActiveForState(stack[1], "Throw")
  BY <1>1 DEF IsTerminator, Terminators, IsActiveForState, ActiveStates
<1> QED
  BY <1>1, <1>2, StartIs

LEMMA CalmThrow == \A a : Calm(a, "Throw")
BY DEF Calm

\* genThrowBlock
LEMMA ThrowBlock ==
    ASSUME NEW g, NEW W, NEW plans, Sound(g, W, plans), NEW h, h = GenThrowBlock(g)
    PROVE  \E W2 : Grows(g, W, h, W2, plans) /\ Goes(h, W2, "Throw", Len(g.stack)) /\ FreshWays(g.code, W, W2)
<1> DEFINE start == UnwindStartPosition(g.stack, "Throw")
           n == Len(g.stack) - start
<1>1. IsStack(g.stack) /\ Len(g.stack) \in Nat
  BY SoundIs
<1>2. Climbs(g.stack, start, "Throw")
  BY <1>1, ThrowStart
<1>3. n \in Nat /\ n = Len(g.stack) - start
  BY <1>1, <1>2 DEF Climbs
<1> HIDE DEF n, start
<1>4. PICK V : /\ V[0] = TopThrow(g, start, "Throw") /\ V[n] = ThrowBlocks(g, "Throw")
               /\ \A k \in 0 .. n - 1 : V[k + 1] = GenAction(V[k], start + (k + 1), "Throw", NoPad(V[k], start + (k + 1)))
  <2>1. PICK m, b, s : m = n /\ b = start /\ s = "Throw"
    OBVIOUS
  <2>2. b = UnwindStartPosition(g.stack, s) /\ m \in Nat /\ m = Len(g.stack) - b
    BY <1>3, <2>1 DEF start
  <2>3. \E V : /\ V[0] = TopThrow(g, b, s) /\ V[m] = ThrowBlocks(g, s)
               /\ \A k \in 0 .. m - 1 : V[k + 1] = GenAction(V[k], b + (k + 1), s, NoPad(V[k], b + (k + 1)))
    BY <2>2, ThrowFold
  <2> QED
    BY <2>1, <2>3
<1> DEFINE P == [k \in 0 .. n - 1 |-> NoPad(V[k], start + (k + 1))]
<1>5. "Throw" \in Modes
  BY DEF Modes, States
<1>6. \E W2 : Grows(g, W, V[0], W2, plans) /\ Goes(V[0], W2, "Throw", start) /\ FreshWays(g.code, W, W2)
  BY <1>2, <1>4, <1>5, TopStart
<1>7. \A k \in 0 .. n - 1 : /\ V[k + 1] = GenAction(V[k], start + (k + 1), "Throw", P[k])
                            /\ PassPad(V[k], start + (k + 1), "Throw", P[k], plans)
  BY <1>4, NoPadPass
<1> HIDE DEF P
<1>8. \A i \in 1 .. Len(g.stack) : Calm(g.stack[i], "Throw")
  BY CalmThrow
<1>9. \E W2 : /\ Grows(g, W, V[n], W2, plans) /\ Goes(V[n], W2, "Throw", Len(g.stack))
              /\ "Throw" = "Throw" => FreshWays(g.code, W, W2)
  <2>1. PICK Q : Q = P
    OBVIOUS
  <2>2. \A k \in 0 .. n - 1 : /\ V[k + 1] = GenAction(V[k], start + (k + 1), "Throw", Q[k])
                              /\ PassPad(V[k], start + (k + 1), "Throw", Q[k], plans)
    BY <1>7, <2>1
  <2>3. PICK m, b, s : m = n /\ b = start /\ s = "Throw"
    OBVIOUS
  <2>4. \E W2 : Grows(g, W, V[0], W2, plans) /\ Goes(V[0], W2, s, b) /\ (s = "Throw" => FreshWays(g.code, W, W2))
    BY <1>6, <2>3
  <2>5. \A k \in 0 .. m - 1 : /\ V[k + 1] = GenAction(V[k], b + (k + 1), s, Q[k])
                              /\ PassPad(V[k], b + (k + 1), s, Q[k], plans)
    BY <2>2, <2>3
  <2>6. s \in Modes /\ Climbs(g.stack, b, s) /\ m \in Nat /\ m = Len(g.stack) - b /\ \A i \in 1 .. Len(g.stack) : Calm(g.stack[i], s)
    BY <1>2, <1>3, <1>5, <1>8, <2>3
  <2>7. \E W2 : Grows(g, W, V[m], W2, plans) /\ Goes(V[m], W2, s, Len(g.stack)) /\ (s = "Throw" => FreshWays(g.code, W, W2))
    BY <2>4, <2>5, <2>6, ClimbGrows
  <2> QED
    BY <2>3, <2>7
<1>10. h = V[n]
  BY <1>4, BlocksAre
<1> QED
  BY <1>9, <1>10

\* The topmost of the actions that take part in an unwinding.
LEMMA MaxActive ==
    ASSUME NEW stack, IsStack(stack), NEW s, \E i \in 1 .. Len(stack) : IsActiveForState(stack[i], s),
           NEW m, m = Max(ActivePositions(stack, s))
    PROVE  /\ m \in 1 .. Len(stack) /\ IsActiveForState(stack[m], s)
           /\ \A i \in m + 1 .. Len(stack) : i \in 1 .. Len(stack) /\ ~IsActiveForState(stack[i], s)
<1> DEFINE S == ActivePositions(stack, s)
<1>1. Len(stack) \in Nat /\ DOMAIN stack = 1 .. Len(stack)
  BY DEF IsStack
<1>2. \A i : i \in S <=> i \in 1 .. Len(stack) /\ IsActiveForState(stack[i], s)
  BY <1>1 DEF ActivePositions
<1>3. S \in SUBSET (1 .. Len(stack)) /\ S # {}
  BY <1>2
<1> HIDE DEF S
<1>4. m \in S /\ \A y \in S : y <= m
  BY <1>1, <1>3, Greatest DEF S
<1>5. m \in 1 .. Len(stack)
  BY <1>3, <1>4
<1>6. \A i \in m + 1 .. Len(stack) : i \in 1 .. Len(stack) /\ ~(i <= m)
  BY <1>1, <1>5
<1> QED
  BY <1>2, <1>4, <1>5, <1>6

LEMMA QuietAbove ==
    ASSUME NEW stack, IsStack(stack), NEW s \in Modes, NEW t \in Keys(s),
           NEW i \in 1 .. Len(stack), NEW n \in i .. Len(stack), EndsAt(stack, i, s, t),
           \A j \in i + 1 .. n : ~IsActiveForState(stack[j], s)
    PROVE  EndsAt(stack, n, s, t) /\ RouteAt(stack, n, s, t) = RouteAt(stack, i, s, t)
<1>1. \A j \in i + 1 .. n : ~Ends(stack[j], s, t) /\ ~Runs(stack[j], s)
  BY Inactive
<1> QED
  BY <1>1, RouteInactive

LEMMA ThrowEnds ==
    ASSUME NEW stack, IsStack(stack), NEW i \in 1 .. Len(stack), NEW t \in Types
    PROVE  EndsAt(stack, i, "Throw", t) /\ "Throw" \in Modes /\ t \in Keys("Throw")
<1>1. "Throw" \in Modes /\ t \in Keys("Throw")
  BY DEF Modes, States, Keys
<1>2. \A s : s = "Throw" => EndsAt(stack, i, s, t)
  BY <1>1, EndsActive
<1> QED
  BY <1>1, <1>2

LEMMA CatchTypesSome ==
    ASSUME NEW stack, IsStack(stack), NEW n \in 1 .. Len(stack), stack[n].kind = "CATCH"
    PROVE  CatchTypes(stack) # <<>>
<1> DEFINE P(k) == CatchTypes(Prefix(stack, k)) # <<>>
           S == {k \in Nat : n + k <= Len(stack) => P(n + k)}
<1>0. Len(stack) \in Nat /\ n # 1
  BY DEF IsStack
<1>1. ASSUME NEW i \in 2 .. Len(stack), stack[i].kind = "CATCH" PROVE P(i)
  <2>1. i - 1 \in 1 .. Len(stack)
    BY <1>0
  <2>2. PICK V : CatchTypes(Prefix(stack, i - 1)) \in Seq(V)
    BY <2>1, CatchTypesAt
  <2>3. CatchTypes(Prefix(stack, i)) = <<Catch(stack[i])>> \o CatchTypes(Prefix(stack, i - 1))
    BY <1>1, CatchTypesStep
  <2>4. PICK a, b : a = Catch(stack[i]) /\ b = CatchTypes(Prefix(stack, i - 1))
    OBVIOUS
  <2>5. b \in Seq(V) /\ <<a>> \o b # <<>>
    BY <2>2, <2>4
  <2> QED
    BY <2>3, <2>4, <2>5
<1>2. 0 \in S
  <2>1. n \in 2 .. Len(stack) /\ n + 0 = n
    BY <1>0
  <2>2. P(n)
    BY <1>1, <2>1
  <2> HIDE DEF P
  <2> QED
    BY <2>1, <2>2
<1>3. ASSUME NEW k \in S PROVE k + 1 \in S
  <2>1. SUFFICES ASSUME n + (k + 1) <= Len(stack) PROVE P(n + (k + 1))
    OBVIOUS
  <2>2. n + (k + 1) \in 2 .. Len(stack) /\ n + (k + 1) - 1 = n + k /\ n + k <= Len(stack)
    BY <1>0, <2>1
  <2>3. P(n + k)
    BY <2>2
  <2>4. PICK i : i = n + (k + 1)
    OBVIOUS
  <2>5. i \in 2 .. Len(stack) /\ P(i - 1)
    BY <2>2, <2>3, <2>4
  <2>6. P(i)
    BY <1>1, <2>5, CatchTypesStep
  <2> QED
    BY <2>4, <2>6
<1>4. Len(stack) - n \in S
  <2> HIDE DEF P
  <2>1. S \in SUBSET Nat
    OBVIOUS
  <2>2. S = Nat
    <3> HIDE DEF S
    <3> QED
      BY <1>2, <1>3, <2>1, Induction
  <2> HIDE DEF S
  <2> QED
    BY <1>0, <2>2
<1>5. P(Len(stack))
  <2> HIDE DEF P
  <2>1. n + (Len(stack) - n) = Len(stack)
    BY <1>0
  <2> QED
    BY <1>0, <1>4, <2>1
<1> QED
  BY <1>0, <1>5, PrefixIs

\* A landing pad that does not clean up has a clause.
LEMMA PadHasWork ==
    ASSUME NEW stack, IsStack(stack), AnyUnwindActions(stack, "Throw")
    PROVE  CatchTypes(stack) # <<>> \/ AnyUnwindCleanupActions(stack, "Throw")
<1> DEFINE S == ActivePositions(stack, "Throw") \ {1}
           m == Max(S)
<1>1. Len(stack) \in Nat /\ DOMAIN stack = 1 .. Len(stack)
  BY DEF IsStack
<1>2. \A i : i \in S <=> i \in 1 .. Len(stack) /\ i # 1 /\ IsActiveForState(stack[i], "Throw")
  BY <1>1 DEF ActivePositions
<1>3. S # {} /\ S \in SUBSET (1 .. Len(stack))
  BY <1>1, <1>2 DEF AnyUnwindActions, ActivePositions
<1>4. AnyUnwindCleanupActions(stack, "Throw") <=> ~IsTerminator(stack[m])
  BY <1>3 DEF AnyUnwindCleanupActions
<1> HIDE DEF S
<1>5. m \in S
  BY <1>1, <1>3, Greatest
<1>6. IsTerminator(stack[m]) => stack[m].kind = "CATCH"
  BY <1>2, <1>5 DEF IsStack, IsTerminator, Terminators, IsActiveForState, ActiveStates
<1> QED
  BY <1>2, <1>4, <1>5, <1>6, CatchTypesSome

\* What was generated or found is a landing pad for what is thrown at the top of
\* the stack.
PadGoes(g, W) ==
    /\ g.made \in 1 .. Len(g.code) /\ g.code[g.made].op = "pad"
    /\ \A t \in Types : <<g.made, "Throw", t, RouteAt(g.stack, Len(g.stack), "Throw", t)>> \in W

PadBlock(g, h) ==
    [op |-> "pad", store |-> Keep, next |-> h.made, clauses |-> CatchTypes(g.stack),
     cleanup |-> AnyUnwindCleanupActions(g.stack, "Throw")]

LEMMA ThrowPadIs ==
    ASSUME NEW g
    PROVE  GenThrowPad(g) = IF LatestLandingPad(g.stack, "Throw") # 0
                            THEN [g EXCEPT !.made = LatestLandingPad(g.stack, "Throw")]
                            ELSE SetLatestLandingPad(Emit(GenThrowBlock(g), PadBlock(g, GenThrowBlock(g))), "Throw")
<1>1. UnwindStore("Throw") = Keep
  BY DEF UnwindStore
<1> QED
  BY <1>1, Zenon DEF GenThrowPad, GenLandingPad, PadBlock

LEMMA SetPadAll ==
    ASSUME NEW g, IsEmitter(g), IsStack(g.stack), NEW h, h = SetLatestLandingPad(g, "Throw"),
           NEW m, m = Max(ActivePositions(g.stack, "Throw"))
    PROVE  IsAll(h, Padded(g.stack, m, g.made), g.code, g.made)
<1> DEFINE new == [i \in DOMAIN g.stack |-> IF i >= Max(ActivePositions(g.stack, "Throw"))
                                            THEN [g.stack[i] EXCEPT !.pad["Throw"] = g.made] ELSE g.stack[i]]
<1>1. h = [g EXCEPT !.stack = new]
  BY Zenon DEF SetLatestLandingPad
<1>2. new = Padded(g.stack, m, g.made)
  <2>1. DOMAIN g.stack = 1 .. Len(g.stack)
    BY DEF IsStack
  <2>2. new = [i \in 1 .. Len(g.stack) |-> IF i >= m THEN WithPad(g.stack[i], "Throw", g.made) ELSE g.stack[i]]
    BY <2>1, Zenon DEF WithPad
  <2> QED
    BY <2>2, Zenon DEF Padded
<1>3. [g EXCEPT !.stack = new] = BackTo(g, new)
  BY Zenon DEF BackTo
<1> HIDE DEF new
<1>4. IsAll(h, new, g.code, g.made)
  BY <1>1, <1>3, BackToAll
<1> QED
  BY <1>2, <1>4

\* The landing pad that was emitted is remembered.
LEMMA SetPadSound ==
    ASSUME NEW g, NEW W, NEW plans, Sound(g, W, plans), PadGoes(g, W),
           NEW h, h = SetLatestLandingPad(g, "Throw")
    PROVE  /\ Sound(h, W, plans) /\ Similar(g.stack, h.stack) /\ h.code = g.code /\ h.made = g.made
           /\ PadGoes(h, W)
<1>1. IsStack(g.stack) /\ Len(g.stack) \in Nat /\ Len(g.code) \in Nat /\ 1 \in 1 .. Len(g.stack)
      /\ Len(g.stack) \in 1 .. Len(g.stack)
  BY SoundIs
<1>2. PICK m : m = Max(ActivePositions(g.stack, "Throw"))
  OBVIOUS
<1>3. IsActiveForState(g.stack[1], "Throw")
  BY <1>1 DEF IsStack, IsActiveForState, ActiveStates
<1>4. /\ m \in 1 .. Len(g.stack)
      /\ \A i \in m + 1 .. Len(g.stack) : i \in 1 .. Len(g.stack) /\ ~IsActiveForState(g.stack[i], "Throw")
  BY <1>1, <1>2, <1>3, MaxActive
<1>5. IsAll(h, Padded(g.stack, m, g.made), g.code, g.made)
  BY <1>1, <1>2, SetPadAll DEF Sound
<1>6. ASSUME NEW i \in m .. Len(g.stack), NEW t \in Types
      PROVE  <<g.made, "Throw", t, RouteAt(g.stack, i, "Throw", t)>> \in W
  <2>1. i \in 1 .. Len(g.stack) /\ Len(g.stack) \in i .. Len(g.stack)
    BY <1>1, <1>4
  <2>2. \A j \in i + 1 .. Len(g.stack) : j \in m + 1 .. Len(g.stack)
    BY <1>1, <1>4
  <2>3. EndsAt(g.stack, i, "Throw", t) /\ "Throw" \in Modes /\ t \in Keys("Throw")
    BY <1>1, <2>1, ThrowEnds
  <2>4. PICK s, n : s = "Throw" /\ n = Len(g.stack)
    OBVIOUS
  <2>5. s \in Modes /\ t \in Keys(s) /\ n \in i .. Len(g.stack) /\ EndsAt(g.stack, i, s, t)
        /\ \A j \in i + 1 .. n : ~IsActiveForState(g.stack[j], s)
    BY <1>4, <2>1, <2>2, <2>3, <2>4
  <2>6. RouteAt(g.stack, n, s, t) = RouteAt(g.stack, i, s, t)
    BY <1>1, <2>1, <2>5, QuietAbove
  <2> QED
    BY <2>4, <2>6 DEF PadGoes
<1>7. PICK stack2, b : stack2 = Padded(g.stack, m, b) /\ b = g.made
  OBVIOUS
<1>8. h.stack = stack2 /\ h.code = g.code /\ h.made = b /\ IsEmitter(h)
  BY <1>5, <1>7 DEF IsAll
<1>9. StackOK(g.stack, g.code, W, plans) /\ b \in 1 .. Len(g.code) /\ g.code[b].op = "pad"
      /\ \A i \in m .. Len(g.stack), t \in Types : <<b, "Throw", t, RouteAt(g.stack, i, "Throw", t)>> \in W
  BY <1>6, <1>7 DEF Sound, PadGoes
<1>10. StackOK(stack2, g.code, W, plans) /\ Len(stack2) = Len(g.stack) /\ \A j \in 1 .. Len(g.stack) : SameAs(g.stack[j], stack2[j])
  BY <1>1, <1>4, <1>7, <1>9, StackPad
<1>11. Sound(h, W, plans) /\ Similar(g.stack, h.stack)
  BY <1>8, <1>10 DEF Sound, Similar
<1>12. ASSUME NEW t \in Types PROVE <<h.made, "Throw", t, RouteAt(h.stack, Len(h.stack), "Throw", t)>> \in W
  <2>1. EndsAt(g.stack, Len(g.stack), "Throw", t) /\ "Throw" \in Modes /\ t \in Keys("Throw")
    BY <1>1, ThrowEnds
  <2>2. PICK s, n : s = "Throw" /\ n = Len(g.stack)
    OBVIOUS
  <2>3. EndsAt(g.stack, n, s, t) /\ s \in Modes /\ t \in Keys(s) /\ n \in 1 .. Len(g.stack) /\ IsStack(h.stack)
    BY <1>1, <1>11, <2>1, <2>2, SoundIs
  <2>4. RouteAt(h.stack, n, s, t) = RouteAt(g.stack, n, s, t)
    BY <1>1, <1>11, <2>3, RouteSimilar
  <2>5. Len(h.stack) = n
    BY <1>11, <2>2 DEF Similar
  <2> QED
    BY <1>7, <1>8, <2>2, <2>4, <2>5 DEF PadGoes
<1> QED
  BY <1>7, <1>8, <1>9, <1>11, <1>12 DEF PadGoes

\* genLandingPad
LEMMA ThrowPad ==
    ASSUME NEW g, NEW W, NEW plans, Sound(g, W, plans), AnyUnwindActions(g.stack, "Throw"),
           NEW h, h = GenThrowPad(g)
    PROVE  \E W2 : Grows(g, W, h, W2, plans) /\ FreshWays(g.code, W, W2) /\ PadGoes(h, W2)
<1>1. IsStack(g.stack) /\ Len(g.stack) \in Nat /\ Len(g.code) \in Nat /\ 1 \in 1 .. Len(g.stack)
      /\ Len(g.stack) \in 1 .. Len(g.stack) /\ DOMAIN g.stack = 1 .. Len(g.stack)
  BY SoundIs
<1>2. CASE LatestLandingPad(g.stack, "Throw") # 0
  <2> DEFINE m == Max(ActivePositions(g.stack, "Throw"))
             S == {i \in m .. Len(g.stack) : g.stack[i].pad["Throw"] # 0}
             i == Max(S)
             b == g.stack[i].pad["Throw"]
  <2>1. IsActiveForState(g.stack[1], "Throw")
    BY <1>1 DEF IsStack, IsActiveForState, ActiveStates
  <2>2. /\ m \in 1 .. Len(g.stack)
        /\ \A j \in m + 1 .. Len(g.stack) : j \in 1 .. Len(g.stack) /\ ~IsActiveForState(g.stack[j], "Throw")
    BY <1>1, <2>1, MaxActive
  <2> HIDE DEF m
  <2>3. S # {} /\ LatestLandingPad(g.stack, "Throw") = b
    BY <1>2 DEF LatestLandingPad, m
  <2>4. S \in SUBSET (1 .. Len(g.stack))
    BY <1>1, <2>2
  <2>5. i \in S
    <3> HIDE DEF S
    <3> QED
      BY <1>1, <2>3, <2>4, Greatest
  <2>6. i \in m .. Len(g.stack) /\ i \in 1 .. Len(g.stack) /\ b # 0
    BY <2>4, <2>5
  <2> HIDE DEF S, i
  <2>7. PadOK(g.stack, g.code, W, i)
    BY <2>6 DEF Sound, StackOK
  <2>8. b \in 1 .. Len(g.code) /\ g.code[b].op = "pad" /\ \A t \in Types : <<b, "Throw", t, RouteAt(g.stack, i, "Throw", t)>> \in W
    BY <2>6, <2>7 DEF PadOK
  <2>9. h = [g EXCEPT !.made = b]
    BY <1>2, <2>3, ThrowPadIs
  <2>10. IsAll(h, g.stack, g.code, b)
    BY <2>9, MadeAll DEF Sound
  <2>11. Grows(g, W, h, W, plans) /\ FreshWays(g.code, W, W)
    BY <2>10, SameGrows DEF IsAll
  <2>12. ASSUME NEW t \in Types PROVE RouteAt(g.stack, Len(g.stack), "Throw", t) = RouteAt(g.stack, i, "Throw", t)
    <3>1. Len(g.stack) \in i .. Len(g.stack) /\ \A j \in i + 1 .. Len(g.stack) : j \in m + 1 .. Len(g.stack)
      BY <1>1, <2>2, <2>6
    <3>2. EndsAt(g.stack, i, "Throw", t) /\ "Throw" \in Modes /\ t \in Keys("Throw")
      BY <1>1, <2>6, ThrowEnds
    <3>3. PICK s, n, k : s = "Throw" /\ n = Len(g.stack) /\ k = i
      OBVIOUS
    <3>4. s \in Modes /\ t \in Keys(s) /\ n \in k .. Len(g.stack) /\ EndsAt(g.stack, k, s, t) /\ k \in 1 .. Len(g.stack)
          /\ \A j \in k + 1 .. n : ~IsActiveForState(g.stack[j], s)
      BY <2>2, <2>6, <3>1, <3>2, <3>3
    <3>5. RouteAt(g.stack, n, s, t) = RouteAt(g.stack, k, s, t)
      BY <1>1, <3>4, QuietAbove
    <3> QED
      BY <3>3, <3>5
  <2>13. PadGoes(h, W)
    BY <2>8, <2>10, <2>12 DEF PadGoes, IsAll
  <2> QED
    BY <2>11, <2>13
<1>3. CASE LatestLandingPad(g.stack, "Throw") = 0
  <2>1. PICK u, c, q : u = GenThrowBlock(g) /\ c = PadBlock(g, u) /\ q = Emit(u, c)
    OBVIOUS
  <2>2. h = SetLatestLandingPad(q, "Throw")
    BY <1>3, <2>1, ThrowPadIs
  <2>3. PICK V : Grows(g, W, u, V, plans) /\ Goes(u, V, "Throw", Len(g.stack)) /\ FreshWays(g.code, W, V)
    BY <2>1, ThrowBlock
  <2>4. /\ Sound(u, V, plans) /\ Similar(g.stack, u.stack) /\ IsStack(u.stack) /\ Len(u.code) \in Nat /\ IsCode(u.code)
        /\ Len(u.stack) = Len(g.stack)
    BY <2>3, SoundIs DEF Grows, Sound, CodeOK, Similar
  <2>5. PICK s, n : s = "Throw" /\ n = Len(g.stack)
    OBVIOUS
  <2>6. PICK W2 : W2 = MoreWays(V, u.stack, n, s, Len(u.code) + 1)
    OBVIOUS
  <2>7. /\ V \subseteq W2
        /\ \A b, x, t, r : <<b, x, t, r>> \in W2 /\ <<b, x, t, r>> \notin V =>
                b = Len(u.code) + 1 /\ x = s /\ t \in Keys(s) /\ r = RouteAt(u.stack, n, s, t)
        /\ \A t \in Keys(s) : <<Len(u.code) + 1, s, t, RouteAt(u.stack, n, s, t)>> \in W2
    BY <2>6 DEF MoreWays, WaysFrom
  <2>8. c.op = "pad" /\ c.store = Keep /\ c.next = u.made /\ c.clauses = CatchTypes(g.stack)
        /\ c.cleanup = AnyUnwindCleanupActions(g.stack, "Throw")
    BY <2>1 DEF PadBlock
  <2>9. BlockOK(Append(u.code, c), W2, plans, Len(u.code) + 1, c)
    BY <1>1, <2>8, PadHasWork DEF BlockOK, Ops
  <2>10. ASSUME NEW t \in Keys(s) PROVE WayOK(Append(u.code, c), W2, c, s, t, RouteAt(u.stack, n, s, t))
    <3>1. t \in Types
      BY <2>5 DEF Keys
    <3>2. EndsAt(g.stack, n, s, t) /\ s \in Modes /\ n \in 1 .. Len(g.stack)
      BY <1>1, <2>5, <3>1, ThrowEnds
    <3>3. PICK R : R = RouteAt(u.stack, n, s, t)
      OBVIOUS
    <3>4. R = RouteAt(g.stack, n, s, t)
      BY <1>1, <2>4, <3>2, <3>3, RouteSimilar
    <3>5. R \in Routes
      BY <1>1, <3>2, <3>4, RouteTyped
    <3>6. HandleAction(c.clauses, t) = R.selector
      <4>1. Prefix(g.stack, n) = g.stack
        BY <1>1, <2>5, PrefixIs
      <4>2. R.selector = Selector(Prefix(g.stack, n), s, t)
        BY <3>4 DEF RouteAt, Route
      <4> QED
        BY <2>5, <2>8, <4>1, <4>2 DEF Selector
    <3>7. Reaches(Append(u.code, c), W2, c.next, s, t, R)
      BY <2>3, <2>5, <2>7, <2>8, <3>3 DEF Reaches, Goes
    <3>8. PadWay(Append(u.code, c), W2, c, s, t, R)
      BY <2>5, <2>8, <3>6, <3>7 DEF PadWay
    <3> QED
      BY <2>8, <3>2, <3>3, <3>5, <3>8 DEF WayOK
  <2>11. Grows(u, V, q, W2, plans) /\ FreshWays(u.code, V, W2) /\ Emitted(u, c, q)
    <3>1. \A b, x, t, r : <<b, x, t, r>> \in W2 /\ <<b, x, t, r>> \notin V =>
                b = Len(u.code) + 1 /\ WayOK(Append(u.code, c), W2, c, x, t, r)
      BY <2>7, <2>10
    <3> QED
      BY <2>1, <2>4, <2>7, <2>8, <2>9, <3>1, EmitGrows
  <2>12. PadGoes(q, W2)
    <3>1. q.made = Len(u.code) + 1 /\ Len(q.code) = Len(u.code) + 1 /\ q.code[Len(u.code) + 1] = c /\ q.stack = u.stack
      BY <2>11 DEF Emitted
    <3>2. q.made \in 1 .. Len(q.code)
      BY <2>4, <3>1
    <3> QED
      BY <2>4, <2>5, <2>7, <2>8, <3>1, <3>2 DEF PadGoes, Keys
  <2>13. Sound(q, W2, plans)
    BY <2>11 DEF Grows
  <2>14. Sound(h, W2, plans) /\ Similar(q.stack, h.stack) /\ h.code = q.code /\ h.made = q.made /\ PadGoes(h, W2)
    BY <2>2, <2>12, <2>13, SetPadSound
  <2>15. Grows(q, W2, h, W2, plans) /\ FreshWays(q.code, W2, W2)
    <3>1. Grows(q, W2, q, W2, plans) /\ FreshWays(q.code, W2, W2)
      BY <2>13, GrowsSelf
    <3> QED
      BY <2>14, <3>1 DEF Grows
  <2>16. Grows(g, W, q, W2, plans) /\ FreshWays(g.code, W, W2)
    BY <2>3, <2>11, GrowsTwice
  <2>17. Grows(g, W, h, W2, plans)
    BY <2>15, <2>16, GrowsTwice
  <2> QED
    BY <2>14, <2>16, <2>17
<1> QED
  BY <1>2, <1>3

\* What the language asks for when an exception is thrown at the top of the stack.
Planned(stack, P) ==
    \A t \in Types : /\ P[t].todo = RouteAt(stack, Len(stack), "Throw", t).todo
                     /\ P[t].goal = RouteAt(stack, Len(stack), "Throw", t).goal

\* The landing pad of a call that may throw.
LEMMA CallPad ==
    ASSUME NEW g, NEW W, NEW plans, Sound(g, W, plans),
           NEW h, h = IF AnyUnwindActions(g.stack, "Throw") THEN GenThrowPad(g) ELSE [g EXCEPT !.made = 0]
    PROVE  \E W2 : /\ Grows(g, W, h, W2, plans) /\ FreshWays(g.code, W, W2)
                   /\ \A P : Planned(g.stack, P) => Thrown(h.code, W2, h.made, P)
<1>1. IsStack(g.stack) /\ Len(g.stack) \in Nat /\ Len(g.code) \in Nat /\ 1 \in 1 .. Len(g.stack)
      /\ Len(g.stack) \in 1 .. Len(g.stack) /\ DOMAIN g.stack = 1 .. Len(g.stack)
  BY SoundIs
<1>2. CASE AnyUnwindActions(g.stack, "Throw")
  <2>1. h = GenThrowPad(g)
    BY <1>2
  <2>2. PICK W2 : Grows(g, W, h, W2, plans) /\ FreshWays(g.code, W, W2) /\ PadGoes(h, W2)
    BY <1>2, <2>1, ThrowPad
  <2>3. Sound(h, W2, plans) /\ Similar(g.stack, h.stack) /\ IsStack(h.stack) /\ Len(h.stack) = Len(g.stack) /\ Len(h.code) \in Nat
    BY <2>2, SoundIs DEF Grows, Similar
  <2>4. ASSUME NEW t \in Types
        PROVE  <<h.made, "Throw", t, RouteAt(g.stack, Len(g.stack), "Throw", t)>> \in W2
    <3>1. PICK s, n : s = "Throw" /\ n = Len(g.stack)
      OBVIOUS
    <3>2. EndsAt(g.stack, n, s, t) /\ s \in Modes /\ t \in Keys(s) /\ n \in 1 .. Len(g.stack)
      BY <1>1, <3>1, ThrowEnds
    <3>3. RouteAt(h.stack, n, s, t) = RouteAt(g.stack, n, s, t)
      BY <1>1, <2>3, <3>2, RouteSimilar
    <3> QED
      BY <2>2, <2>3, <3>1, <3>3 DEF PadGoes
  <2>5. ASSUME NEW P, Planned(g.stack, P) PROVE Thrown(h.code, W2, h.made, P)
    <3>1. h.made \in 1 .. Len(h.code) /\ h.code[h.made].op = "pad" /\ h.made # 0
      BY <2>2, <2>3 DEF PadGoes
    <3>2. \A t \in Types : \E r : /\ r.todo = P[t].todo /\ r.goal = P[t].goal
                                  /\ <<h.made, "Throw", t, r>> \in W2
      BY <2>4, <2>5 DEF Planned
    <3> QED
      BY <3>1, <3>2 DEF Thrown
  <2> QED
    BY <2>2, <2>5
<1>3. CASE ~AnyUnwindActions(g.stack, "Throw")
  <2>1. h = [g EXCEPT !.made = 0]
    BY <1>3
  <2>2. IsAll(h, g.stack, g.code, 0)
    BY <2>1, MadeAll DEF Sound
  <2>3. Grows(g, W, h, W, plans) /\ FreshWays(g.code, W, W)
    BY <2>2, SameGrows DEF IsAll
  <2>4. \A i \in 2 .. Len(g.stack) : ~IsActiveForState(g.stack[i], "Throw")
    BY <1>1, <1>3 DEF AnyUnwindActions, ActivePositions
  <2>5. ASSUME NEW t \in Types
        PROVE  /\ RouteAt(g.stack, Len(g.stack), "Throw", t).todo = <<>>
               /\ RouteAt(g.stack, Len(g.stack), "Throw", t).goal = Resumed
    <3>1. PICK s, n : s = "Throw" /\ n = Len(g.stack)
      OBVIOUS
    <3>2. EndsAt(g.stack, 1, s, t) /\ s \in Modes /\ t \in Keys(s) /\ n \in 1 .. Len(g.stack)
          /\ \A j \in 1 + 1 .. n : ~IsActiveForState(g.stack[j], s)
      BY <1>1, <2>4, <3>1, ThrowEnds
    <3>3. RouteAt(g.stack, n, s, t) = RouteAt(g.stack, 1, s, t)
      BY <1>1, <3>2, QuietAbove
    <3>4. Ends(g.stack[1], s, t) /\ g.stack[1].kind = "FUNCTIONMARKER"
      BY <1>1, <3>1 DEF IsStack, Ends
    <3>5. g.stack[1].to[s] = Resumed
      BY <1>1, <3>1, <3>4 DEF Sound, StackOK, MarkOK
    <3>6. RouteAt(g.stack, 1, s, t) =
                [todo |-> <<>>, goal |-> g.stack[1].to[s], selector |-> IF g.stack[1].kind = "CATCH" THEN g.stack[1].id ELSE 0]
      BY <1>1, <3>2, <3>4, RouteEnd
    <3> QED
      BY <3>1, <3>3, <3>5, <3>6
  <2>6. \A P : Planned(g.stack, P) => Thrown(h.code, W, h.made, P)
    BY <2>2, <2>5 DEF Planned, Thrown, IsAll
  <2> QED
    BY <2>3, <2>6
<1> QED
  BY <1>2, <1>3

\* Routes of a part of the stack.
LEMMA RoutePrefix ==
    ASSUME NEW stack, IsStack(stack), NEW n \in 1 .. Len(stack), NEW i \in 1 .. n, NEW s, NEW t
    PROVE  RouteAt(Prefix(stack, n), i, s, t) = RouteAt(stack, i, s, t)
BY PrefixPrefix DEF RouteAt

\* The emitter with the stack below an action.
LEMMA BelowSound ==
    ASSUME NEW g, NEW W, NEW plans, Sound(g, W, plans), NEW i \in 2 .. Len(g.stack),
           g.stack[i].kind # "CATCH" \/ g.stack[i - 1].kind # "CATCH", NEW q, q = Below(g, i)
    PROVE  /\ Sound(q, W, plans) /\ q.stack = Prefix(g.stack, i - 1) /\ q.code = g.code /\ q.made = g.made
           /\ Len(q.stack) = i - 1
<1>1. IsStack(g.stack) /\ Len(g.stack) \in Nat /\ i - 1 \in 1 .. Len(g.stack) /\ i - 1 + 1 = i
  BY SoundIs
<1>2. IsAll(q, Prefix(g.stack, i - 1), g.code, g.made)
  BY BelowAll DEF Sound
<1>3. StackOK(Prefix(g.stack, i - 1), g.code, W, plans)
  <2>1. PICK n : n = i - 1
    OBVIOUS
  <2>2. n \in 1 .. Len(g.stack) /\ (n = Len(g.stack) \/ g.stack[n + 1].kind # "CATCH" \/ g.stack[n].kind # "CATCH")
    BY <1>1, <2>1
  <2>3. StackOK(g.stack, g.code, W, plans)
    BY DEF Sound
  <2>4. StackOK(Prefix(g.stack, n), g.code, W, plans)
    BY <2>2, <2>3, StackPrefix
  <2> QED
    BY <2>1, <2>4
<1> QED
  BY <1>1, <1>2, <1>3, PrefixIs DEF IsAll, Sound

\* The landing pad of a block of a scope exit that may throw.
LEMMA BodyPadPass ==
    ASSUME NEW g, NEW i, NEW s, NEW plans
    PROVE  PassPad(g, i, s, BodyPad(g, i), plans)
<1> SUFFICES ASSUME NEW W, Sound(g, W, plans), i \in 2 .. Len(g.stack), NEW p, p = BodyPad(g, i)
             PROVE  \E Wp : /\ Grows(g, W, p, Wp, plans) /\ FreshWays(g.code, W, Wp) /\ p.stack = g.stack
                            /\ Runs(g.stack[i], s) /\ g.stack[i].body = "mayThrow" =>
                                    Thrown(p.code, Wp, p.made, plans[g.stack[i].id])
  BY DEF PassPad
<1>1. IsStack(g.stack) /\ Len(g.stack) \in Nat /\ Len(g.code) \in Nat /\ i \in 1 .. Len(g.stack) /\ i - 1 \in 1 .. Len(g.stack)
  BY SoundIs
<1>2. CASE g.stack[i].body # "mayThrow"
  <2>1. p = [g EXCEPT !.made = 0]
    BY <1>2 DEF BodyPad, NoPad
  <2>2. IsAll(p, g.stack, g.code, 0)
    BY <2>1, MadeAll DEF Sound
  <2>3. Grows(g, W, p, W, plans) /\ FreshWays(g.code, W, W)
    BY <2>2, SameGrows DEF IsAll
  <2> QED
    BY <1>2, <2>2, <2>3 DEF IsAll
<1>3. CASE g.stack[i].body = "mayThrow"
  <2>1. PICK q : q = Below(g, i)
    OBVIOUS
  <2>2. BodyOK(g.stack, plans, i)
    BY <1>1 DEF Sound, StackOK
  <2>3. g.stack[i].kind # "CATCH"
    BY <1>3, <2>2 DEF BodyOK
  <2>4. /\ Sound(q, W, plans) /\ q.stack = Prefix(g.stack, i - 1) /\ q.code = g.code /\ q.made = g.made
        /\ Len(q.stack) = i - 1
    BY <2>1, <2>3, BelowSound
  <2>5. PICK h : h = IF AnyUnwindActions(q.stack, "Throw") THEN GenThrowPad(q) ELSE [q EXCEPT !.made = 0]
    OBVIOUS
  <2>6. PICK W2 : /\ Grows(q, W, h, W2, plans) /\ FreshWays(q.code, W, W2)
                  /\ \A P : Planned(q.stack, P) => Thrown(h.code, W2, h.made, P)
    BY <2>4, <2>5, CallPad
  <2>7. Sound(h, W2, plans)
    BY <2>6 DEF Grows
  <2>8. IsAll(p, g.stack, h.code, h.made)
    <3>1. CASE AnyUnwindActions(q.stack, "Throw")
      <4>1. p = BackTo(h, g.stack)
        BY <1>3, <2>1, <2>5, <3>1 DEF BodyPad
      <4> QED
        BY <2>7, <4>1, BackToAll DEF Sound
    <3>2. CASE ~AnyUnwindActions(q.stack, "Throw")
      <4>1. p = [g EXCEPT !.made = 0] /\ h = [q EXCEPT !.made = 0]
        BY <1>3, <2>1, <2>5, <3>2 DEF BodyPad, NoPad
      <4>2. IsAll(p, g.stack, g.code, 0)
        BY <4>1, MadeAll DEF Sound
      <4>3. IsAll(h, q.stack, q.code, 0)
        BY <2>4, <4>1, MadeAll DEF Sound
      <4> QED
        BY <2>4, <4>2, <4>3 DEF IsAll
    <3> QED
      BY <3>1, <3>2
  <2>9. Planned(q.stack, plans[g.stack[i].id])
    <3>1. ASSUME NEW t \in Types
          PROVE  RouteAt(q.stack, Len(q.stack), "Throw", t) = RouteAt(g.stack, i - 1, "Throw", t)
      <4>1. i - 1 \in 1 .. i - 1
        BY <1>1
      <4> QED
        BY <1>1, <2>4, <4>1, RoutePrefix
    <3> QED
      BY <1>3, <2>2, <3>1 DEF BodyOK, Planned
  <2>10. StackOK(g.stack, h.code, W2, plans)
    <3>1. PICK code2 : code2 = h.code
      OBVIOUS
    <3>2. Keeps(g.code, code2) /\ KeepsActs(g.code, code2) /\ W \subseteq W2 /\ Len(code2) \in Nat /\ KeepsPlans(plans, plans)
          /\ StackOK(g.stack, g.code, W, plans)
      BY <2>4, <2>6, <2>7, <3>1, SoundIs, KeepsSelf DEF Grows, Sound
    <3>3. \A b, u, t, r : <<b, u, t, r>> \in W2 /\ <<b, u, t, r>> \notin W => WayIn(g.stack, g.code, b, u, t, r)
      BY <2>4, <2>6 DEF FreshWays, WayIn
    <3>4. StackOK(g.stack, code2, W2, plans)
      BY <1>1, <3>2, <3>3, StackGrows
    <3> QED
      BY <3>1, <3>4
  <2>11. Sound(p, W2, plans)
    BY <2>7, <2>8, <2>10 DEF Sound, IsAll
  <2>12. Grows(g, W, p, W2, plans)
    <3>1. Similar(g.stack, p.stack)
      BY <2>8, SameSelf DEF Similar, IsAll
    <3> QED
      BY <2>4, <2>6, <2>8, <2>11, <3>1 DEF Grows, IsAll
  <2> QED
    BY <2>4, <2>6, <2>8, <2>9, <2>12 DEF IsAll
<1> QED
  BY <1>2, <1>3

\* genUnwindBlock
LEMMA UnwindBlock ==
    ASSUME NEW g, NEW W, NEW plans, Sound(g, W, plans), NEW s \in Modes,
           \E i \in 1 .. Len(g.stack) : IsTerminator(g.stack[i]) /\ IsActiveForState(g.stack[i], s),
           \A i \in 1 .. Len(g.stack) : Calm(g.stack[i], s), NEW h, h = GenUnwindBlock(g, s)
    PROVE  \E W2 : Grows(g, W, h, W2, plans) /\ Goes(h, W2, s, Len(g.stack))
<1>1. IsStack(g.stack) /\ Len(g.stack) \in Nat
  BY SoundIs
<1>2. PICK start : start = UnwindStartPosition(g.stack, s)
  OBVIOUS
<1>3. Climbs(g.stack, start, s)
  BY <1>1, <1>2, StartIs
<1>4. PICK n : n = Len(g.stack) - start
  OBVIOUS
<1>5. n \in Nat
  BY <1>1, <1>3, <1>4 DEF Climbs
<1>6. PICK V : /\ V[0] = TopUnwind(g, start, s) /\ V[n] = UnwindBlocks(g, s)
               /\ \A k \in 0 .. n - 1 : V[k + 1] = GenAction(V[k], start + (k + 1), s, BodyPad(V[k], start + (k + 1)))
  BY <1>2, <1>4, <1>5, UnwindFold
<1>7. PICK P : P = [k \in 0 .. n - 1 |-> BodyPad(V[k], start + (k + 1))]
  OBVIOUS
<1>8. \A k \in 0 .. n - 1 : /\ V[k + 1] = GenAction(V[k], start + (k + 1), s, P[k])
                            /\ PassPad(V[k], start + (k + 1), s, P[k], plans)
  BY <1>6, <1>7, BodyPadPass
<1>9. \E W2 : Grows(g, W, V[0], W2, plans) /\ Goes(V[0], W2, s, start) /\ (s = "Throw" => FreshWays(g.code, W, W2))
  BY <1>3, <1>6, TopStart
<1>10. \E W2 : Grows(g, W, V[n], W2, plans) /\ Goes(V[n], W2, s, Len(g.stack)) /\ (s = "Throw" => FreshWays(g.code, W, W2))
  BY <1>3, <1>4, <1>5, <1>8, <1>9, ClimbGrows
<1>11. h = V[n]
  BY <1>6, BlocksAre
<1> QED
  BY <1>10, <1>11
=============================================================================
