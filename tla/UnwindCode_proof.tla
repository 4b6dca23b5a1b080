-------------------------- MODULE UnwindCode_proof --------------------------
(***************************************************************************)
(* Proofs about UnwindCode, second part: the emitter and the code.         *)
(*                                                                         *)
(* The emitter keeps, for each function whose statements are Covered, a    *)
(* set W of ways (see UnwindBlocks_proof) for which the code is Sound.     *)
(* Each statement leaves the blocks of others alone but where it replaces  *)
(* one that was put there for it, which is what Later says; the constructs *)
(* that are open, their places and the clauses that are still to be        *)
(* compared are described by EmitInv.  When the function is finished, what *)
(* runs is at a block of ordinary code or on a way of W (RunInv), and each *)
(* step follows the way.                                                   *)
(***************************************************************************)
EXTENDS UnwindBlocks_proof

-----------------------------------------------------------------------------
(***************************************************************************)
(* What a statement leaves of the code that was there.                     *)
(***************************************************************************)
\* Code was added.  What compares the clauses of a try stays as it is.
Later(g, W, h, W2) ==
    /\ W \subseteq W2 /\ Keeps(g.code, h.code) /\ KeepsActs(g.code, h.code)
    /\ \A b \in 1 .. Len(g.code) : g.code[b].op = "dispatch" =>
            h.code[b] = g.code[b] /\ \A s, t, r : <<b, s, t, r>> \in W2 => <<b, s, t, r>> \in W
    /\ \A b \in Len(g.code) + 1 .. Len(h.code) : h.code[b].op # "dispatch"

LEMMA LaterSelf ==
    ASSUME NEW g, NEW W, NEW plans, Sound(g, W, plans)
    PROVE  Later(g, W, g, W)
<1>1. Len(g.code) \in Nat
  BY SoundIs
<1> QED
  BY <1>1, KeepsSelf DEF Later

LEMMA LaterGrows ==
    ASSUME NEW g, NEW W, NEW plans, Sound(g, W, plans), NEW h, NEW W2, Grows(g, W, h, W2, plans)
    PROVE  Sound(h, W2, plans) /\ Later(g, W, h, W2) /\ Similar(g.stack, h.stack)
<1>1. ASSUME NEW b \in 1 .. Len(g.code), g.code[b].op = "dispatch", NEW s, NEW t, NEW r, <<b, s, t, r>> \in W2,
             <<b, s, t, r>> \notin W
      PROVE  FALSE
  <2>1. Len(g.code) \in Nat
    BY SoundIs
  <2>2. b > Len(g.code) \/ g.code[b].op = "act"
    BY <1>1 DEF Grows, ActWays
  <2> QED
    BY <1>1, <2>1, <2>2
<1>2. \A b \in 1 .. Len(g.code) : g.code[b].op = "dispatch" => h.code[b] = g.code[b]
  BY DEF Grows, Frozen
<1>3. \A b \in Len(g.code) + 1 .. Len(h.code) : h.code[b].op # "dispatch"
  BY DEF Grows, Frozen
<1> QED
  BY <1>1, <1>2, <1>3 DEF Grows, Later

LEMMA LaterTwice ==
    ASSUME NEW g, NEW W, NEW h, NEW W2, NEW k, NEW W3, Len(g.code) \in Nat, Len(h.code) \in Nat, Len(k.code) \in Nat,
           Later(g, W, h, W2), Later(h, W2, k, W3)
    PROVE  Later(g, W, k, W3)
<1>2. Len(g.code) <= Len(h.code) /\ \A b \in 1 .. Len(g.code) : h.code[b].op = g.code[b].op
  BY DEF Later, Keeps
<1>3. Len(h.code) <= Len(k.code) /\ \A b \in 1 .. Len(h.code) : k.code[b].op = h.code[b].op
  BY DEF Later, Keeps
<1>4. \A b \in 1 .. Len(g.code) : b \in 1 .. Len(h.code)
  BY <1>2
<1>5. Keeps(g.code, k.code)
  BY <1>2, <1>3, <1>4 DEF Keeps
<1>6. KeepsActs(g.code, k.code)
  BY <1>2, <1>4 DEF KeepsActs, Later
<1>7. ASSUME NEW b \in 1 .. Len(g.code), g.code[b].op = "dispatch"
      PROVE  k.code[b] = g.code[b] /\ \A s, t, r : <<b, s, t, r>> \in W3 => <<b, s, t, r>> \in W
  <2>1. h.code[b] = g.code[b] /\ \A s, t, r : <<b, s, t, r>> \in W2 => <<b, s, t, r>> \in W
    BY <1>7 DEF Later
  <2>2. k.code[b] = h.code[b] /\ \A s, t, r : <<b, s, t, r>> \in W3 => <<b, s, t, r>> \in W2
    BY <1>4, <1>7, <2>1 DEF Later
  <2> QED
    BY <2>1, <2>2
<1>8. ASSUME NEW b \in Len(g.code) + 1 .. Len(k.code) PROVE k.code[b].op # "dispatch"
  <2>1. CASE b \in 1 .. Len(h.code)
    <3>1. b \in Len(g.code) + 1 .. Len(h.code)
      BY <2>1
    <3>2. h.code[b].op # "dispatch"
      BY <3>1 DEF Later
    <3> QED
      BY <1>3, <2>1, <3>2
  <2>2. CASE b \notin 1 .. Len(h.code)
    <3>1. b \in Len(h.code) + 1 .. Len(k.code)
      BY <2>2
    <3> QED
      BY <3>1 DEF Later
  <2> QED
    BY <2>1, <2>2
<1>9. W \subseteq W3
  BY DEF Later
<1> QED
  BY <1>5, <1>6, <1>7, <1>8, <1>9 DEF Later

\* The code of a sound emitter changes, and none of the ways.
LEMMA CodeSound ==
    ASSUME NEW g, NEW W, NEW plans, Sound(g, W, plans), NEW h, IsEmitter(h), h.stack = g.stack,
           CodeOK(h.code, W, plans), Keeps(g.code, h.code), KeepsActs(g.code, h.code)
    PROVE  Sound(h, W, plans)
<1>1. PICK code2 : code2 = h.code
  OBVIOUS
<1>2. /\ Len(g.code) \in Nat /\ Len(code2) \in Nat /\ Keeps(g.code, code2) /\ KeepsActs(g.code, code2)
      /\ StackOK(g.stack, g.code, W, plans) /\ KeepsPlans(plans, plans)
  BY <1>1, SoundIs, CodeIs, KeepsSelf DEF Sound, CodeOK
<1>3. StackOK(g.stack, code2, W, plans)
  <2>1. PICK W2 : W2 = W
    OBVIOUS
  <2>2. W \subseteq W2 /\ \A b, u, t, r : <<b, u, t, r>> \in W2 /\ <<b, u, t, r>> \notin W => WayIn(g.stack, g.code, b, u, t, r)
    BY <2>1
  <2>3. StackOK(g.stack, code2, W2, plans)
    BY <1>2, <2>2, StackGrows
  <2> QED
    BY <2>1, <2>3
<1> QED
  BY <1>1, <1>3 DEF Sound

\* Flow
WithSucc(c, n) == [c EXCEPT !.succ = @ \cup {n}]

LEMMA SuccIs ==
    ASSUME NEW c, PointForm(c), NEW n
    PROVE  WithSucc(c, n) = [op |-> "point", succ |-> c.succ \cup {n}]
<1>1. PICK succ : c = [op |-> "point", succ |-> succ]
  BY DEF PointForm
<1>2. PICK more : more = c.succ \cup {n}
  OBVIOUS
<1>3. WithSucc(c, n) = [c EXCEPT !.succ = more]
  BY <1>2 DEF WithSucc
<1>4. [c EXCEPT !.succ = more] = [op |-> "point", succ |-> more]
  BY <1>1
<1> QED
  BY <1>2, <1>3, <1>4

LEMMA FlowAll ==
    ASSUME NEW g, IsEmitter(g), NEW p, p # 0, NEW n, NEW h, h = Flow(g, p, n)
    PROVE  IsAll(h, g.stack, Replaced(g.code, p, WithSucc(g.code[p], n)), g.made)
<1> DEFINE code2 == Replaced(g.code, p, WithSucc(g.code[p], n))
<1>1. h = [g EXCEPT !.code = code2]
  BY Zenon DEF Flow, Replaced, WithSucc
<1> HIDE DEF code2
<1>2. PICK stack, code, made : stack = g.stack /\ code = g.code /\ made = g.made
  OBVIOUS
<1>3. g = [stack |-> stack, code |-> code, made |-> made]
  BY <1>2 DEF IsEmitter, Emitter
<1>4. h = [stack |-> stack, code |-> code2, made |-> made]
  BY <1>1, <1>3
<1>5. h = Emitter(stack, code2, made)
  BY <1>4 DEF Emitter
<1>6. IsEmitter(h) /\ h.stack = stack /\ h.code = code2 /\ h.made = made
  BY <1>5, EmitterIs
<1> QED
  BY <1>2, <1>6 DEF IsAll, code2

LEMMA FlowLater ==
    ASSUME NEW g, NEW W, NEW plans, Sound(g, W, plans), NEW p, p = 0 \/ IsPoint(g.code, p),
           NEW n \in 1 .. Len(g.code), g.code[n].op \in Ordinary, NEW h, h = Flow(g, p, n)
    PROVE  /\ Sound(h, W, plans) /\ Later(g, W, h, W) /\ h.stack = g.stack /\ h.made = g.made
           /\ Len(h.code) = Len(g.code)
<1>1. CASE p = 0
  BY <1>1, LaterSelf DEF Flow
<1>2. CASE p # 0
  <2>1. p \in 3 .. Len(g.code) /\ g.code[p].op = "point" /\ IsCode(g.code) /\ Len(g.code) \in Nat /\ p \in 1 .. Len(g.code)
        /\ CodeOK(g.code, W, plans)
    <3>1. p \in 3 .. Len(g.code) /\ g.code[p].op = "point"
      BY <1>2 DEF IsPoint
    <3>2. Len(g.code) \in Nat
      BY SoundIs
    <3> QED
      BY <3>1, <3>2 DEF Sound, CodeOK
  <2>2. PICK c, d : c = g.code[p] /\ d = WithSucc(c, n)
    OBVIOUS
  <2>3. IsAll(h, g.stack, Replaced(g.code, p, d), g.made)
    BY <1>2, <2>2, FlowAll DEF Sound
  <2>4. PointOK(g.code, p, c) /\ PointForm(c)
    BY <2>1, <2>2 DEF CodeOK, BlockOK, PointOK
  <2>5. d = [op |-> "point", succ |-> c.succ \cup {n}]
    BY <2>2, <2>4, SuccIs
  <2>6. PICK code2 : code2 = Replaced(g.code, p, d)
    OBVIOUS
  <2>7. IsCode(code2) /\ Len(code2) = Len(g.code) /\ code2[p] = d /\ \A x \in 1 .. Len(g.code) : x # p => code2[x] = g.code[x]
    BY <2>1, <2>6, CodeExcept
  <2>8. d.op = "point" /\ g.code[p].op = "point" /\ PointForm(d) /\ \A m \in d.succ : m \in c.succ \/ m = n
    BY <2>1, <2>5 DEF PointForm
  <2>9. \A x \in 1 .. Len(g.code) : code2[x].op = g.code[x].op
    BY <2>7, <2>8
  <2>10. BlockOK(code2, W, plans, p, d)
    <3>1. \A m \in d.succ : m \in 1 .. Len(code2) /\ code2[m].op \in Ordinary
      BY <2>4, <2>7, <2>8, <2>9 DEF PointOK
    <3>2. p \notin {Returned, Resumed}
      BY <2>1 DEF Returned, Resumed
    <3> QED
      BY <2>8, <3>1, <3>2 DEF BlockOK, PointOK, Ops
  <2>11. \A s, t, r : <<p, s, t, r>> \notin W
    <3>1. SUFFICES ASSUME NEW s, NEW t, NEW r, <<p, s, t, r>> \in W PROVE FALSE
      OBVIOUS
    <3>2. WayOK(g.code, W, g.code[p], s, t, r)
      BY <2>1, <3>1, Zenon DEF CodeOK
    <3> QED
      BY <2>1, <3>2 DEF WayOK
  <2>12. CodeOK(code2, W, plans) /\ Keeps(g.code, code2)
    <3>1. PICK V : V = W
      OBVIOUS
    <3>2. /\ W \subseteq V /\ \A x, s, t, r : <<x, s, t, r>> \in V /\ <<x, s, t, r>> \notin W => x = p
          /\ \A s, t, r : <<p, s, t, r>> \in V => WayOK(code2, V, d, s, t, r)
          /\ BlockOK(code2, V, plans, p, d)
      BY <2>10, <2>11, <3>1
    <3>3. d.op = g.code[p].op
      BY <2>8
    <3>4. CodeOK(code2, V, plans) /\ Keeps(g.code, code2)
      BY <2>1, <2>6, <3>2, <3>3, CodeChange
    <3> QED
      BY <3>1, <3>4
  <2>13. KeepsActs(g.code, code2)
    BY <2>7, <2>8 DEF KeepsActs
  <2>14. h.code = code2 /\ h.stack = g.stack /\ h.made = g.made /\ IsEmitter(h)
    BY <2>3, <2>6 DEF IsAll
  <2>15. Sound(h, W, plans)
    BY <2>12, <2>13, <2>14, CodeSound
  <2>16. Later(g, W, h, W)
    BY <2>1, <2>7, <2>8, <2>12, <2>13, <2>14 DEF Later
  <2> QED
    BY <2>7, <2>14, <2>15, <2>16
<1> QED
  BY <1>1, <1>2

\* NewPoints
WithPoints(code, n) == code \o [i \in 1 .. n |-> Point]

LEMMA PointsAre ==
    ASSUME NEW code, IsCode(code), NEW n \in Nat, NEW code2, code2 = WithPoints(code, n)
    PROVE  /\ IsCode(code2) /\ Len(code2) = Len(code) + n
           /\ \A b \in 1 .. Len(code) : code2[b] = code[b]
           /\ \A b \in Len(code) + 1 .. Len(code) + n : code2[b] = Point
<1>1. PICK S : code \in Seq(S)
  BY DEF IsCode
<1> DEFINE T == S \cup {Point}
           new == [i \in 1 .. n |-> Point]
<1>2. new \in Seq(T) /\ Len(new) = n
  OBVIOUS
<1>3. code \in Seq(T) /\ Len(code) \in Nat
  BY <1>1
<1>4. code2 \in Seq(T) /\ Len(code2) = Len(code) + n
  <2> HIDE DEF T
  <2>1. code2 = code \o new
    BY DEF WithPoints
  <2> HIDE DEF new
  <2> QED
    BY <1>2, <1>3, <2>1, ConcatProperties
<1>5. \A b \in 1 .. Len(code) : code2[b] = code[b]
  <2> HIDE DEF T
  <2>1. code2 = code \o new
    BY DEF WithPoints
  <2> HIDE DEF new
  <2> QED
    BY <1>2, <1>3, <2>1
<1>6. ASSUME NEW b \in Len(code) + 1 .. Len(code) + n PROVE code2[b] = Point
  <2>1. b - Len(code) \in 1 .. n
    BY <1>3
  <2>2. new[b - Len(code)] = Point
    BY <2>1
  <2>3. code2 = code \o new
    BY DEF WithPoints
  <2> HIDE DEF new, T
  <2>4. code2[b] = new[b - Len(code)]
    BY <1>2, <1>3, <2>3
  <2> QED
    BY <2>2, <2>4
<1> QED
  BY <1>4, <1>5, <1>6 DEF IsCode

LEMMA PointsAll ==
    ASSUME NEW g, IsEmitter(g), NEW n, NEW h, h = NewPoints(g, n)
    PROVE  IsAll(h, g.stack, WithPoints(g.code, n), g.made)
<1> DEFINE code2 == WithPoints(g.code, n)
<1>1. h = [g EXCEPT !.code = code2]
  BY Zenon DEF NewPoints, WithPoints
<1> HIDE DEF code2
<1>2. PICK stack, code, made : stack = g.stack /\ code = g.code /\ made = g.made
  OBVIOUS
<1>3. g = [stack |-> stack, code |-> code, made |-> made]
  BY <1>2 DEF IsEmitter, Emitter
<1>4. h = [stack |-> stack, code |-> code2, made |-> made]
  BY <1>1, <1>3
<1>5. h = Emitter(stack, code2, made)
  BY <1>4 DEF Emitter
<1>6. IsEmitter(h) /\ h.stack = stack /\ h.code = code2 /\ h.made = made
  BY <1>5, EmitterIs
<1> QED
  BY <1>2, <1>6 DEF IsAll, code2

LEMMA PointsLater ==
    ASSUME NEW g, NEW W, NEW plans, Sound(g, W, plans), NEW n \in Nat, NEW h, h = NewPoints(g, n)
    PROVE  /\ Sound(h, W, plans) /\ Later(g, W, h, W) /\ h.stack = g.stack /\ h.made = g.made
           /\ Len(h.code) = Len(g.code) + n
           /\ \A b \in Len(g.code) + 1 .. Len(g.code) + n : IsPoint(h.code, b)
<1>1. IsCode(g.code) /\ Len(g.code) \in Nat /\ CodeOK(g.code, W, plans) /\ 2 <= Len(g.code)
  BY SoundIs DEF Sound, CodeOK, StackOK, Ground
<1>2. PICK code2 : code2 = WithPoints(g.code, n)
  OBVIOUS
<1>3. h.code = code2 /\ h.stack = g.stack /\ h.made = g.made /\ IsEmitter(h)
  BY <1>2, PointsAll DEF Sound, IsAll
<1>4. /\ IsCode(code2) /\ Len(code2) = Len(g.code) + n
      /\ \A b \in 1 .. Len(g.code) : code2[b] = g.code[b]
      /\ \A b \in Len(g.code) + 1 .. Len(g.code) + n : code2[b] = Point
  <2>1. PICK code : code = g.code
    OBVIOUS
  <2>2. IsCode(code) /\ code2 = WithPoints(code, n)
    BY <1>1, <1>2, <2>1
  <2>3. /\ IsCode(code2) /\ Len(code2) = Len(code) + n
        /\ \A b \in 1 .. Len(code) : code2[b] = code[b]
        /\ \A b \in Len(code) + 1 .. Len(code) + n : code2[b] = Point
    BY <2>2, PointsAre, ZenonT(60)
  <2> QED
    BY <2>1, <2>3
<1>5. Keeps(g.code, code2) /\ KeepsActs(g.code, code2) /\ Len(code2) \in Nat
  BY <1>1, <1>4 DEF Keeps, KeepsActs
<1>6. Point.op = "point" /\ Point.succ = {} /\ PointForm(Point)
  BY DEF Point, PointForm
<1>7. CodeOK(code2, W, plans)
  <2>1. ASSUME NEW b \in 1 .. Len(code2) PROVE BlockOK(code2, W, plans, b, code2[b])
    <3>1. CASE b \in 1 .. Len(g.code)
      <4>1. PICK V, Q : V = W /\ Q = plans
        OBVIOUS
      <4>2. W \subseteq V /\ KeepsPlans(plans, Q) /\ BlockOK(g.code, W, plans, b, g.code[b])
        BY <1>1, <3>1, <4>1, KeepsSelf DEF CodeOK
      <4>3. BlockOK(code2, V, Q, b, g.code[b])
        BY <1>1, <1>5, <4>2, BlockMore
      <4> QED
        BY <1>4, <3>1, <4>1, <4>3
    <3>2. CASE b \notin 1 .. Len(g.code)
      <4>1. b \in Len(g.code) + 1 .. Len(g.code) + n
        BY <1>1, <1>4, <3>2
      <4>2. code2[b] = Point
        BY <1>4, <4>1
      <4> QED
        BY <1>6, <4>2 DEF BlockOK, PointOK, Ops
    <3> QED
      BY <3>1, <3>2
  <2>2. ASSUME NEW b, NEW s, NEW t, NEW r, <<b, s, t, r>> \in W
        PROVE  b \in 1 .. Len(code2) /\ WayOK(code2, W, code2[b], s, t, r)
    <3>1. b \in 1 .. Len(g.code) /\ WayOK(g.code, W, g.code[b], s, t, r)
      BY <1>1, <2>2, Zenon DEF CodeOK
    <3>2. PICK V, c : V = W /\ c = g.code[b]
      OBVIOUS
    <3>3. W \subseteq V /\ WayOK(g.code, W, c, s, t, r)
      BY <3>1, <3>2
    <3>4. WayOK(code2, V, c, s, t, r)
      BY <1>1, <1>5, <3>3, WayMore
    <3> QED
      BY <1>1, <1>4, <3>1, <3>2, <3>4
  <2> QED
    BY <1>4, <2>1, <2>2 DEF CodeOK
<1>8. Sound(h, W, plans)
  BY <1>3, <1>5, <1>7, CodeSound
<1>9. Later(g, W, h, W)
  BY <1>1, <1>3, <1>4, <1>5, <1>6 DEF Later
<1>10. ASSUME NEW b \in Len(g.code) + 1 .. Len(g.code) + n PROVE IsPoint(h.code, b)
  BY <1>1, <1>3, <1>4, <1>6 DEF IsPoint
<1> QED
  BY <1>3, <1>4, <1>8, <1>9, <1>10

-----------------------------------------------------------------------------
(***************************************************************************)
(* Actions are pushed.                                                     *)
(***************************************************************************)
\* Nothing was generated for the action.
IsNew(a) == (\A s \in States : a.block[s] = 0) /\ (\A s \in ExceptionStates : a.pad[s] = 0)

LEMMA StackExtends ==
    ASSUME NEW stack, NEW code, NEW W, NEW plans, StackOK(stack, code, W, plans), Len(code) \in Nat,
           NEW stack2, IsStack(stack2), Len(stack) <= Len(stack2),
           \A i \in 1 .. Len(stack) : stack2[i] = stack[i],
           \A i \in Len(stack) + 1 .. Len(stack2) :
                IsNew(stack2[i]) /\ MarkOK(code, stack2[i]) /\ BodyOK(stack2, plans, i) /\ CatchOK(stack2, W, i)
    PROVE  StackOK(stack2, code, W, plans)
<1>1. /\ IsStack(stack) /\ Len(stack) \in Nat \ {0} /\ Len(stack2) \in Nat /\ stack2 \in Seq(Acts) /\ stack \in Seq(Acts)
      /\ \A i \in 1 .. Len(stack) : i \in 1 .. Len(stack2)
  BY DEF StackOK, IsStack
<1>2. stack = Prefix(stack2, Len(stack))
  <2>1. PICK n : n = Len(stack)
    OBVIOUS
  <2>2. n \in 1 .. Len(stack2)
    BY <1>1, <2>1
  <2>3. IsStack(Prefix(stack2, n)) /\ Len(Prefix(stack2, n)) = n /\ \A i \in 1 .. n : Prefix(stack2, n)[i] = stack2[i]
    BY <2>2, PrefixIs
  <2>4. PICK p : p = Prefix(stack2, n)
    OBVIOUS
  <2>5. p \in Seq(Acts) /\ Len(p) = n /\ \A i \in 1 .. n : p[i] = stack[i]
    BY <2>1, <2>3, <2>4 DEF IsStack
  <2>6. p = stack
    BY <1>1, <2>1, <2>5, SeqEqual
  <2> QED
    BY <2>1, <2>4, <2>6
<1>3. ASSUME NEW i \in 1 .. Len(stack), NEW s, NEW t
      PROVE  RouteAt(stack2, i, s, t) = RouteAt(stack, i, s, t) /\ (EndsAt(stack2, i, s, t) <=> EndsAt(stack, i, s, t))
  <2>1. RouteAt(stack2, i, s, t) = RouteAt(stack, i, s, t)
    <3>1. PICK n : n = Len(stack)
      OBVIOUS
    <3>2. n \in 1 .. Len(stack2) /\ i \in 1 .. n
      BY <1>1, <3>1
    <3>3. RouteAt(Prefix(stack2, n), i, s, t) = RouteAt(stack2, i, s, t)
      BY <3>2, RoutePrefix
    <3> QED
      BY <1>2, <3>1, <3>3
  <2>2. \A j \in 1 .. i : stack2[j] = stack[j]
    BY <1>1
  <2> QED
    BY <2>1, <2>2 DEF EndsAt
<1>4. \A i \in Len(stack) + 1 .. Len(stack2), s \in Modes : stack2[i].block[s] = 0 /\ ~Made(stack2[i], s)
  BY DEF IsNew, Made, Modes
<1>5. \A i \in 1 .. Len(stack2) : i \in 1 .. Len(stack) \/ i \in Len(stack) + 1 .. Len(stack2)
  BY <1>1
<1>6. \A i \in 1 .. Len(stack2), s \in Modes : stack2[i].block[s] <= Len(code)
  BY <1>4, <1>5 DEF StackOK
<1>7. ASSUME NEW i \in 1 .. Len(stack2), NEW s \in Modes, Made(stack2[i], s) PROVE PlaceOK(stack2, code, W, i, s)
  <2>1. i \in 1 .. Len(stack)
    BY <1>4, <1>5, <1>7
  <2>2. PlaceOK(stack, code, W, i, s) /\ stack2[i] = stack[i]
    BY <1>7, <2>1 DEF StackOK
  <2> QED
    BY <1>3, <2>1, <2>2 DEF PlaceOK
<1>8. Apart(stack2)
  <2>1. SUFFICES ASSUME NEW i \in 1 .. Len(stack2), NEW j \in 1 .. Len(stack2), NEW s \in Modes, NEW u \in Modes,
                        Made(stack2[i], s), ~IsTerminator(stack2[i]), Made(stack2[j], u),
                        stack2[j].block[u] = stack2[i].block[s]
                 PROVE  i = j /\ (u = "Throw" <=> s = "Throw")
    BY DEF Apart
  <2>2. i \in 1 .. Len(stack) /\ j \in 1 .. Len(stack)
    BY <1>4, <1>5, <2>1
  <2>3. Apart(stack) /\ stack2[i] = stack[i] /\ stack2[j] = stack[j]
    BY <2>2 DEF StackOK
  <2> QED
    BY <2>1, <2>2, <2>3 DEF Apart
<1>9. ASSUME NEW i \in 1 .. Len(stack2)
      PROVE  MarkOK(code, stack2[i]) /\ BodyOK(stack2, plans, i) /\ CatchOK(stack2, W, i) /\ PadOK(stack2, code, W, i)
  <2>1. CASE i \in Len(stack) + 1 .. Len(stack2)
    <3>1. PadOK(stack2, code, W, i)
      BY <2>1 DEF IsNew, PadOK, ExceptionStates
    <3> QED
      BY <2>1, <3>1
  <2>2. CASE i \in 1 .. Len(stack)
    <3>1. MarkOK(code, stack[i]) /\ BodyOK(stack, plans, i) /\ CatchOK(stack, W, i) /\ PadOK(stack, code, W, i) /\ stack2[i] = stack[i]
      BY <2>2 DEF StackOK
    <3>2. BodyOK(stack2, plans, i)
      <4>1. stack[i].body = "mayThrow" => i - 1 \in 1 .. Len(stack)
        BY <1>1, <2>2, <3>1 DEF BodyOK, IsStack
      <4> QED
        BY <1>3, <3>1, <4>1 DEF BodyOK
    <3>3. CatchOK(stack2, W, i)
      <4>1. i # Len(stack) => i + 1 \in 1 .. Len(stack)
        BY <1>1, <2>2
      <4>2. i = Len(stack) \/ stack2[i + 1] = stack[i + 1]
        BY <4>1
      <4>3. i = Len(stack2) => i = Len(stack)
        BY <1>1, <2>2
      <4> QED
        BY <1>3, <2>2, <3>1, <4>2, <4>3 DEF CatchOK
    <3>4. PadOK(stack2, code, W, i)
      BY <1>3, <2>2, <3>1 DEF PadOK
    <3> QED
      BY <3>1, <3>2, <3>3, <3>4
  <2> QED
    BY <1>5, <2>1, <2>2
<1>10. Ground(code)
  BY DEF StackOK
<1> QED
  BY <1>6, <1>7, <1>8, <1>9, <1>10 DEF StackOK

Joined(stack, new, stack2) ==
    /\ IsStack(stack2) /\ Len(stack2) = Len(stack) + Len(new) /\ Len(stack) <= Len(stack2)
    /\ \A i \in 1 .. Len(stack) : stack2[i] = stack[i]
    /\ \A i \in Len(stack) + 1 .. Len(stack2) : i - Len(stack) \in 1 .. Len(new) /\ stack2[i] = new[i - Len(stack)]
\* What may be put onto a stack.
Stackable(new) ==
    /\ new \in Seq(Acts)
    /\ \A i \in 1 .. Len(new) : new[i].kind # "FUNCTIONMARKER" /\ (new[i].kind = "CATCH" => new[i].type \in Types)

LEMMA ExtendedStack ==
    ASSUME NEW stack, IsStack(stack), NEW new, Stackable(new)
    PROVE  Joined(stack, new, stack \o new)
<1> DEFINE stack2 == stack \o new
<1>0. new \in Seq(Acts) /\ \A i \in 1 .. Len(new) : new[i].kind # "FUNCTIONMARKER" /\ (new[i].kind = "CATCH" => new[i].type \in Types)
  BY DEF Stackable
<1>1. stack \in Seq(Acts) /\ Len(stack) \in Nat \ {0} /\ Len(new) \in Nat
  BY <1>0 DEF IsStack
<1>2. stack2 \in Seq(Acts) /\ Len(stack2) = Len(stack) + Len(new)
  BY <1>0, <1>1, ConcatProperties
<1>3. \A i \in 1 .. Len(stack) : stack2[i] = stack[i]
  BY <1>0, <1>1
<1>4. \A i \in Len(stack) + 1 .. Len(stack2) : i - Len(stack) \in 1 .. Len(new) /\ stack2[i] = new[i - Len(stack)]
  BY <1>0, <1>1, <1>2
<1> HIDE DEF stack2
<1>5. ASSUME NEW i \in 1 .. Len(stack2)
      PROVE  (stack2[i].kind = "FUNCTIONMARKER" <=> i = 1) /\ (stack2[i].kind = "CATCH" => stack2[i].type \in Types)
  <2>1. i \in 1 .. Len(stack) \/ (i \in Len(stack) + 1 .. Len(stack2) /\ i # 1)
    BY <1>1, <1>2
  <2> QED
    BY <1>0, <1>3, <1>4, <2>1 DEF IsStack
<1>6. Joined(stack, new, stack2)
  BY <1>1, <1>2, <1>3, <1>4, <1>5 DEF IsStack, Joined
<1> QED
  BY <1>6 DEF stack2

LEMMA PlansSound ==
    ASSUME NEW g, NEW W, NEW plans, Sound(g, W, plans), NEW plans2, KeepsPlans(plans, plans2)
    PROVE  Sound(g, W, plans2)
<1>1. IsCode(g.code) /\ Len(g.code) \in Nat /\ CodeOK(g.code, W, plans) /\ StackOK(g.stack, g.code, W, plans) /\ IsEmitter(g)
  BY SoundIs DEF Sound, CodeOK
<1>2. PICK code, V : code = g.code /\ V = W
  OBVIOUS
<1>3. Len(code) \in Nat /\ Keeps(g.code, code) /\ KeepsActs(g.code, code) /\ W \subseteq V
  BY <1>1, <1>2, KeepsSelf
<1>4. \A b \in 1 .. Len(code) : BlockOK(code, V, plans2, b, code[b])
  <2>1. SUFFICES ASSUME NEW b \in 1 .. Len(code), NEW c, c = code[b] PROVE BlockOK(code, V, plans2, b, c)
    OBVIOUS
  <2>2. BlockOK(g.code, W, plans, b, c)
    BY <1>1, <1>2, <2>1 DEF CodeOK
  <2> QED
    BY <1>1, <1>3, <2>2, BlockMore
<1>5. CodeOK(code, V, plans2)
  BY <1>1, <1>2, <1>4 DEF CodeOK
<1>6. StackOK(g.stack, code, V, plans2)
  <2>1. \A b, u, t, r : <<b, u, t, r>> \in V /\ <<b, u, t, r>> \notin W => WayIn(g.stack, g.code, b, u, t, r)
    BY <1>2
  <2> QED
    BY <1>1, <1>3, <2>1, StackGrows
<1> QED
  BY <1>1, <1>2, <1>5, <1>6 DEF Sound

LEMMA PushAll ==
    ASSUME NEW g, IsEmitter(g), NEW a, NEW h, h = Push(g, a)
    PROVE  IsAll(h, Append(g.stack, a), g.code, g.made)
<1>1. PICK stack2 : stack2 = Append(g.stack, a)
  OBVIOUS
<1>2. h = BackTo(g, stack2)
  BY <1>1, Zenon DEF Push, BackTo
<1> QED
  BY <1>1, <1>2, BackToAll

\* The action that is pushed is as it should be.
Pushable(g, plans, a) ==
    /\ a \in Acts /\ IsNew(a) /\ a.kind \notin {"FUNCTIONMARKER", "CATCH"} /\ MarkOK(g.code, a)
    /\ a.body # "plain" => a.kind = "SCOPEEXIT"
    /\ a.body \in {"try", "mayThrow"} => a.when = "success"
    /\ a.body = "mayThrow" => a.id \in DOMAIN plans /\ Planned(g.stack, plans[a.id])

LEMMA PushSound ==
    ASSUME NEW g, NEW W, NEW plans, Sound(g, W, plans), NEW a, Pushable(g, plans, a), NEW h, h = Push(g, a)
    PROVE  /\ Sound(h, W, plans) /\ h.code = g.code /\ h.made = g.made
           /\ Len(h.stack) = Len(g.stack) + 1 /\ h.stack[Len(g.stack) + 1] = a
           /\ \A i \in 1 .. Len(g.stack) : h.stack[i] = g.stack[i]
<1>1. IsStack(g.stack) /\ Len(g.stack) \in Nat \ {0} /\ Len(g.code) \in Nat /\ g.stack \in Seq(Acts)
  BY SoundIs
<1>2. IsAll(h, Append(g.stack, a), g.code, g.made)
  BY PushAll DEF Sound
<1>3. PICK stack2, new : stack2 = h.stack /\ new = <<a>>
  OBVIOUS
<1>4. new \in Seq(Acts) /\ Len(new) = 1 /\ new[1] = a /\ a \in Acts /\ a.kind \notin {"FUNCTIONMARKER", "CATCH"}
  BY <1>3 DEF Pushable
<1>5. stack2 = g.stack \o new
  BY <1>1, <1>2, <1>3, <1>4 DEF IsAll
<1>6. /\ IsStack(stack2) /\ Len(stack2) = Len(g.stack) + Len(new) /\ Len(g.stack) <= Len(stack2)
      /\ \A i \in 1 .. Len(g.stack) : stack2[i] = g.stack[i]
      /\ \A i \in Len(g.stack) + 1 .. Len(stack2) : i - Len(g.stack) \in 1 .. Len(new) /\ stack2[i] = new[i - Len(g.stack)]
  <2>1. Stackable(new)
    BY <1>4 DEF Stackable
  <2>2. Joined(g.stack, new, g.stack \o new)
    BY <1>1, <2>1, ExtendedStack, Zenon
  <2> QED
    BY <1>5, <2>2 DEF Joined
<1>7. stack2[Len(g.stack) + 1] = a /\ \A i \in Len(g.stack) + 1 .. Len(stack2) : i = Len(g.stack) + 1 /\ stack2[i] = a
  BY <1>1, <1>4, <1>6
<1>8. ASSUME NEW i \in Len(g.stack) + 1 .. Len(stack2)
      PROVE  IsNew(stack2[i]) /\ MarkOK(g.code, stack2[i]) /\ BodyOK(stack2, plans, i) /\ CatchOK(stack2, W, i)
  <2>1. i = Len(g.stack) + 1 /\ stack2[i] = a
    BY <1>7
  <2>2. CatchOK(stack2, W, i)
    BY <1>4, <2>1 DEF CatchOK
  <2>3. BodyOK(stack2, plans, i)
    <3>1. i - 1 = Len(g.stack)
      BY <1>1, <2>1
    <3>2. ASSUME NEW t PROVE RouteAt(stack2, Len(g.stack), "Throw", t) = RouteAt(g.stack, Len(g.stack), "Throw", t)
      <4>1. PICK n : n = Len(g.stack)
        OBVIOUS
      <4>2. n \in 1 .. Len(stack2) /\ n \in 1 .. n
        BY <1>1, <1>6, <4>1
      <4>3. RouteAt(Prefix(stack2, n), n, "Throw", t) = RouteAt(stack2, n, "Throw", t)
        BY <1>6, <4>2, RoutePrefix
      <4>4. PICK p : p = Prefix(stack2, n)
        OBVIOUS
      <4>5. IsStack(p) /\ Len(p) = n /\ \A j \in 1 .. n : p[j] = g.stack[j]
        BY <1>6, <4>1, <4>2, <4>4, PrefixIs
      <4>6. p = g.stack
        BY <1>1, <4>1, <4>5, SeqEqual DEF IsStack
      <4> QED
        BY <4>1, <4>3, <4>4, <4>6
    <3> QED
      BY <2>1, <3>1, <3>2 DEF Pushable, Planned, BodyOK
  <2> QED
    BY <2>1, <2>2, <2>3 DEF Pushable
<1>9. StackOK(stack2, g.code, W, plans)
  <2>1. StackOK(g.stack, g.code, W, plans)
    BY DEF Sound
  <2> QED
    BY <1>1, <1>6, <1>8, <2>1, StackExtends
<1> QED
  BY <1>2, <1>3, <1>4, <1>6, <1>7, <1>9 DEF Sound, IsAll

-----------------------------------------------------------------------------
(***************************************************************************)
(* The actions that are pushed.                                            *)
(***************************************************************************)
LEMMA ActionIs ==
    ASSUME NEW k \in Kinds, NEW i \in Nat, NEW to \in [States -> Nat], NEW a, a = Action(k, i, to)
    PROVE  /\ a \in Acts /\ IsNew(a) /\ a.kind = k /\ a.id = i /\ a.to = to
           /\ a.when = "exit" /\ a.body = "plain" /\ a.type = "none"
           /\ a = [kind |-> k, id |-> i, when |-> "exit", body |-> "plain", type |-> "none",
                   to |-> to, block |-> [s \in States |-> 0], pad |-> [s \in ExceptionStates |-> 0]]
<1>1. [s \in States |-> 0] \in [States -> Nat] /\ [s \in ExceptionStates |-> 0] \in [ExceptionStates -> Nat]
  OBVIOUS
<1>2. "exit" \in ScopeExitStates /\ "plain" \in Bodies /\ "none" \in Types \cup {NoType}
  BY DEF ScopeExitStates, Bodies, NoType
<1> QED
  BY <1>1, <1>2 DEF Action, Acts, IsNew

LEMMA LeadsAre ==
    \A S, n : n \in Nat => /\ Leads(S, n) \in [States -> Nat] /\ Nowhere \in [States -> Nat]
                           /\ \A s \in S : s \in States => Leads(S, n)[s] = n
BY DEF Leads, Nowhere

LEMMA ScopeMarkerIs ==
    ASSUME NEW n \in Nat, NEW a, a = ScopeMarker(n)
    PROVE  a \in Acts /\ IsNew(a) /\ a.kind = "SCOPEMARKER" /\ a.body = "plain" /\ a.to["Normal"] = n
<1>1. PICK to : to = Leads({"Normal"}, n)
  OBVIOUS
<1>2. to \in [States -> Nat] /\ to["Normal"] = n /\ "SCOPEMARKER" \in Kinds
  BY <1>1, LeadsAre DEF States, Kinds, Terminators
<1> QED
  BY <1>1, <1>2, ActionIs DEF ScopeMarker

LEMMA ControlFlowIs ==
    ASSUME NEW n \in Nat, NEW m \in Nat, NEW a, a = ControlFlow(n, m)
    PROVE  a \in Acts /\ IsNew(a) /\ a.kind = "CONTROLFLOW" /\ a.body = "plain" /\ a.to["Break"] = n /\ a.to["Continue"] = m
<1>1. PICK at1 : at1 = Leads({"Break"}, n)
  OBVIOUS
<1>2. at1 \in [States -> Nat] /\ at1["Break"] = n /\ "CONTROLFLOW" \in Kinds
  BY <1>1, LeadsAre DEF States, Kinds, Terminators
<1>3. PICK to : to = [at1 EXCEPT !["Continue"] = m]
  OBVIOUS
<1>4. to \in [States -> Nat] /\ to["Break"] = n /\ to["Continue"] = m
  BY <1>2, <1>3 DEF States
<1>5. a = Action("CONTROLFLOW", 0, to)
  BY <1>1, <1>3 DEF ControlFlow
<1> QED
  BY <1>2, <1>4, <1>5, ActionIs

LEMMA FunctionMarkerIs ==
    ASSUME NEW n \in Nat, NEW m \in Nat, NEW a, a = FunctionMarker(n, m)
    PROVE  a \in Acts /\ IsNew(a) /\ a.kind = "FUNCTIONMARKER" /\ a.body = "plain" /\ a.to["Return"] = n /\ a.to["Throw"] = m
<1>1. PICK at1 : at1 = Leads({"Throw"}, m)
  OBVIOUS
<1>2. at1 \in [States -> Nat] /\ at1["Throw"] = m /\ "FUNCTIONMARKER" \in Kinds
  BY <1>1, LeadsAre DEF States, Kinds, Terminators
<1>3. PICK to : to = [at1 EXCEPT !["Return"] = n]
  OBVIOUS
<1>4. to \in [States -> Nat] /\ to["Return"] = n /\ to["Throw"] = m
  BY <1>2, <1>3 DEF States
<1>5. a = Action("FUNCTIONMARKER", 0, to)
  BY <1>1, <1>3 DEF FunctionMarker
<1> QED
  BY <1>2, <1>4, <1>5, ActionIs

LEMMA PlainIs ==
    ASSUME NEW n \in Nat
    PROVE  /\ LET a == Destructor(n) IN a \in Acts /\ IsNew(a) /\ a.kind = "DESTRUCTOR" /\ a.body = "plain" /\ a.id = n
           /\ LET a == DestroyException(n)
              IN  a \in Acts /\ IsNew(a) /\ a.kind = "DESTROYEXCEPTION" /\ a.body = "plain" /\ a.id = n
           /\ LET a == RethrowScope IN a \in Acts /\ IsNew(a) /\ a.kind = "RETHROWSCOPE" /\ a.body = "plain"
<1>1. Nowhere \in [States -> Nat] /\ {"DESTRUCTOR", "DESTROYEXCEPTION", "RETHROWSCOPE"} \subseteq Kinds /\ 0 \in Nat
  BY LeadsAre DEF Kinds, Terminators
<1> QED
  BY <1>1, ActionIs DEF Destructor, DestroyException, RethrowScope

LEMMA ScopeExitIs ==
    ASSUME NEW n \in Nat, NEW w \in ScopeExitStates, NEW y \in Bodies, NEW a, a = ScopeExit(n, w, y)
    PROVE  a \in Acts /\ IsNew(a) /\ a.kind = "SCOPEEXIT" /\ a.id = n /\ a.when = w /\ a.body = y
<1>1. Nowhere \in [States -> Nat] /\ "SCOPEEXIT" \in Kinds
  BY LeadsAre DEF Kinds, Terminators
<1>2. PICK b : b = Action("SCOPEEXIT", n, Nowhere)
  OBVIOUS
<1>3. /\ b \in Acts /\ IsNew(b) /\ b.kind = "SCOPEEXIT" /\ b.id = n
  BY <1>1, <1>2, ActionIs
<1>4. a = [b EXCEPT !.when = w, !.body = y]
  BY <1>2 DEF ScopeExit
<1> QED
  BY <1>3, <1>4 DEF Acts, IsNew

LEMMA CatchExceptionIs ==
    ASSUME NEW d \in Nat, NEW n \in Nat, NEW t \in Types, NEW a, a = CatchException(d, n, t)
    PROVE  /\ a \in Acts /\ IsNew(a) /\ a.kind = "CATCH" /\ a.id = n /\ a.body = "plain" /\ a.type = t
           /\ a.to["Throw"] = d
<1>1. PICK to : to = Leads({"Throw"}, d)
  OBVIOUS
<1>2. to \in [States -> Nat] /\ to["Throw"] = d /\ "CATCH" \in Kinds
  BY <1>1, LeadsAre DEF States, Kinds, Terminators
<1>3. PICK b : b = Action("CATCH", n, to)
  OBVIOUS
<1>4. b \in Acts /\ IsNew(b) /\ b.kind = "CATCH" /\ b.id = n /\ b.body = "plain" /\ b.to = to
  BY <1>2, <1>3, ActionIs
<1>5. a = [b EXCEPT !.type = t]
  BY <1>1, <1>3 DEF CatchException
<1> QED
  BY <1>2, <1>4, <1>5 DEF Acts, IsNew

-----------------------------------------------------------------------------
(***************************************************************************)
(* Places are left.                                                        *)
(***************************************************************************)
\* Where code is added, if anywhere.
Place(code, p) == p = 0 \/ IsPoint(code, p)

\* The block leaves its place.
Leaving(g, W, plans, c) == c.op \in {"exit", "throw"} /\ BlockOK(g.code, W, plans, 1, c)

LEMMA PointLater ==
    ASSUME NEW g, NEW W, NEW h, NEW W2, Len(g.code) \in Nat, Len(h.code) \in Nat, Later(g, W, h, W2), NEW p
    PROVE  /\ IsPoint(g.code, p) => IsPoint(h.code, p)
           /\ Place(g.code, p) => Place(h.code, p)
BY DEF Later, Keeps, IsPoint, Place

LEMMA NormalModes == \A s \in NormalStates : s \in Modes /\ s # "Throw" /\ s # Keep /\ NoType \in Keys(s) /\ Keys(s) = {NoType}
BY DEF NormalStates, Modes, States, ExceptionStates, Keys, Keep

\* A block that leaves its place is emitted, and reached from p.
LEMMA LeaveLater ==
    ASSUME NEW g, NEW W, NEW plans, Sound(g, W, plans), NEW p, Place(g.code, p),
           NEW c, Leaving(g, W, plans, c),
           NEW n, n = Len(g.code) + 1, NEW h, h = Flow(Emit(g, c), p, n)
    PROVE  Sound(h, W, plans) /\ Later(g, W, h, W) /\ h.stack = g.stack
<1>1. IsCode(g.code) /\ Len(g.code) \in Nat
  BY SoundIs DEF Sound, CodeOK
<1>0. c.op \in {"exit", "throw"} /\ BlockOK(g.code, W, plans, 1, c)
  BY DEF Leaving
<1>2. PICK e : e = Emit(g, c)
  OBVIOUS
<1>3. PICK code2 : code2 = Append(g.code, c)
  OBVIOUS
<1>4. Len(code2) = Len(g.code) + 1 /\ Keeps(g.code, code2)
  BY <1>1, <1>3, CodeAppend
<1>5. BlockOK(code2, W, plans, Len(g.code) + 1, c)
  <2>1. BlockOK(code2, W, plans, 1, c)
    <3>1. Len(code2) \in Nat /\ W \subseteq W /\ KeepsPlans(plans, plans)
      BY <1>1, <1>4, KeepsSelf
    <3> QED
      BY <1>0, <1>1, <1>4, <3>1, BlockMore
  <2> QED
    BY <1>0, <2>1 DEF BlockOK
<1>6. c.op # "dispatch" /\ c.op \in Ordinary
  BY <1>0 DEF Ordinary
<1>7. Grows(g, W, e, W, plans) /\ Emitted(g, c, e)
  BY <1>2, <1>3, <1>5, <1>6, EmitGrows
<1>8. Sound(e, W, plans) /\ Later(g, W, e, W) /\ Len(e.code) \in Nat
  BY <1>1, <1>7, LaterGrows DEF Emitted
<1>9. e.code[n] = c /\ n \in 1 .. Len(e.code) /\ e.stack = g.stack
  BY <1>1, <1>7 DEF Emitted
<1>10. Place(e.code, p)
  BY <1>1, <1>8, PointLater
<1>11. h = Flow(e, p, n) /\ e.code[n].op \in Ordinary
  BY <1>2, <1>6, <1>9
<1>12. Sound(h, W, plans) /\ Later(e, W, h, W) /\ h.stack = e.stack /\ Len(h.code) = Len(e.code)
  <2>1. p = 0 \/ IsPoint(e.code, p)
    BY <1>10 DEF Place
  <2> QED
    BY <1>8, <1>9, <1>11, <2>1, FlowLater
<1>13. Later(g, W, h, W)
  BY <1>1, <1>8, <1>12, LaterTwice
<1> QED
  BY <1>9, <1>12, <1>13

LEMMA PlanRoute ==
    ASSUME NEW stack, IsStack(stack), NEW s, NEW t
    PROVE  RouteAt(stack, Len(stack), s, t) =
                [todo |-> Plan(stack, s, t).todo, goal |-> Plan(stack, s, t).goal,
                 selector |-> IF s = "Throw" THEN HandleAction(CatchTypes(stack), t) ELSE 0]
<1>1. Len(stack) \in 1 .. Len(stack)
  BY DEF IsStack
<1>2. Prefix(stack, Len(stack)) = stack
  <2>1. PICK n : n = Len(stack)
    OBVIOUS
  <2>2. Prefix(stack, n) = stack
    BY <1>1, <2>1, PrefixIs
  <2> QED
    BY <2>1, <2>2
<1> QED
  BY <1>2 DEF RouteAt, Route, Selector

ExitBlock(g, s, next) ==
    [op |-> "exit", store |-> IF next = Returned THEN Keep ELSE UnwindStore(s), next |-> next,
     plan |-> Plan(g.stack, s, NoType)]

\* emitUnwind up to the branch.
LEMMA ExitLater ==
    ASSUME NEW g, NEW W, NEW plans, Sound(g, W, plans), NEW p, Place(g.code, p),
           NEW s \in NormalStates, NEW next, NEW r, r = RouteAt(g.stack, Len(g.stack), s, NoType),
           NEW u, u = IF next = Returned THEN "Normal" ELSE s, Reaches(g.code, W, next, u, NoType, r),
           NEW h, h = EmitExit(g, p, s, next)
    PROVE  Sound(h, W, plans) /\ Later(g, W, h, W) /\ h.stack = g.stack
<1>1. IsStack(g.stack) /\ s \in Modes /\ s # "Throw" /\ s # Keep
  BY SoundIs, NormalModes
<1>2. PICK c : c = ExitBlock(g, s, next)
  OBVIOUS
<1>3. c.op = "exit" /\ c.next = next /\ c.plan = Plan(g.stack, s, NoType)
      /\ c.store = (IF next = Returned THEN Keep ELSE UnwindStore(s))
  BY <1>2 DEF ExitBlock
<1>4. r = [todo |-> c.plan.todo, goal |-> c.plan.goal, selector |-> 0]
  <2>1. PICK stack : stack = g.stack
    OBVIOUS
  <2>2. RouteAt(stack, Len(stack), s, NoType) =
                [todo |-> Plan(stack, s, NoType).todo, goal |-> Plan(stack, s, NoType).goal,
                 selector |-> IF s = "Throw" THEN HandleAction(CatchTypes(stack), NoType) ELSE 0]
    BY <1>1, <2>1, PlanRoute
  <2> QED
    BY <1>1, <1>3, <2>1, <2>2
<1>5. c.store \in {Keep} \cup NormalStates
      /\ (IF c.store = Keep THEN "Normal" ELSE c.store) = u
  BY <1>1, <1>3 DEF UnwindStore
<1>6. ExitOK(g.code, W, c)
  BY <1>3, <1>4, <1>5 DEF ExitOK
<1>7. BlockOK(g.code, W, plans, 1, c)
  BY <1>3, <1>6 DEF BlockOK, Ops
<1>8. h = Flow(Emit(g, c), p, Len(g.code) + 1)
  BY <1>2 DEF EmitExit, ExitBlock
<1>9. PICK n : n = Len(g.code) + 1
  OBVIOUS
<1>10. Leaving(g, W, plans, c) /\ h = Flow(Emit(g, c), p, n)
  BY <1>3, <1>7, <1>8, <1>9 DEF Leaving
<1> QED
  BY <1>9, <1>10, LeaveLater

LEMMA NormalTops ==
    ASSUME NEW stack, IsStack(stack), NEW s \in NormalStates
    PROVE  \A i \in 1 .. Len(stack) : IsTerminator(stack[i]) /\ IsActiveForState(stack[i], s) => Ends(stack[i], s, NoType)
BY DEF IsStack, Acts, IsTerminator, Terminators, IsActiveForState, ActiveStates, Ends, NormalStates, States, ExceptionStates

\* No code is generated for a return that nothing has to be run for.
LEMMA QuietReturn ==
    ASSUME NEW stack, IsStack(stack), ~AnyUnwindActions(stack, "Return"), stack[1].to["Return"] = Returned
    PROVE  RouteAt(stack, Len(stack), "Return", NoType) = [todo |-> <<>>, goal |-> Returned, selector |-> 0]
<1>1. Len(stack) \in Nat \ {0} /\ DOMAIN stack = 1 .. Len(stack) /\ stack[1].kind = "FUNCTIONMARKER"
  BY DEF IsStack
<1>2. "Return" \in Modes /\ NoType \in Keys("Return")
  BY DEF Modes, States, Keys
<1>3. Ends(stack[1], "Return", NoType)
  BY <1>1 DEF Ends
<1>4. RouteAt(stack, 1, "Return", NoType) = [todo |-> <<>>, goal |-> Returned, selector |-> 0]
  <2>1. 1 \in 1 .. Len(stack)
    BY <1>1
  <2> QED
    BY <1>1, <1>2, <1>3, <2>1, RouteEnd
<1>5. EndsAt(stack, 1, "Return", NoType)
  BY <1>3 DEF EndsAt
<1>6. \A j \in 2 .. Len(stack) : ~IsActiveForState(stack[j], "Return")
  BY <1>1 DEF AnyUnwindActions, ActivePositions
<1>7. PICK n : n = Len(stack)
  OBVIOUS
<1>8. n \in 1 .. Len(stack) /\ 1 \in 1 .. Len(stack) /\ \A j \in 1 + 1 .. n : ~IsActiveForState(stack[j], "Return")
  BY <1>1, <1>6, <1>7
<1>9. RouteAt(stack, n, "Return", NoType) = RouteAt(stack, 1, "Return", NoType)
  BY <1>2, <1>5, <1>8, QuietAbove
<1> QED
  BY <1>4, <1>7, <1>9

\* genUnwind and emitReturn
LEMMA UnwindLater ==
    ASSUME NEW g, NEW W, NEW plans, Sound(g, W, plans), NEW p, Place(g.code, p), NEW s \in NormalStates,
           \E i \in 1 .. Len(g.stack) : IsTerminator(g.stack[i]) /\ IsActiveForState(g.stack[i], s),
           \A i \in 1 .. Len(g.stack) : Calm(g.stack[i], s), NEW h, h = EmitUnwind(g, p, s)
    PROVE  \E W2 : Sound(h, W2, plans) /\ Later(g, W, h, W2) /\ Similar(g.stack, h.stack)
<1>1. /\ IsStack(g.stack) /\ Len(g.code) \in Nat /\ Len(g.stack) \in Nat \ {0}
      /\ s \in Modes /\ s # "Throw" /\ NoType \in Keys(s)
      /\ \A i \in 1 .. Len(g.stack) : MarkOK(g.code, g.stack[i])
      /\ Ground(g.code)
  BY SoundIs, NormalModes DEF Sound, StackOK
<1>2. CASE s = "Return" /\ ~AnyUnwindActions(g.stack, s)
  <2>1. h = EmitExit(g, p, s, Returned)
    BY <1>2 DEF EmitUnwind
  <2>2. g.stack[1].kind = "FUNCTIONMARKER" /\ g.stack[1].to["Return"] = Returned
    BY <1>1 DEF IsStack, MarkOK
  <2>3. PICK r : r = RouteAt(g.stack, Len(g.stack), s, NoType)
    OBVIOUS
  <2>4. r.todo = <<>> /\ r.goal = Returned
    <3>1. RouteAt(g.stack, Len(g.stack), "Return", NoType) = [todo |-> <<>>, goal |-> Returned, selector |-> 0]
      BY <1>1, <1>2, <2>2, QuietReturn
    <3> QED
      BY <1>2, <2>3, <3>1
  <2>5. Reaches(g.code, W, Returned, "Normal", NoType, r)
    BY <1>1, <2>4 DEF Reaches, Arrived, Ground, Returned
  <2>6. PICK next : next = Returned
    OBVIOUS
  <2>7. PICK u : u = IF next = Returned THEN "Normal" ELSE s
    OBVIOUS
  <2>77. Reaches(g.code, W, next, u, NoType, r) /\ h = EmitExit(g, p, s, next)
    BY <2>1, <2>5, <2>6, <2>7
  <2>8. Sound(h, W, plans) /\ Later(g, W, h, W) /\ h.stack = g.stack
    BY <2>3, <2>7, <2>77, ExitLater
  <2>9. Similar(g.stack, h.stack)
    BY <2>8, SameSelf DEF Similar
  <2> QED
    BY <2>8, <2>9
<1>3. CASE ~(s = "Return" /\ ~AnyUnwindActions(g.stack, s))
  <2>1. PICK k : k = GenUnwindBlock(g, s)
    OBVIOUS
  <2>2. h = EmitExit(k, p, s, k.made)
    BY <1>3, <2>1 DEF EmitUnwind
  <2>3. PICK W2 : Grows(g, W, k, W2, plans) /\ Goes(k, W2, s, Len(g.stack))
    BY <1>1, <2>1, UnwindBlock
  <2>4. Sound(k, W2, plans) /\ Later(g, W, k, W2) /\ Similar(g.stack, k.stack)
    BY <2>3, LaterGrows
  <2>5. /\ Len(k.code) \in Nat /\ IsStack(k.stack) /\ Ground(k.code) /\ Len(k.stack) = Len(g.stack)
    BY <2>4, SoundIs DEF Similar, Sound, StackOK
  <2>6. Place(k.code, p)
    BY <1>1, <2>4, <2>5, PointLater
  <2>7. PICK r : r = RouteAt(k.stack, Len(k.stack), s, NoType)
    OBVIOUS
  <2>8. <<k.made, s, NoType, r>> \in W2
    BY <1>1, <2>3, <2>5, <2>7 DEF Goes
  <2>9. k.made # Returned
    <3>1. WayOK(k.code, W2, k.code[k.made], s, NoType, r)
      BY <2>4, <2>8 DEF Sound, CodeOK
    <3> QED
      BY <2>5, <3>1 DEF WayOK, Ground, Returned
  <2>10. PICK next : next = k.made
    OBVIOUS
  <2>11. PICK u : u = IF next = Returned THEN "Normal" ELSE s
    OBVIOUS
  <2>111. Reaches(k.code, W2, next, u, NoType, r) /\ h = EmitExit(k, p, s, next)
    BY <2>2, <2>8, <2>9, <2>10, <2>11 DEF Reaches
  <2>12. Sound(h, W2, plans) /\ Later(k, W2, h, W2) /\ h.stack = k.stack
    BY <2>4, <2>6, <2>7, <2>11, <2>111, ExitLater
  <2>13. Len(h.code) \in Nat
    BY <2>12, SoundIs
  <2>14. Later(g, W, h, W2)
    BY <1>1, <2>4, <2>5, <2>12, <2>13, LaterTwice
  <2> QED
    BY <2>4, <2>12, <2>14
<1> QED
  BY <1>2, <1>3

ThrowBlockOf(h, stack) == [op |-> "throw", pad |-> h.made, plans |-> ExceptionPlans(stack, "Throw")]

LEMMA ThrowPlanned ==
    ASSUME NEW stack, IsStack(stack)
    PROVE  Planned(stack, ExceptionPlans(stack, "Throw"))
BY PlanRoute DEF Planned, ExceptionPlans

\* emitThrow
LEMMA ThrowLater ==
    ASSUME NEW g, NEW W, NEW plans, Sound(g, W, plans), NEW p, Place(g.code, p), NEW h, h = EmitThrow(g, p)
    PROVE  \E W2 : Sound(h, W2, plans) /\ Later(g, W, h, W2) /\ Similar(g.stack, h.stack)
<1>1. IsStack(g.stack) /\ Len(g.code) \in Nat
  BY SoundIs
<1>2. PICK k : k = IF AnyUnwindActions(g.stack, "Throw") THEN GenThrowPad(g) ELSE [g EXCEPT !.made = 0]
  OBVIOUS
<1>3. PICK W2 : /\ Grows(g, W, k, W2, plans)
                /\ \A P : Planned(g.stack, P) => Thrown(k.code, W2, k.made, P)
  BY <1>2, CallPad
<1>4. Sound(k, W2, plans) /\ Later(g, W, k, W2) /\ Similar(g.stack, k.stack)
  BY <1>3, LaterGrows
<1>5. Len(k.code) \in Nat
  BY <1>4, SoundIs
<1>6. Place(k.code, p)
  BY <1>1, <1>4, <1>5, PointLater
<1>7. PICK c : c = ThrowBlockOf(k, g.stack)
  OBVIOUS
<1>8. c.op = "throw" /\ c.pad = k.made /\ c.plans = ExceptionPlans(g.stack, "Throw")
  BY <1>7 DEF ThrowBlockOf
<1>9. Thrown(k.code, W2, c.pad, c.plans)
  <2>1. PICK P : P = ExceptionPlans(g.stack, "Throw")
    OBVIOUS
  <2>2. Planned(g.stack, P)
    BY <1>1, <2>1, ThrowPlanned
  <2> QED
    BY <1>3, <1>8, <2>1, <2>2
<1>10. Leaving(k, W2, plans, c)
  BY <1>8, <1>9 DEF BlockOK, Ops, Leaving
<1>11. h = Flow(Emit(k, c), p, Len(k.code) + 1)
  BY <1>2, <1>7 DEF EmitThrow, ThrowBlockOf, NoPad
<1>12. Sound(h, W2, plans) /\ Later(k, W2, h, W2) /\ h.stack = k.stack
  <2>1. PICK n : n = Len(k.code) + 1
    OBVIOUS
  <2>2. h = Flow(Emit(k, c), p, n)
    BY <1>11, <2>1
  <2>3. Sound(k, W2, plans)
    BY <1>4
  <2> QED
    BY <1>6, <1>10, <2>1, <2>2, <2>3, LeaveLater, Z3
<1>13. Len(h.code) \in Nat
  BY <1>12, SoundIs
<1>14. Later(g, W, h, W2)
  BY <1>1, <1>4, <1>5, <1>12, <1>13, LaterTwice
<1> QED
  BY <1>4, <1>12, <1>14

-----------------------------------------------------------------------------
(***************************************************************************)
(* Scopes end.                                                             *)
(***************************************************************************)
\* The innermost scope's marker is at m.
TopScope(stack, m) ==
    /\ m \in 2 .. Len(stack) /\ stack[m].kind = "SCOPEMARKER"
    /\ \A i \in m + 1 .. Len(stack) : stack[i].kind # "SCOPEMARKER"

\* The stack was cut.
CutTo(stack, n, stack2) == Len(stack2) = n /\ \A i \in 1 .. n : SameAs(stack[i], stack2[i])

LEMMA TopScopeIs ==
    ASSUME NEW stack, IsStack(stack), NEW m, TopScope(stack, m)
    PROVE  LastOf(stack, "SCOPEMARKER") = m
<1>1. DOMAIN stack = 1 .. Len(stack) /\ Len(stack) \in Nat
  BY DEF IsStack
<1>2. PICK S : S = {i \in DOMAIN stack : stack[i].kind = "SCOPEMARKER"}
  OBVIOUS
<1>3. S \in SUBSET Int /\ m \in S /\ \A i \in S : i <= m
  BY <1>1, <1>2 DEF TopScope
<1>4. Max(S) = m
  BY <1>3, Maximum
<1> QED
  BY <1>2, <1>4 DEF LastOf

LEMMA TopScopeSame ==
    ASSUME NEW stack, NEW stack2, Similar(stack, stack2), NEW m, TopScope(stack, m)
    PROVE  TopScope(stack2, m)
<1>1. \A i \in 1 .. Len(stack) : stack2[i].kind = stack[i].kind
  BY DEF Similar, SameAs
<1>2. m \in 1 .. Len(stack) /\ \A i \in m + 1 .. Len(stack) : i \in 1 .. Len(stack)
  BY DEF TopScope
<1> QED
  BY <1>1, <1>2 DEF TopScope, Similar

\* Where the innermost scope ends when nothing has to be run.
LEMMA QuietScope ==
    ASSUME NEW stack, IsStack(stack), NEW m, TopScope(stack, m), ~AnyUnwindCleanupActions(stack, "Normal")
    PROVE  RouteAt(stack, Len(stack), "Normal", NoType) = [todo |-> <<>>, goal |-> stack[m].to["Normal"], selector |-> 0]
<1>1. /\ Len(stack) \in Nat \ {0} /\ DOMAIN stack = 1 .. Len(stack)
      /\ m \in 2 .. Len(stack) /\ m \in 1 .. Len(stack) /\ stack[m].kind = "SCOPEMARKER"
      /\ "Normal" \in Modes /\ NoType \in Keys("Normal")
  BY DEF IsStack, TopScope, Modes, States, Keys
<1>2. Ends(stack[m], "Normal", NoType) /\ IsActiveForState(stack[m], "Normal")
  BY <1>1 DEF Ends, IsActiveForState, ActiveStates
<1>3. EndsAt(stack, m, "Normal", NoType)
  BY <1>1, <1>2 DEF EndsAt
<1>4. RouteAt(stack, m, "Normal", NoType) = [todo |-> <<>>, goal |-> stack[m].to["Normal"], selector |-> 0]
  BY <1>1, <1>2, RouteEnd
<1>5. PICK S : S = ActivePositions(stack, "Normal") \ {1}
  OBVIOUS
<1>6. S \in SUBSET (1 .. Len(stack)) /\ m \in S /\ S # {} /\ \A i \in S : IsActiveForState(stack[i], "Normal") /\ i # 1
  BY <1>1, <1>2, <1>5 DEF ActivePositions
<1>7. Max(S) \in S /\ \A y \in S : y <= Max(S)
  BY <1>1, <1>6, Greatest
<1>8. IsTerminator(stack[Max(S)])
  BY <1>5, <1>6 DEF AnyUnwindCleanupActions
<1>9. PICK x : x = Max(S)
  OBVIOUS
<1>10. x \in 1 .. Len(stack) /\ IsTerminator(stack[x]) /\ IsActiveForState(stack[x], "Normal") /\ m <= x /\ \A y \in S : y <= x
  BY <1>6, <1>7, <1>8, <1>9
<1>11. stack[x].kind = "SCOPEMARKER"
  BY <1>10 DEF IsTerminator, Terminators, IsActiveForState, ActiveStates
<1>12. x = m
  BY <1>1, <1>10, <1>11 DEF TopScope
<1>13. \A j \in m + 1 .. Len(stack) : ~IsActiveForState(stack[j], "Normal")
  BY <1>1, <1>5, <1>10, <1>12 DEF ActivePositions
<1>14. PICK n : n = Len(stack)
  OBVIOUS
<1>15. n \in m .. Len(stack) /\ \A j \in m + 1 .. n : ~IsActiveForState(stack[j], "Normal")
  BY <1>1, <1>13, <1>14
<1>16. RouteAt(stack, n, "Normal", NoType) = RouteAt(stack, m, "Normal", NoType)
  BY <1>1, <1>3, <1>15, QuietAbove
<1> QED
  BY <1>4, <1>14, <1>16

\* What EndScope generates, and what it leaves.
ScopeExitOf(g, p, m) ==
    CASE p = 0 -> g
      [] p # 0 /\ AnyUnwindCleanupActions(g.stack, "Normal") -> EmitUnwind(g, p, "Normal")
      [] OTHER -> EmitExit(g, p, "Normal", g.stack[m].to["Normal"])

LEMMA ScopeExitLater ==
    ASSUME NEW g, NEW W, NEW plans, Sound(g, W, plans), NEW p, Place(g.code, p), NEW m, TopScope(g.stack, m),
           NEW h, h = ScopeExitOf(g, p, m)
    PROVE  \E W2 : Sound(h, W2, plans) /\ Later(g, W, h, W2) /\ Similar(g.stack, h.stack)
<1>1. /\ IsStack(g.stack) /\ Len(g.stack) \in Nat \ {0}
      /\ "Normal" \in NormalStates /\ m \in 1 .. Len(g.stack) /\ g.stack[m].kind = "SCOPEMARKER"
      /\ MarkOK(g.code, g.stack[m])
  BY SoundIs DEF NormalStates, States, ExceptionStates, TopScope, Sound, StackOK
<1>2. CASE p = 0
  <2>1. h = g
    BY <1>2 DEF ScopeExitOf
  <2> QED
    BY <2>1, LaterSelf, SameSelf DEF Similar
<1>3. CASE p # 0 /\ AnyUnwindCleanupActions(g.stack, "Normal")
  <2>1. h = EmitUnwind(g, p, "Normal")
    BY <1>3 DEF ScopeExitOf
  <2>2. IsTerminator(g.stack[m]) /\ IsActiveForState(g.stack[m], "Normal")
    BY <1>1 DEF IsTerminator, Terminators, IsActiveForState, ActiveStates
  <2>3. \A i \in 1 .. Len(g.stack) : Calm(g.stack[i], "Normal")
    BY DEF Calm
  <2>4. PICK s : s = "Normal"
    OBVIOUS
  <2>5. /\ h = EmitUnwind(g, p, s) /\ s \in NormalStates
        /\ \E i \in 1 .. Len(g.stack) : IsTerminator(g.stack[i]) /\ IsActiveForState(g.stack[i], s)
        /\ \A i \in 1 .. Len(g.stack) : Calm(g.stack[i], s)
    BY <1>1, <2>1, <2>2, <2>3, <2>4
  <2> QED
    BY <2>5, UnwindLater
<1>4. CASE p # 0 /\ ~AnyUnwindCleanupActions(g.stack, "Normal")
  <2>1. PICK n : n = g.stack[m].to["Normal"]
    OBVIOUS
  <2>2. h = EmitExit(g, p, "Normal", n)
    BY <1>4, <2>1 DEF ScopeExitOf
  <2>3. IsPoint(g.code, n)
    BY <1>1, <2>1 DEF MarkOK
  <2>4. PICK r : r = RouteAt(g.stack, Len(g.stack), "Normal", NoType)
    OBVIOUS
  <2>5. r.todo = <<>> /\ r.goal = n
    <3>1. RouteAt(g.stack, Len(g.stack), "Normal", NoType) = [todo |-> <<>>, goal |-> g.stack[m].to["Normal"], selector |-> 0]
      BY <1>1, <1>4, QuietScope
    <3> QED
      BY <2>1, <2>4, <3>1
  <2>6. PICK s : s = "Normal"
    OBVIOUS
  <2>7. PICK u : u = IF n = Returned THEN "Normal" ELSE s
    OBVIOUS
  <2>8. Reaches(g.code, W, n, u, NoType, r)
    BY <2>3, <2>5, <2>6, <2>7 DEF Reaches, Arrived, IsPoint, Stored
  <2>9. r = RouteAt(g.stack, Len(g.stack), s, NoType) /\ h = EmitExit(g, p, s, n) /\ s \in NormalStates
    BY <1>1, <2>2, <2>4, <2>6
  <2>10. Sound(h, W, plans) /\ Later(g, W, h, W) /\ h.stack = g.stack
    BY <2>7, <2>8, <2>9, ExitLater
  <2> QED
    BY <2>10, SameSelf DEF Similar
<1> QED
  BY <1>2, <1>3, <1>4

\* The top of the stack is popped, down to position n.
Cut(g, n) == [g EXCEPT !.stack = SubSeq(@, 1, n)]

LEMMA CutSound ==
    ASSUME NEW g, NEW W, NEW plans, Sound(g, W, plans), NEW n \in 1 .. Len(g.stack) - 1,
           g.stack[n + 1].kind # "CATCH" \/ g.stack[n].kind # "CATCH",
           NEW h, h = Cut(g, n)
    PROVE  Sound(h, W, plans) /\ Later(g, W, h, W) /\ h.code = g.code /\ CutTo(g.stack, n, h.stack)
<1>1. IsStack(g.stack) /\ Len(g.stack) \in Nat \ {0}
  BY SoundIs
<1>2. PICK i : i = n + 1
  OBVIOUS
<1>3. i \in 2 .. Len(g.stack) /\ i - 1 = n
  BY <1>1, <1>2
<1>4. h = Below(g, i)
  BY <1>3 DEF Below, Cut
<1>5. g.stack[i].kind # "CATCH" \/ g.stack[i - 1].kind # "CATCH"
  BY <1>2, <1>3
<1>6. Sound(h, W, plans) /\ h.stack = Prefix(g.stack, i - 1) /\ h.code = g.code
  BY <1>3, <1>4, <1>5, BelowSound
<1>7. PICK stack : stack = g.stack
  OBVIOUS
<1>8. n \in 1 .. Len(stack) /\ IsStack(stack)
  BY <1>1, <1>7
<1>9. Len(Prefix(stack, n)) = n /\ \A j \in 1 .. n : Prefix(stack, n)[j] = stack[j]
  BY <1>8, PrefixIs
<1>10. CutTo(g.stack, n, h.stack)
  BY <1>3, <1>6, <1>7, <1>9, SameSelf DEF CutTo
<1>11. Later(g, W, h, W)
  BY <1>6, LaterSelf DEF Later
<1> QED
  BY <1>6, <1>10, <1>11

LEMMA EndScopeIs ==
    ASSUME NEW g, IsStack(g.stack), NEW p, NEW m, TopScope(g.stack, m)
    PROVE  /\ EndScope(g, p) = Cut(ScopeExitOf(g, p, m), m - 1)
           /\ ScopeEnd(g, p) = IF p = 0 THEN 0 ELSE g.stack[m].to["Normal"]
<1>1. LastOf(g.stack, "SCOPEMARKER") = m
  BY TopScopeIs
<1> QED
  BY <1>1, Zenon DEF EndScope, ScopeExitOf, ScopeEnd, Cut

\* The end of a scope.
LEMMA EndScopeLater ==
    ASSUME NEW g, NEW W, NEW plans, Sound(g, W, plans), NEW p, Place(g.code, p), NEW m, TopScope(g.stack, m),
           NEW h, h = EndScope(g, p), NEW q, q = ScopeEnd(g, p)
    PROVE  \E W2 : /\ Sound(h, W2, plans) /\ Later(g, W, h, W2) /\ CutTo(g.stack, m - 1, h.stack)
                   /\ Place(g.code, q) /\ Place(h.code, q)
<1>1. /\ IsStack(g.stack) /\ Len(g.stack) \in Nat \ {0} /\ Len(g.code) \in Nat
      /\ m \in 1 .. Len(g.stack) /\ m \in 2 .. Len(g.stack) /\ g.stack[m].kind = "SCOPEMARKER"
      /\ MarkOK(g.code, g.stack[m])
  BY SoundIs DEF TopScope, Sound, StackOK
<1>2. PICK k : k = ScopeExitOf(g, p, m)
  OBVIOUS
<1>3. PICK W2 : Sound(k, W2, plans) /\ Later(g, W, k, W2) /\ Similar(g.stack, k.stack)
  BY <1>2, ScopeExitLater
<1>4. PICK n : n = m - 1
  OBVIOUS
<1>5. n \in 1 .. Len(k.stack) - 1 /\ n + 1 = m /\ k.stack[n + 1].kind # "CATCH"
  BY <1>1, <1>3, <1>4 DEF Similar, SameAs
<1>6. h = Cut(k, n)
  BY <1>1, <1>2, <1>4, EndScopeIs
<1>7. Sound(h, W2, plans) /\ Later(k, W2, h, W2) /\ h.code = k.code /\ CutTo(k.stack, n, h.stack)
  BY <1>3, <1>5, <1>6, CutSound
<1>8. Later(g, W, h, W2)
  BY <1>1, <1>3, <1>7, LaterTwice, SoundIs
<1>9. CutTo(g.stack, n, h.stack)
  BY <1>3, <1>5, <1>7 DEF CutTo, Similar, SameAs
<1>10. Place(g.code, q)
  <2>1. q = IF p = 0 THEN 0 ELSE g.stack[m].to["Normal"]
    BY <1>1, EndScopeIs
  <2> QED
    BY <1>1, <2>1 DEF MarkOK, Place
<1>11. Place(h.code, q)
  BY <1>1, <1>7, <1>8, <1>10, PointLater, SoundIs
<1> QED
  BY <1>4, <1>7, <1>8, <1>9, <1>10, <1>11

-----------------------------------------------------------------------------
(***************************************************************************)
(* The clauses of a try are compared.                                      *)
(***************************************************************************)
\* As Later, but that the comparisons in the blocks D change.
Turns(g, W, h, W2, D) ==
    /\ W \subseteq W2 /\ Keeps(g.code, h.code) /\ KeepsActs(g.code, h.code)
    /\ \A b \in 1 .. Len(g.code) : g.code[b].op = "dispatch" /\ b \notin D =>
            h.code[b] = g.code[b] /\ \A s, t, r : <<b, s, t, r>> \in W2 => <<b, s, t, r>> \in W
    /\ \A b \in Len(g.code) + 1 .. Len(h.code) : h.code[b].op = "dispatch" => b \in D

LEMMA LaterTurns ==
    ASSUME NEW g, NEW W, NEW h, NEW W2, Later(g, W, h, W2), NEW D
    PROVE  Turns(g, W, h, W2, D)
BY DEF Later, Turns

LEMMA TurnsTwice ==
    ASSUME NEW g, NEW W, NEW h, NEW W2, NEW k, NEW W3, NEW D, Len(g.code) \in Nat, Len(h.code) \in Nat, Len(k.code) \in Nat,
           Turns(g, W, h, W2, D), Turns(h, W2, k, W3, D)
    PROVE  Turns(g, W, k, W3, D)
<1>2. Len(g.code) <= Len(h.code) /\ \A b \in 1 .. Len(g.code) : h.code[b].op = g.code[b].op
  BY DEF Turns, Keeps
<1>3. Len(h.code) <= Len(k.code) /\ \A b \in 1 .. Len(h.code) : k.code[b].op = h.code[b].op
  BY DEF Turns, Keeps
<1>4. \A b \in 1 .. Len(g.code) : b \in 1 .. Len(h.code)
  BY <1>2
<1>5. Keeps(g.code, k.code)
  BY <1>2, <1>3, <1>4 DEF Keeps
<1>6. KeepsActs(g.code, k.code)
  BY <1>2, <1>4 DEF KeepsActs, Turns
<1>7. ASSUME NEW b \in 1 .. Len(g.code), g.code[b].op = "dispatch", b \notin D
      PROVE  k.code[b] = g.code[b] /\ \A s, t, r : <<b, s, t, r>> \in W3 => <<b, s, t, r>> \in W
  <2>1. h.code[b] = g.code[b] /\ \A s, t, r : <<b, s, t, r>> \in W2 => <<b, s, t, r>> \in W
    BY <1>7 DEF Turns
  <2>2. k.code[b] = h.code[b] /\ \A s, t, r : <<b, s, t, r>> \in W3 => <<b, s, t, r>> \in W2
    BY <1>4, <1>7, <2>1 DEF Turns
  <2> QED
    BY <2>1, <2>2
<1>8. ASSUME NEW b \in Len(g.code) + 1 .. Len(k.code), k.code[b].op = "dispatch" PROVE b \in D
  <2>1. CASE b \in 1 .. Len(h.code)
    <3>1. b \in Len(g.code) + 1 .. Len(h.code) /\ h.code[b].op = "dispatch"
      BY <1>3, <1>8, <2>1
    <3> QED
      BY <3>1 DEF Turns
  <2>2. CASE b \notin 1 .. Len(h.code)
    <3>1. b \in Len(h.code) + 1 .. Len(k.code)
      BY <2>2
    <3> QED
      BY <1>8, <3>1 DEF Turns
  <2> QED
    BY <2>1, <2>2
<1>9. W \subseteq W3
  BY DEF Turns
<1> QED
  BY <1>5, <1>6, <1>7, <1>8, <1>9 DEF Turns

WithHandler(c, n) == [c EXCEPT !.handler = n]
WithNext(c, n)    == [c EXCEPT !.next = n]

LEMMA DispatchFields ==
    ASSUME NEW c, DispatchForm(c), NEW n
    PROVE  /\ LET x == WithHandler(c, n)
              IN  /\ DispatchForm(x) /\ x.op = c.op /\ x.start = c.start /\ x.id = c.id /\ x.types = c.types /\ x.nth = c.nth
                  /\ x.next = c.next /\ x.handler = n
           /\ LET x == WithNext(c, n)
              IN  /\ DispatchForm(x) /\ x.op = c.op /\ x.start = c.start /\ x.id = c.id /\ x.types = c.types /\ x.nth = c.nth
                  /\ x.next = n /\ x.handler = c.handler
           /\ c.op = "dispatch"
<1>1. PICK start, id, types, nth, next, handler :
        c = [op |-> "dispatch", start |-> start, id |-> id, types |-> types, nth |-> nth,
             next |-> next, handler |-> handler]
  BY DEF DispatchForm
<1>2. WithHandler(c, n) = [op |-> "dispatch", start |-> start, id |-> id, types |-> types, nth |-> nth,
             next |-> next, handler |-> n]
  BY <1>1 DEF WithHandler
<1>3. WithNext(c, n) = [op |-> "dispatch", start |-> start, id |-> id, types |-> types, nth |-> nth,
             next |-> n, handler |-> handler]
  BY <1>1 DEF WithNext
<1>4. DispatchForm(WithHandler(c, n)) /\ DispatchForm(WithNext(c, n))
  BY <1>2, <1>3, Zenon DEF DispatchForm
<1> QED
  BY <1>1, <1>2, <1>3, <1>4

\* The comparison in block d is changed.
Changeable(g, W, d, c) ==
    /\ d \in 1 .. Len(g.code) /\ g.code[d].op = "dispatch"
    /\ c.op = "dispatch" /\ DispatchOK(g.code, c)
    /\ \A s, t, r : <<d, s, t, r>> \in W => DispatchWay(g.code, W, c, s, t, r)
Changed(g, d, c, h) == IsEmitter(h) /\ h.stack = g.stack /\ h.code = Replaced(g.code, d, c)

Turned(g, W, plans, d, c, h) ==
    /\ Sound(h, W, plans) /\ Turns(g, W, h, W, {d}) /\ h.code[d] = c
    /\ Len(h.code) = Len(g.code) /\ h.stack = g.stack

LEMMA DispatchChange ==
    ASSUME NEW g, NEW W, NEW plans, Sound(g, W, plans), NEW d, NEW c, Changeable(g, W, d, c), NEW h, Changed(g, d, c, h)
    PROVE  Turned(g, W, plans, d, c, h)
<1>0. /\ d \in 1 .. Len(g.code) /\ g.code[d].op = "dispatch"
      /\ c.op = "dispatch" /\ DispatchOK(g.code, c)
      /\ \A s, t, r : <<d, s, t, r>> \in W => DispatchWay(g.code, W, c, s, t, r)
      /\ IsEmitter(h) /\ h.stack = g.stack /\ h.code = Replaced(g.code, d, c)
  BY DEF Changeable, Changed
<1>1. IsCode(g.code) /\ Len(g.code) \in Nat /\ CodeOK(g.code, W, plans)
  BY <1>0, SoundIs DEF Sound, CodeOK
<1>2. PICK code2 : code2 = h.code
  OBVIOUS
<1>3. code2 = Replaced(g.code, d, c)
  BY <1>0, <1>2
<1>4. IsCode(code2) /\ Len(code2) = Len(g.code) /\ code2[d] = c /\ \A x \in 1 .. Len(g.code) : x # d => code2[x] = g.code[x]
  BY <1>0, <1>1, <1>3, CodeExcept
<1>5. Keeps(g.code, code2) /\ KeepsActs(g.code, code2) /\ Len(code2) \in Nat
  BY <1>0, <1>1, <1>4 DEF Keeps, KeepsActs
<1>6. PICK V, Q : V = W /\ Q = plans
  OBVIOUS
<1>7. BlockOK(code2, W, plans, d, c)
  <2>1. BlockOK(g.code, W, plans, d, c)
    BY <1>0 DEF BlockOK, Ops
  <2>2. W \subseteq V /\ KeepsPlans(plans, Q)
    BY <1>0, <1>6, KeepsSelf
  <2>3. BlockOK(code2, V, Q, d, c)
    BY <1>0, <1>1, <1>5, <2>1, <2>2, BlockMore
  <2> QED
    BY <1>0, <1>6, <2>3
<1>8. ASSUME NEW s, NEW t, NEW r, <<d, s, t, r>> \in W PROVE WayOK(code2, W, c, s, t, r)
  <2>1. WayOK(g.code, W, g.code[d], s, t, r)
    BY <1>0, <1>1, <1>8 DEF CodeOK
  <2>2. WayOK(g.code, W, c, s, t, r)
    BY <1>0, <1>8, <2>1 DEF WayOK
  <2>3. W \subseteq V
    BY <1>0, <1>6
  <2>4. WayOK(code2, V, c, s, t, r)
    BY <1>0, <1>1, <1>5, <2>2, <2>3, WayMore
  <2> QED
    BY <1>0, <1>6, <2>4
<1>9. CodeOK(code2, W, plans)
  <2>1. c.op = g.code[d].op /\ W \subseteq V
    BY <1>0, <1>6
  <2>2. \A x, s, t, r : <<x, s, t, r>> \in V /\ <<x, s, t, r>> \notin W => x = d
    BY <1>0, <1>6
  <2>3. \A s, t, r : <<d, s, t, r>> \in V => WayOK(code2, V, c, s, t, r)
    BY <1>0, <1>6, <1>8
  <2>4. BlockOK(code2, V, plans, d, c)
    BY <1>0, <1>6, <1>7
  <2>5. CodeOK(code2, V, plans)
    BY <1>0, <1>1, <1>3, <2>1, <2>2, <2>3, <2>4, CodeChange
  <2> QED
    BY <1>0, <1>6, <2>5
<1>10. Sound(h, W, plans)
  BY <1>0, <1>2, <1>5, <1>9, CodeSound
<1>11. Turns(g, W, h, W, {d})
  BY <1>0, <1>2, <1>4, <1>5 DEF Turns
<1> QED
  BY <1>0, <1>2, <1>4, <1>10, <1>11 DEF Turned

WithCode(g, code) == [g EXCEPT !.code = code]

LEMMA CodeIsAll ==
    ASSUME NEW g, IsEmitter(g), NEW code, NEW h, h = WithCode(g, code)
    PROVE  IsAll(h, g.stack, code, g.made)
<1>1. PICK stack, old, made : stack = g.stack /\ old = g.code /\ made = g.made
  OBVIOUS
<1>2. g = [stack |-> stack, code |-> old, made |-> made]
  BY <1>1 DEF IsEmitter, Emitter
<1>3. h = [stack |-> stack, code |-> code, made |-> made]
  BY <1>2 DEF WithCode
<1>4. h = Emitter(stack, code, made)
  BY <1>3 DEF Emitter
<1>5. IsEmitter(h) /\ h.stack = stack /\ h.code = code /\ h.made = made
  BY <1>4, EmitterIs
<1> QED
  BY <1>1, <1>5 DEF IsAll

LEMMA OnePoint ==
    ASSUME NEW x, IsCode(x)
    PROVE  /\ IsCode(WithPoints(x, 1)) /\ Len(WithPoints(x, 1)) = Len(x) + 1
           /\ \A b \in 1 .. Len(x) : WithPoints(x, 1)[b] = x[b]
           /\ \A b \in Len(x) + 1 .. Len(x) + 1 : WithPoints(x, 1)[b] = Point
<1>1. PICK n : n = 1
  OBVIOUS
<1>11. PICK y : y = WithPoints(x, n)
  OBVIOUS
<1>2. n \in Nat
  BY <1>1
<1>3. IsCode(y) /\ Len(y) = Len(x) + n /\ (\A b \in 1 .. Len(x) : y[b] = x[b]) /\ \A b \in Len(x) + 1 .. Len(x) + n : y[b] = Point
  BY <1>11, <1>2, PointsAre, ZenonT(60)
<1> QED
  BY <1>1, <1>11, <1>3

\* A block is changed and a point is added, in either order.
LEMMA PointsCommute ==
    ASSUME NEW code, IsCode(code), NEW d \in 1 .. Len(code), NEW c
    PROVE  WithPoints(Replaced(code, d, c), 1) = Replaced(WithPoints(code, 1), d, c)
<1>0. \A x : IsCode(x) => /\ IsCode(WithPoints(x, 1)) /\ Len(WithPoints(x, 1)) = Len(x) + 1
                          /\ \A b \in 1 .. Len(x) : WithPoints(x, 1)[b] = x[b]
                          /\ \A b \in Len(x) + 1 .. Len(x) + 1 : WithPoints(x, 1)[b] = Point
  BY OnePoint
<1>1. PICK a : a = Replaced(code, d, c)
  OBVIOUS
<1>2. IsCode(a) /\ Len(a) = Len(code) /\ a[d] = c /\ \A x \in 1 .. Len(code) : x # d => a[x] = code[x]
  BY <1>1, CodeExcept
<1>3. PICK b : b = WithPoints(a, 1)
  OBVIOUS
<1>4. IsCode(b) /\ Len(b) = Len(a) + 1 /\ (\A x \in 1 .. Len(a) : b[x] = a[x]) /\ \A x \in Len(a) + 1 .. Len(a) + 1 : b[x] = Point
  BY <1>0, <1>2, <1>3
<1>5. PICK e : e = WithPoints(code, 1)
  OBVIOUS
<1>6. IsCode(e) /\ Len(e) = Len(code) + 1 /\ (\A x \in 1 .. Len(code) : e[x] = code[x])
      /\ \A x \in Len(code) + 1 .. Len(code) + 1 : e[x] = Point
  BY <1>0, <1>5
<1>7. Len(code) \in Nat
  BY CodeIs
<1>8. d \in 1 .. Len(e)
  BY <1>6, <1>7
<1>9. PICK f : f = Replaced(e, d, c)
  OBVIOUS
<1>10. IsCode(f) /\ Len(f) = Len(e) /\ f[d] = c /\ \A x \in 1 .. Len(e) : x # d => f[x] = e[x]
  BY <1>6, <1>8, <1>9, CodeExcept
<1>11. \A x \in 1 .. Len(code) + 1 : b[x] = f[x]
  <2>1. SUFFICES ASSUME NEW x \in 1 .. Len(code) + 1 PROVE b[x] = f[x]
    OBVIOUS
  <2>2. CASE x \in 1 .. Len(code)
    BY <1>2, <1>4, <1>6, <1>7, <1>10, <2>2
  <2>3. CASE x \notin 1 .. Len(code)
    <3>1. x = Len(code) + 1 /\ x # d
      BY <1>7, <2>3
    <3> QED
      BY <1>2, <1>4, <1>6, <1>7, <1>10, <3>1
  <2> QED
    BY <2>2, <2>3
<1>12. PICK S, T : b \in Seq(S) /\ f \in Seq(T)
  BY <1>4, <1>10 DEF IsCode
<1>13. DOMAIN b = 1 .. Len(b) /\ DOMAIN f = 1 .. Len(f) /\ Len(b) = Len(code) + 1 /\ Len(f) = Len(code) + 1
  BY <1>2, <1>4, <1>6, <1>10, <1>12
<1>14. b = [x \in 1 .. Len(code) + 1 |-> b[x]] /\ f = [x \in 1 .. Len(code) + 1 |-> f[x]]
  BY <1>12, <1>13
<1>15. b = f
  BY <1>11, <1>14
<1> QED
  BY <1>1, <1>3, <1>5, <1>9, <1>15

\* The catch of a clause is where a new point is.
HandlerAt(g, d) == NewPoints([g EXCEPT !.code[d].handler = Nth(g, 1)], 1)

LEMMA HandlerIs ==
    ASSUME NEW g, IsEmitter(g), IsCode(g.code), NEW d \in 1 .. Len(g.code), NEW k, k = NewPoints(g, 1),
           NEW h, h = HandlerAt(g, d)
    PROVE  IsAll(h, k.stack, Replaced(k.code, d, WithHandler(k.code[d], Len(g.code) + 1)), k.made)
<1>1. PICK n : n = Len(g.code) + 1
  OBVIOUS
<1>2. PICK c : c = WithHandler(g.code[d], n)
  OBVIOUS
<1>3. PICK code2 : code2 = Replaced(g.code, d, c)
  OBVIOUS
<1>4. PICK e : e = WithCode(g, code2)
  OBVIOUS
<1>5. h = NewPoints(e, 1)
  BY <1>1, <1>2, <1>3, <1>4, Zenon DEF HandlerAt, Nth, Replaced, WithHandler, WithCode
<1>6. IsAll(e, g.stack, code2, g.made)
  BY <1>4, CodeIsAll
<1>7. IsAll(h, g.stack, WithPoints(code2, 1), g.made)
  BY <1>5, <1>6, PointsAll DEF IsAll
<1>8. IsAll(k, g.stack, WithPoints(g.code, 1), g.made)
  BY PointsAll
<1>9. WithPoints(code2, 1) = Replaced(WithPoints(g.code, 1), d, c)
  BY <1>3, PointsCommute
<1>10. k.code[d] = g.code[d]
  <2>1. PICK code : code = WithPoints(g.code, 1)
    OBVIOUS
  <2>2. \A b \in 1 .. Len(g.code) : code[b] = g.code[b]
    BY <1>1, <2>1, OnePoint
  <2> QED
    BY <1>8, <2>1, <2>2 DEF IsAll
<1> QED
  BY <1>1, <1>2, <1>7, <1>8, <1>9, <1>10 DEF IsAll

Handled(g, d, n, h) == IsAll(h, g.stack, Replaced(g.code, d, WithHandler(g.code[d], n)), g.made)

LEMMA HandlerChange ==
    ASSUME NEW g, NEW W, NEW plans, Sound(g, W, plans), NEW d \in 1 .. Len(g.code), g.code[d].op = "dispatch",
           NEW n, IsPoint(g.code, n), NEW h, Handled(g, d, n, h)
    PROVE  Turned(g, W, plans, d, WithHandler(g.code[d], n), h)
<1>1. IsEmitter(g) /\ IsCode(g.code) /\ Len(g.code) \in Nat /\ DispatchOK(g.code, g.code[d])
  BY SoundIs DEF Sound, CodeOK, BlockOK
<1>2. PICK c : c = WithHandler(g.code[d], n)
  OBVIOUS
<1>4. /\ DispatchForm(c) /\ c.op = "dispatch" /\ c.start = g.code[d].start /\ c.id = g.code[d].id
      /\ c.types = g.code[d].types /\ c.nth = g.code[d].nth /\ c.next = g.code[d].next /\ c.handler = n
  <2>1. DispatchForm(g.code[d])
    BY <1>1 DEF DispatchOK
  <2> QED
    BY <1>2, <2>1, DispatchFields
<1>5. DispatchOK(g.code, c)
  <2>1. n \in 1 .. Len(g.code) /\ g.code[n].op = "point"
    BY <1>1 DEF IsPoint
  <2> QED
    BY <1>1, <1>4, <2>1 DEF DispatchOK
<1>6. ASSUME NEW s, NEW t, NEW r, <<d, s, t, r>> \in W PROVE DispatchWay(g.code, W, c, s, t, r)
  <2>1. DispatchWay(g.code, W, g.code[d], s, t, r)
    BY <1>6 DEF Sound, CodeOK, WayOK
  <2> QED
    BY <1>4, <2>1 DEF DispatchWay
<1>7. Turned(g, W, plans, d, c, h)
  <2>1. Changed(g, d, c, h)
    BY <1>2 DEF Handled, IsAll, Changed
  <2>2. Changeable(g, W, d, c)
    BY <1>4, <1>5, <1>6 DEF Changeable
  <2>3. Sound(g, W, plans)
    OBVIOUS
  <2> QED
    BY <2>1, <2>2, <2>3, DispatchChange
<1> QED
  BY <1>2, <1>7

HandlerDone(g, W, plans, d, n, h) ==
    /\ Sound(h, W, plans) /\ Turns(g, W, h, W, {d}) /\ h.stack = g.stack
    /\ Len(h.code) = n /\ IsPoint(h.code, n) /\ h.code[d] = WithHandler(g.code[d], n)

LEMMA HandlerTurns ==
    ASSUME NEW g, NEW W, NEW plans, Sound(g, W, plans), NEW d \in 1 .. Len(g.code), g.code[d].op = "dispatch",
           NEW h, h = HandlerAt(g, d), NEW n, n = Len(g.code) + 1
    PROVE  HandlerDone(g, W, plans, d, n, h)
<1>1. IsEmitter(g) /\ IsCode(g.code) /\ Len(g.code) \in Nat
  BY SoundIs DEF Sound, CodeOK
<1>2. PICK k : k = NewPoints(g, 1)
  OBVIOUS
<1>3. /\ Sound(k, W, plans) /\ Later(g, W, k, W) /\ k.stack = g.stack /\ k.made = g.made
      /\ Len(k.code) = n /\ IsPoint(k.code, n) /\ k.code[d] = g.code[d]
  <2>1. PICK one : one = 1
    OBVIOUS
  <2>2. one \in Nat /\ k = NewPoints(g, one)
    BY <1>2, <2>1
  <2>3. /\ Sound(k, W, plans) /\ Later(g, W, k, W) /\ k.stack = g.stack /\ k.made = g.made
        /\ Len(k.code) = Len(g.code) + one
        /\ \A b \in Len(g.code) + 1 .. Len(g.code) + one : IsPoint(k.code, b)
    BY <2>2, PointsLater
  <2>4. n \in Len(g.code) + 1 .. Len(g.code) + one
    BY <1>1, <2>1
  <2>5. k.code[d] = g.code[d]
    BY <2>3 DEF Later
  <2> QED
    BY <2>1, <2>3, <2>4, <2>5
<1>4. Handled(k, d, n, h)
  BY <1>1, <1>2, <1>3, HandlerIs DEF Handled
<1>5. d \in 1 .. Len(k.code) /\ k.code[d].op = "dispatch" /\ Len(k.code) \in Nat
  BY <1>1, <1>3
<1>61. Turned(k, W, plans, d, WithHandler(k.code[d], n), h)
  BY <1>3, <1>4, <1>5, HandlerChange
<1>6. /\ Sound(h, W, plans) /\ Turns(k, W, h, W, {d}) /\ h.stack = k.stack
      /\ Len(h.code) = Len(k.code) /\ h.code[d] = WithHandler(k.code[d], n)
  BY <1>61 DEF Turned
<1>7. Turns(g, W, h, W, {d})
  <2>1. PICK D : D = {d}
    OBVIOUS
  <2>2. Turns(g, W, k, W, D) /\ Turns(k, W, h, W, D)
    BY <1>3, <1>6, <2>1, LaterTurns
  <2> QED
    BY <1>1, <1>5, <1>6, <2>1, <2>2, TurnsTwice
<1>8. IsPoint(h.code, n)
  <2>1. h.code[n].op = k.code[n].op
    BY <1>3, <1>5, <1>6 DEF Turns, Keeps, IsPoint
  <2> QED
    BY <1>3, <1>6, <2>1 DEF IsPoint
<1> QED
  BY <1>3, <1>6, <1>7, <1>8 DEF HandlerDone

\* Where an exception goes that a clause does not catch.
NextAt(g, d, n) == [g EXCEPT !.code[d].next = n]

LEMMA NextTurns ==
    ASSUME NEW g, NEW W, NEW plans, Sound(g, W, plans), NEW d \in 1 .. Len(g.code), g.code[d].op = "dispatch", NEW n,
           \A s, t, r : <<d, s, t, r>> \in W /\ r.selector # g.code[d].id => Reaches(g.code, W, n, s, t, r),
           NEW h, h = NextAt(g, d, n)
    PROVE  Turned(g, W, plans, d, WithNext(g.code[d], n), h)
<1>1. IsEmitter(g) /\ IsCode(g.code) /\ Len(g.code) \in Nat /\ DispatchOK(g.code, g.code[d])
  BY SoundIs DEF Sound, CodeOK, BlockOK
<1>2. PICK c : c = WithNext(g.code[d], n)
  OBVIOUS
<1>3. IsAll(h, g.stack, Replaced(g.code, d, c), g.made)
  <2>1. PICK code2 : code2 = Replaced(g.code, d, c)
    OBVIOUS
  <2>2. h = WithCode(g, code2)
    BY <1>2, <2>1, Zenon DEF NextAt, Replaced, WithNext, WithCode
  <2> QED
    BY <1>1, <2>1, <2>2, CodeIsAll
<1>4. /\ DispatchForm(c) /\ c.op = "dispatch" /\ c.start = g.code[d].start /\ c.id = g.code[d].id
      /\ c.types = g.code[d].types /\ c.nth = g.code[d].nth /\ c.next = n /\ c.handler = g.code[d].handler
  <2>1. DispatchForm(g.code[d])
    BY <1>1 DEF DispatchOK
  <2> QED
    BY <1>2, <2>1, DispatchFields
<1>5. DispatchOK(g.code, c)
  BY <1>1, <1>4 DEF DispatchOK
<1>6. ASSUME NEW s, NEW t, NEW r, <<d, s, t, r>> \in W PROVE DispatchWay(g.code, W, c, s, t, r)
  <2>1. DispatchWay(g.code, W, g.code[d], s, t, r)
    BY <1>6 DEF Sound, CodeOK, WayOK
  <2>2. r.selector # c.id => Reaches(g.code, W, c.next, s, t, r)
    BY <1>4, <1>6
  <2> QED
    BY <1>4, <2>1, <2>2 DEF DispatchWay
<1>7. Turned(g, W, plans, d, c, h)
  <2>1. Changed(g, d, c, h)
    BY <1>3 DEF IsAll, Changed
  <2>2. Changeable(g, W, d, c)
    BY <1>4, <1>5, <1>6 DEF Changeable
  <2> QED
    BY <2>1, <2>2, DispatchChange
<1> QED
  BY <1>2, <1>7

\* The rest of a route agrees with the clause that is to catch the exception.
Compared(c, t, r) ==
    LET k    == FirstFor(c.types, t)
        base == c.id - c.nth
    IN  /\ t \in Types /\ r \in Routes
        /\ k # 0 => k >= c.nth /\ r.goal = c.start /\ r.todo = <<>> /\ r.selector = base + k
        /\ k = 0 => r.selector \notin base + 1 .. base + Len(c.types)

\* The ways W2 that are not in W come to a comparison c in block n.
ComparedAt(W, W2, n, c) ==
    /\ W \subseteq W2
    /\ \A b, s, t, r : <<b, s, t, r>> \in W2 /\ <<b, s, t, r>> \notin W =>
            b = n /\ s = "Throw" /\ Compared(c, t, r)

\* A clause that can be compared, for which nothing was generated.
Clauses(types) == types \in Seq(Types) /\ Len(types) \in Nat
Comparable(n, c) ==
    /\ DispatchForm(c) /\ c.op = "dispatch" /\ Clauses(c.types) /\ c.nth \in 1 .. Len(c.types) /\ c.id \in Nat
    /\ c.nth <= c.id /\ c.start \in 1 .. n /\ c.next = 0 /\ c.handler = 0

LEMMA DispatchIs ==
    ASSUME NEW start, NEW id, NEW types, NEW n, NEW c, c = Dispatch(start, id, types, n)
    PROVE  /\ DispatchForm(c) /\ c.op = "dispatch" /\ c.start = start /\ c.id = id /\ c.types = types /\ c.nth = n
           /\ c.next = 0 /\ c.handler = 0
  BY DEF Dispatch, DispatchForm

LEMMA DispatchLater ==
    ASSUME NEW g, NEW W, NEW plans, Sound(g, W, plans), NEW n, n = Len(g.code) + 1,
           NEW c, Comparable(n, c), NEW W2, ComparedAt(W, W2, n, c), NEW h, h = Emit(g, c)
    PROVE  Sound(h, W2, plans) /\ Turns(g, W, h, W2, {n}) /\ Emitted(g, c, h)
<1>1. IsEmitter(g) /\ IsCode(g.code) /\ Len(g.code) \in Nat
  BY SoundIs DEF Sound, CodeOK
<1>2. PICK code2 : code2 = Append(g.code, c)
  OBVIOUS
<1>3. Len(code2) = n
  <2>1. PICK S : g.code \in Seq(S)
    BY <1>1 DEF IsCode
  <2>2. g.code \in Seq(S \cup {c})
    BY <2>1
  <2> QED
    BY <1>2, <2>2
<1>4. ASSUME NEW b, NEW s, NEW t, NEW r, <<b, s, t, r>> \in W2, <<b, s, t, r>> \notin W
      PROVE  b = n /\ WayOK(code2, W2, c, s, t, r)
  <2>1. b = n /\ s = "Throw" /\ Compared(c, t, r)
    BY <1>4 DEF ComparedAt
  <2>2. s \in Modes /\ t \in Keys(s) /\ r \in Routes
    BY <2>1 DEF Modes, Keys, Compared, States, ExceptionStates, NormalStates
  <2>3. DispatchWay(code2, W2, c, s, t, r)
    BY <2>1 DEF DispatchWay, Compared, Comparable
  <2> QED
    BY <2>1, <2>2, <2>3 DEF WayOK, Comparable
<1>5. BlockOK(code2, W2, plans, n, c)
  <2>1. DispatchOK(code2, c)
    BY <1>3 DEF DispatchOK, Comparable, Clauses
  <2> QED
    BY <2>1 DEF BlockOK, Ops, Comparable
<1>6. /\ Sound(h, W2, plans) /\ FreshWays(g.code, W, W2) /\ Emitted(g, c, h)
      /\ IsEmitter(h) /\ Keeps(g.code, h.code) /\ KeepsActs(g.code, h.code)
  <2>1. \A b, s, t, r : <<b, s, t, r>> \in W2 /\ <<b, s, t, r>> \notin W =>
            b = Len(g.code) + 1 /\ WayOK(Append(g.code, c), W2, c, s, t, r)
    BY <1>2, <1>4
  <2>2. BlockOK(Append(g.code, c), W2, plans, Len(g.code) + 1, c) /\ W \subseteq W2
    BY <1>2, <1>5 DEF ComparedAt
  <2> QED
    BY <2>1, <2>2, EmitSound
<1>7. Turns(g, W, h, W2, {n})
  <2>1. \A b \in 1 .. Len(g.code) : h.code[b] = g.code[b] /\ \A s, t, r : <<b, s, t, r>> \in W2 => <<b, s, t, r>> \in W
    BY <1>1, <1>4, <1>6 DEF Emitted
  <2>2. \A b \in Len(g.code) + 1 .. Len(h.code) : b \in {n}
    BY <1>1, <1>6 DEF Emitted
  <2>3. PICK D : D = {n}
    OBVIOUS
  <2>4. Turns(g, W, h, W2, D)
    BY <1>6, <2>1, <2>2, <2>3 DEF Turns, ComparedAt
  <2> QED
    BY <2>3, <2>4
<1> QED
  BY <1>6, <1>7

\* The first clause that fits.
LEMMA FirstForIs ==
    ASSUME NEW types, Clauses(types), NEW t, NEW k, k = FirstFor(types, t)
    PROVE  \/ k = 0 /\ \A i \in 1 .. Len(types) : ~IsA(t, types[i])
           \/ k \in 1 .. Len(types) /\ IsA(t, types[k]) /\ \A i \in 1 .. Len(types) : i < k => ~IsA(t, types[i])
<1>1. PICK fit : fit = {i \in DOMAIN types : IsA(t, types[i])}
  OBVIOUS
<1>2. k = IF fit = {} THEN 0 ELSE Min(fit)
  BY <1>1 DEF FirstFor
<1>3. DOMAIN types = 1 .. Len(types) /\ Len(types) \in Nat
  BY DEF Clauses
<1>4. CASE fit = {}
  BY <1>1, <1>2, <1>3, <1>4
<1>5. CASE fit # {}
  <2>1. fit \in SUBSET Nat /\ fit \in SUBSET Int
    BY <1>1, <1>3
  <2>2. PICK m \in fit : \A y \in fit : m <= y
    BY <1>5, <2>1, Least
  <2>3. k = m
    BY <1>2, <1>5, <2>1, <2>2, Minimum
  <2>4. m \in 1 .. Len(types) /\ IsA(t, types[m])
    BY <1>1, <1>3, <2>2
  <2>5. \A i \in 1 .. Len(types) : i < m => ~IsA(t, types[i])
    BY <1>1, <1>3, <2>2, <2>4
  <2> QED
    BY <2>3, <2>4, <2>5
<1> QED
  BY <1>4, <1>5

\* The clauses of a try, as they are pushed, the last one first.
TryClauses(d, n, types) == Reverse([i \in DOMAIN types |-> CatchException(d, n + i, types[i])])

IsClause(a, d, n, types, i) ==
    a \in Acts /\ IsNew(a) /\ a.kind = "CATCH" /\ a.id = n + i /\ a.body = "plain" /\ a.type = types[i] /\ a.to["Throw"] = d

LEMMA TryClausesAre ==
    ASSUME NEW types, Clauses(types), NEW d \in Nat, NEW n \in Nat, NEW new, new = TryClauses(d, n, types)
    PROVE  /\ Stackable(new) /\ Len(new) = Len(types)
           /\ \A j \in 1 .. Len(types) : IsClause(new[j], d, n, types, Len(types) + 1 - j)
<1>1. Len(types) \in Nat /\ DOMAIN types = 1 .. Len(types) /\ \A i \in 1 .. Len(types) : types[i] \in Types
  BY DEF Clauses
<1>2. PICK s : s = [i \in 1 .. Len(types) |-> CatchException(d, n + i, types[i])]
  OBVIOUS
<1>3. \A i \in 1 .. Len(types) : s[i] = CatchException(d, n + i, types[i])
  BY <1>2
<1>4. \A i \in 1 .. Len(types) : IsClause(s[i], d, n, types, i)
  <2>1. SUFFICES ASSUME NEW i \in 1 .. Len(types) PROVE IsClause(s[i], d, n, types, i)
    OBVIOUS
  <2>2. n + i \in Nat /\ types[i] \in Types
    BY <1>1
  <2>3. PICK m, t : m = n + i /\ t = types[i]
    OBVIOUS
  <2>4. m \in Nat /\ t \in Types /\ s[i] = CatchException(d, m, t)
    BY <1>3, <2>2, <2>3
  <2>5. PICK a : a = s[i]
    OBVIOUS
  <2>6. /\ a \in Acts /\ IsNew(a) /\ a.kind = "CATCH" /\ a.id = m /\ a.body = "plain" /\ a.type = t
        /\ a.to["Throw"] = d
    BY <2>4, <2>5, CatchExceptionIs
  <2> QED
    BY <2>3, <2>5, <2>6 DEF IsClause
<1>5. s \in Seq(Acts) /\ Len(s) = Len(types)
  <2>1. \A i \in 1 .. Len(types) : s[i] \in Acts
    BY <1>4 DEF IsClause
  <2> QED
    BY <1>1, <1>2, <2>1
<1>6. new = [j \in 1 .. Len(types) |-> s[(Len(types) - j) + 1]]
  BY <1>1, <1>2, <1>5 DEF TryClauses, Reverse
<1>7. \A j \in 1 .. Len(types) : new[j] = s[(Len(types) - j) + 1] /\ (Len(types) - j) + 1 \in 1 .. Len(types)
                                 /\ (Len(types) - j) + 1 = Len(types) + 1 - j
  BY <1>1, <1>6
<1>8. \A j \in 1 .. Len(types) : IsClause(new[j], d, n, types, Len(types) + 1 - j)
  BY <1>4, <1>7
<1>9. new \in Seq(Acts) /\ Len(new) = Len(types)
  <2>1. \A j \in 1 .. Len(types) : new[j] \in Acts
    BY <1>8 DEF IsClause
  <2> QED
    BY <1>1, <1>6, <2>1
<1>10. \A j \in 1 .. Len(types) : new[j].kind # "FUNCTIONMARKER" /\ (new[j].kind = "CATCH" => new[j].type \in Types)
  <2>1. SUFFICES ASSUME NEW j \in 1 .. Len(types)
                 PROVE  new[j].kind # "FUNCTIONMARKER" /\ new[j].type \in Types
    OBVIOUS
  <2>2. PICK i : i = Len(types) + 1 - j
    OBVIOUS
  <2>3. i \in 1 .. Len(types) /\ IsClause(new[j], d, n, types, i)
    BY <1>1, <1>8, <2>2
  <2> QED
    BY <1>1, <2>3 DEF IsClause
<1> QED
  BY <1>8, <1>9, <1>10 DEF Stackable

\* A clause of another type is passed.
LEMMA ClausePassed ==
    ASSUME NEW a, a.kind = "CATCH", NEW t, ~IsA(t, a.type)
    PROVE  ~Ends(a, "Throw", t) /\ ~Runs(a, "Throw")
  BY DEF Ends, Runs, IsTerminator, Terminators

\* Clauses are on the stack from b + 1 on.
HasClauses(stack2, b, d, n, types) ==
    /\ IsStack(stack2) /\ b \in Nat \ {0} /\ Len(stack2) = b + Len(types)
    /\ \A j \in 1 .. Len(types) : IsClause(stack2[b + j], d, n, types, Len(types) + 1 - j)

\* Where an exception goes that comes to these clauses.
LEMMA ClauseRoutes ==
    ASSUME NEW types, Clauses(types), NEW d \in Nat, NEW n \in Nat, NEW b, NEW stack2,
           HasClauses(stack2, b, d, n, types), NEW t \in Types, NEW k, k = FirstFor(types, t)
    PROVE  /\ k = 0 => RouteAt(stack2, Len(stack2), "Throw", t) = RouteAt(stack2, b, "Throw", t)
           /\ k # 0 => RouteAt(stack2, Len(stack2), "Throw", t) = TheRoute(<<>>, d, n + k)
<1>0. Len(types) \in Nat /\ b \in Nat /\ b >= 1 /\ IsStack(stack2) /\ Len(stack2) = b + Len(types)
  BY DEF Clauses, HasClauses
<1>1. \A j \in b + 1 .. Len(stack2) : IsClause(stack2[j], d, n, types, Len(types) + 1 - (j - b))
  <2>1. SUFFICES ASSUME NEW j \in b + 1 .. Len(stack2)
                 PROVE  IsClause(stack2[j], d, n, types, Len(types) + 1 - (j - b))
    OBVIOUS
  <2>2. PICK i : i = j - b
    OBVIOUS
  <2>3. i \in 1 .. Len(types) /\ j = b + i
    BY <1>0, <2>2
  <2>4. IsClause(stack2[b + i], d, n, types, Len(types) + 1 - i)
    BY <2>3 DEF HasClauses
  <2> QED
    BY <2>2, <2>3, <2>4
<1>2. \/ k = 0 /\ \A i \in 1 .. Len(types) : ~IsA(t, types[i])
      \/ k \in 1 .. Len(types) /\ IsA(t, types[k]) /\ \A i \in 1 .. Len(types) : i < k => ~IsA(t, types[i])
  BY FirstForIs
<1>3. \A j \in b + 1 .. Len(stack2) :
        ~IsA(t, types[Len(types) + 1 - (j - b)]) => ~Ends(stack2[j], "Throw", t) /\ ~Runs(stack2[j], "Throw")
  <2>1. SUFFICES ASSUME NEW j \in b + 1 .. Len(stack2), ~IsA(t, types[Len(types) + 1 - (j - b)])
                 PROVE  ~Ends(stack2[j], "Throw", t) /\ ~Runs(stack2[j], "Throw")
    OBVIOUS
  <2>2. PICK a : a = stack2[j]
    OBVIOUS
  <2>3. a.kind = "CATCH" /\ ~IsA(t, a.type)
    BY <1>1, <2>1, <2>2 DEF IsClause
  <2> QED
    BY <2>2, <2>3, ClausePassed
<1>4. PICK s : s = "Throw"
  OBVIOUS
<1>5. s \in Modes /\ t \in Keys(s)
  BY <1>4 DEF Modes, Keys, States, ExceptionStates, NormalStates
<1>6. CASE k = 0
  <2>1. EndsAt(stack2, b, s, t)
    BY <1>0, <1>4, ThrowEnds
  <2>2. \A j \in b + 1 .. Len(stack2) : ~Ends(stack2[j], s, t) /\ ~Runs(stack2[j], s)
    BY <1>0, <1>2, <1>3, <1>4, <1>6
  <2>3. PICK m : m = Len(stack2)
    OBVIOUS
  <2>4. b \in 1 .. Len(stack2) /\ m \in b .. Len(stack2) /\ \A j \in b + 1 .. m : ~Ends(stack2[j], s, t) /\ ~Runs(stack2[j], s)
    BY <1>0, <2>2, <2>3
  <2>5. RouteAt(stack2, m, s, t) = RouteAt(stack2, b, s, t)
    BY <1>0, <1>5, <2>1, <2>4, RouteInactive
  <2> QED
    BY <1>4, <1>6, <2>3, <2>5
<1>7. CASE k # 0
  <2>1. k \in 1 .. Len(types) /\ IsA(t, types[k]) /\ \A i \in 1 .. Len(types) : i < k => ~IsA(t, types[i])
    BY <1>2, <1>7
  <2>2. PICK p : p = b + (Len(types) + 1 - k)
    OBVIOUS
  <2>3. p \in b + 1 .. Len(stack2) /\ Len(types) + 1 - (p - b) = k
    BY <1>0, <2>1, <2>2, SMTT(30)
  <2>4. PICK a : a = stack2[p]
    OBVIOUS
  <2>5. IsClause(a, d, n, types, k)
    BY <1>1, <2>3, <2>4
  <2>6. a.kind = "CATCH" /\ a.id = n + k /\ IsA(t, a.type) /\ a.to[s] = d
    BY <1>4, <2>1, <2>5 DEF IsClause
  <2>7. Ends(a, s, t)
    BY <1>4, <2>6 DEF Ends
  <2>8. p \in 1 .. Len(stack2)
    BY <1>0, <2>3
  <2>9. RouteAt(stack2, p, s, t) = [todo |-> <<>>, goal |-> a.to[s], selector |-> a.id]
    BY <1>0, <1>5, <2>4, <2>6, <2>7, <2>8, RouteEnd
  <2>10. \A j \in p + 1 .. Len(stack2) : ~Ends(stack2[j], s, t) /\ ~Runs(stack2[j], s)
    <3>1. SUFFICES ASSUME NEW j \in p + 1 .. Len(stack2) PROVE ~Ends(stack2[j], s, t) /\ ~Runs(stack2[j], s)
      OBVIOUS
    <3>2. j \in b + 1 .. Len(stack2) /\ Len(types) + 1 - (j - b) \in 1 .. Len(types) /\ Len(types) + 1 - (j - b) < k
      BY <1>0, <2>1, <2>2, <3>1
    <3>3. PICK i : i = Len(types) + 1 - (j - b)
      OBVIOUS
    <3>4. ~IsA(t, types[i])
      BY <2>1, <3>2, <3>3
    <3> QED
      BY <1>3, <1>4, <3>2, <3>3, <3>4
  <2>11. EndsAt(stack2, p, s, t)
    BY <1>0, <1>4, <2>8, ThrowEnds
  <2>12. PICK m : m = Len(stack2)
    OBVIOUS
  <2>13. m \in p .. Len(stack2) /\ \A j \in p + 1 .. m : ~Ends(stack2[j], s, t) /\ ~Runs(stack2[j], s)
    BY <1>0, <2>8, <2>10, <2>12
  <2>14. RouteAt(stack2, m, s, t) = RouteAt(stack2, p, s, t)
    BY <1>0, <1>5, <2>8, <2>11, <2>13, RouteInactive
  <2> QED
    BY <1>4, <1>7, <2>6, <2>9, <2>12, <2>14 DEF TheRoute
<1> QED
  BY <1>6, <1>7

\* The clauses on the stack belong to the statements that there are.
ClausesUpTo(stack, n) == \A i \in 1 .. Len(stack) : stack[i].kind = "CATCH" => stack[i].id <= n

LEMMA SelectorUpTo ==
    ASSUME NEW stack, IsStack(stack), NEW n \in Nat, ClausesUpTo(stack, n), NEW t
    PROVE  RouteAt(stack, Len(stack), "Throw", t).selector \in 0 .. n
<1>1. Len(stack) \in 1 .. Len(stack) /\ stack \in Seq(Acts)
  BY DEF IsStack
<1>2. PICK I : I = {stack[i].id : i \in {j \in 1 .. Len(stack) : stack[j].kind = "CATCH"}}
  OBVIOUS
<1>3. I \subseteq 0 .. n
  <2>1. SUFFICES ASSUME NEW i \in 1 .. Len(stack), stack[i].kind = "CATCH" PROVE stack[i].id \in 0 .. n
    BY <1>2
  <2>2. stack[i] \in Acts
    BY <1>1
  <2>3. stack[i].id \in Nat
    BY <2>2 DEF Acts
  <2> QED
    BY <2>1, <2>3 DEF ClausesUpTo
<1>4. CatchTypes(stack) \in Seq([id : I, type : Types])
  BY <1>2, CatchTypesTyped
<1>5. HandleAction(CatchTypes(stack), t) \in I \cup {0}
  BY <1>4, HandleTyped
<1>6. RouteAt(stack, Len(stack), "Throw", t).selector = HandleAction(CatchTypes(stack), t)
  BY PlanRoute
<1>7. PICK v : v = HandleAction(CatchTypes(stack), t)
  OBVIOUS
<1>8. v \in 0 .. n
  <2>1. v \in I \/ v = 0
    BY <1>5, <1>7
  <2>2. 0 \in 0 .. n
    OBVIOUS
  <2> QED
    BY <1>3, <2>1, <2>2
<1> QED
  BY <1>6, <1>7, <1>8

\* The ways that begin at block d with what has to be done at the top of a stack.
ThrowWays(stack, d) == {<<d, "Throw", t, RouteAt(stack, Len(stack), "Throw", t)>> : t \in Types}
MoreThrows(W, stack, d) == W \cup ThrowWays(stack, d)

\* stack2 is stack, with clauses on it.
WithClauses(stack, d, n, types, stack2) ==
    /\ HasClauses(stack2, Len(stack), d, n, types)
    /\ \A i \in 1 .. Len(stack) : stack2[i] = stack[i]

LEMMA WithClausesIs ==
    ASSUME NEW stack, IsStack(stack), NEW types, Clauses(types), NEW d \in Nat, NEW n \in Nat,
           NEW stack2, stack2 = stack \o TryClauses(d, n, types)
    PROVE  WithClauses(stack, d, n, types, stack2)
<1>1. PICK new : new = TryClauses(d, n, types)
  OBVIOUS
<1>2. /\ Stackable(new) /\ Len(new) = Len(types)
      /\ \A j \in 1 .. Len(types) : IsClause(new[j], d, n, types, Len(types) + 1 - j)
  BY <1>1, TryClausesAre
<1>3. Joined(stack, new, stack2)
  BY <1>1, <1>2, ExtendedStack
<1>4. Len(stack) \in Nat \ {0} /\ Len(types) \in Nat
  BY DEF IsStack, Clauses
<1>5. ASSUME NEW j \in 1 .. Len(types) PROVE stack2[Len(stack) + j] = new[j]
  <2>1. PICK i : i = Len(stack) + j
    OBVIOUS
  <2>2. i \in Len(stack) + 1 .. Len(stack2) /\ i - Len(stack) = j
    BY <1>2, <1>3, <1>4, <2>1 DEF Joined
  <2> QED
    BY <1>3, <2>1, <2>2 DEF Joined
<1>6. HasClauses(stack2, Len(stack), d, n, types)
  BY <1>2, <1>3, <1>4, <1>5 DEF HasClauses, Joined
<1> QED
  BY <1>3, <1>6 DEF WithClauses, Joined

LEMMA WithClausesRoutes ==
    ASSUME NEW stack, IsStack(stack), NEW types, Clauses(types), NEW d \in Nat, NEW n \in Nat,
           NEW stack2, WithClauses(stack, d, n, types, stack2), NEW t \in Types, NEW k, k = FirstFor(types, t)
    PROVE  /\ k = 0 => RouteAt(stack2, Len(stack2), "Throw", t) = RouteAt(stack, Len(stack), "Throw", t)
           /\ k # 0 => RouteAt(stack2, Len(stack2), "Throw", t) = TheRoute(<<>>, d, n + k)
<1>1. PICK b : b = Len(stack)
  OBVIOUS
<1>2. HasClauses(stack2, b, d, n, types) /\ (\A i \in 1 .. b : stack2[i] = stack[i])
  BY <1>1 DEF WithClauses
<1>3. IsStack(stack2) /\ Len(stack2) = b + Len(types) /\ Len(types) \in Nat /\ b \in Nat /\ b >= 1
  BY <1>2 DEF HasClauses, Clauses
<1>4. /\ k = 0 => RouteAt(stack2, Len(stack2), "Throw", t) = RouteAt(stack2, b, "Throw", t)
      /\ k # 0 => RouteAt(stack2, Len(stack2), "Throw", t) = TheRoute(<<>>, d, n + k)
  BY <1>2, ClauseRoutes
<1>5. RouteAt(stack, b, "Throw", t) = RouteAt(stack2, b, "Throw", t)
  <2>1. EndsAt(stack, b, "Throw", t) /\ "Throw" \in Modes /\ t \in Keys("Throw")
    BY <1>1, <1>3, ThrowEnds
  <2>2. \A i \in 1 .. b : SameAs(stack[i], stack2[i])
    BY <1>2 DEF SameAs
  <2>3. b \in Nat /\ b <= Len(stack) /\ b <= Len(stack2)
    BY <1>1, <1>3
  <2>4. PICK s : s = "Throw"
    OBVIOUS
  <2>5. s \in Modes /\ t \in Keys(s) /\ EndsAt(stack, b, s, t)
    BY <2>1, <2>4
  <2>6. RouteAt(stack, b, s, t) = RouteAt(stack2, b, s, t)
    BY <1>3, <2>2, <2>3, <2>5, RouteSame
  <2> QED
    BY <2>4, <2>6
<1> QED
  BY <1>1, <1>4, <1>5

\* The clauses are compared in block d.
TryDispatch(d, n, types) == Dispatch(d, n + 1, types, 1)

LEMMA TryCompared ==
    ASSUME NEW stack, IsStack(stack), NEW types, Clauses(types), types # <<>>, NEW d \in Nat \ {0}, NEW n \in Nat,
           ClausesUpTo(stack, n), NEW stack2, WithClauses(stack, d, n, types, stack2),
           NEW c, c = TryDispatch(d, n, types)
    PROVE  /\ Comparable(d, c) /\ c.types = types /\ c.id = n + 1 /\ c.nth = 1 /\ c.start = d
           /\ \A t \in Types : Compared(c, t, RouteAt(stack2, Len(stack2), "Throw", t))
<1>1. /\ DispatchForm(c) /\ c.op = "dispatch" /\ c.start = d /\ c.id = n + 1 /\ c.types = types /\ c.nth = 1
      /\ c.next = 0 /\ c.handler = 0
  <2>1. PICK id, one : id = n + 1 /\ one = 1
    OBVIOUS
  <2>2. c = Dispatch(d, id, types, one)
    BY <2>1 DEF TryDispatch
  <2>3. /\ DispatchForm(c) /\ c.op = "dispatch" /\ c.start = d /\ c.id = id /\ c.types = types /\ c.nth = one
        /\ c.next = 0 /\ c.handler = 0
    BY <2>2, DispatchIs
  <2> QED
    BY <2>1, <2>3
<1>2. Len(types) \in Nat /\ Len(types) >= 1
  <2>1. types \in Seq(Types) /\ Len(types) \in Nat
    BY DEF Clauses
  <2> QED
    BY <2>1
<1>3. Comparable(d, c)
  BY <1>1, <1>2 DEF Comparable
<1>4. ASSUME NEW t \in Types PROVE Compared(c, t, RouteAt(stack2, Len(stack2), "Throw", t))
  <2>1. PICK r : r = RouteAt(stack2, Len(stack2), "Throw", t)
    OBVIOUS
  <2>2. PICK k : k = FirstFor(types, t)
    OBVIOUS
  <2>3. /\ k = 0 => r = RouteAt(stack, Len(stack), "Throw", t)
        /\ k # 0 => r = TheRoute(<<>>, d, n + k)
    BY <2>1, <2>2, WithClausesRoutes
  <2>4. IsStack(stack2) /\ Len(stack2) \in 1 .. Len(stack2)
    BY DEF WithClauses, HasClauses, IsStack
  <2>5. r \in Routes
    <3>1. PICK m : m = Len(stack2)
      OBVIOUS
    <3>2. EndsAt(stack2, m, "Throw", t) /\ "Throw" \in Modes /\ t \in Keys("Throw")
      BY <2>4, <3>1, ThrowEnds
    <3>3. PICK s : s = "Throw"
      OBVIOUS
    <3>4. RouteAt(stack2, m, s, t) \in Routes
      BY <2>4, <3>1, <3>2, <3>3, RouteTyped
    <3> QED
      BY <2>1, <3>1, <3>3, <3>4
  <2>6. RouteAt(stack, Len(stack), "Throw", t).selector \in 0 .. n
    BY SelectorUpTo
  <2>7. k = 0 \/ k \in 1 .. Len(types)
    BY <2>2, FirstForIs
  <2>8. k # 0 => k >= 1 /\ r.goal = d /\ r.todo = <<>> /\ r.selector = n + k
    BY <1>2, <2>3, <2>7 DEF TheRoute
  <2>9. k = 0 => r.selector \notin n + 1 .. n + Len(types)
    BY <1>2, <2>3, <2>6
  <2>10. c.id - c.nth = n /\ FirstFor(c.types, t) = k
    BY <1>1, <2>2
  <2>11. Compared(c, t, r)
    BY <1>1, <2>5, <2>8, <2>9, <2>10 DEF Compared
  <2> QED
    BY <2>1, <2>11
<1> QED
  BY <1>1, <1>3, <1>4

WithStack(g, stack) == [g EXCEPT !.stack = stack]

LEMMA StackIsAll ==
    ASSUME NEW g, IsEmitter(g), NEW stack, NEW h, h = WithStack(g, stack)
    PROVE  IsAll(h, stack, g.code, g.made)
<1>1. PICK old, code, made : old = g.stack /\ code = g.code /\ made = g.made
  OBVIOUS
<1>2. g = [stack |-> old, code |-> code, made |-> made]
  BY <1>1 DEF IsEmitter, Emitter
<1>3. h = [stack |-> stack, code |-> code, made |-> made]
  BY <1>2 DEF WithStack
<1>4. h = Emitter(stack, code, made)
  BY <1>3 DEF Emitter
<1>5. IsEmitter(h) /\ h.stack = stack /\ h.code = code /\ h.made = made
  BY <1>4, EmitterIs
<1> QED
  BY <1>1, <1>5 DEF IsAll

\* All ways to block d are ways of what is thrown at the top of the stack.
OnlyThrows(W, stack, d) ==
    \A s, t, r : <<d, s, t, r>> \in W =>
        s = "Throw" /\ t \in Types /\ r = RouteAt(stack, Len(stack), "Throw", t)
AllThrows(W, stack, d) ==
    \A t \in Types : <<d, "Throw", t, RouteAt(stack, Len(stack), "Throw", t)>> \in W

LEMMA ThrowWaysCompared ==
    ASSUME NEW W, NEW stack, NEW d, NEW c, NEW W2, W2 = MoreThrows(W, stack, d),
           \A t \in Types : Compared(c, t, RouteAt(stack, Len(stack), "Throw", t)),
           \A s, t, r : <<d, s, t, r>> \notin W
    PROVE  ComparedAt(W, W2, d, c) /\ AllThrows(W2, stack, d) /\ OnlyThrows(W2, stack, d)
<1>1. \A w : w \in W2 <=> w \in W \/ \E t \in Types : w = <<d, "Throw", t, RouteAt(stack, Len(stack), "Throw", t)>>
  BY DEF MoreThrows, ThrowWays
<1>2. ASSUME NEW b, NEW s, NEW t, NEW r, <<b, s, t, r>> \in W2, <<b, s, t, r>> \notin W
      PROVE  b = d /\ s = "Throw" /\ t \in Types /\ r = RouteAt(stack, Len(stack), "Throw", t)
  <2>1. PICK u \in Types : <<b, s, t, r>> = <<d, "Throw", u, RouteAt(stack, Len(stack), "Throw", u)>>
    BY <1>1, <1>2
  <2> QED
    BY <2>1
<1>3. ComparedAt(W, W2, d, c)
  BY <1>1, <1>2 DEF ComparedAt
<1>4. AllThrows(W2, stack, d)
  BY <1>1 DEF AllThrows
<1>5. OnlyThrows(W2, stack, d)
  BY <1>2 DEF OnlyThrows
<1> QED
  BY <1>3, <1>4, <1>5

\* Clauses are put onto a stack.
LEMMA ClausesSound ==
    ASSUME NEW g, NEW W, NEW plans, Sound(g, W, plans), NEW types, Clauses(types), NEW d \in Nat, NEW n \in Nat,
           NEW stack2, WithClauses(g.stack, d, n, types, stack2), AllThrows(W, stack2, d),
           NEW h, h = WithStack(g, stack2)
    PROVE  Sound(h, W, plans) /\ h.stack = stack2 /\ h.code = g.code
<1>1. IsEmitter(g) /\ CodeOK(g.code, W, plans) /\ Len(g.code) \in Nat /\ StackOK(g.stack, g.code, W, plans)
      /\ Len(g.stack) \in Nat
  BY SoundIs DEF Sound
<1>2. IsAll(h, stack2, g.code, g.made)
  BY <1>1, StackIsAll
<1>3. IsStack(stack2) /\ Len(stack2) = Len(g.stack) + Len(types) /\ Len(types) \in Nat
  BY DEF WithClauses, HasClauses, Clauses
<1>4. ASSUME NEW i \in Len(g.stack) + 1 .. Len(stack2)
      PROVE  IsNew(stack2[i]) /\ MarkOK(g.code, stack2[i]) /\ BodyOK(stack2, plans, i) /\ CatchOK(stack2, W, i)
  <2>1. PICK j : j = i - Len(g.stack)
    OBVIOUS
  <2>2. j \in 1 .. Len(types) /\ i = Len(g.stack) + j
    BY <1>1, <1>3, <2>1
  <2>3. PICK a : a = stack2[i]
    OBVIOUS
  <2>4. IsClause(a, d, n, types, Len(types) + 1 - j)
    BY <2>2, <2>3 DEF WithClauses, HasClauses
  <2>5. IsNew(a) /\ a.kind = "CATCH" /\ a.body = "plain" /\ a.to["Throw"] = d
    BY <2>4 DEF IsClause
  <2>6. MarkOK(g.code, a)
    BY <2>5 DEF MarkOK
  <2>7. BodyOK(stack2, plans, i)
    BY <2>3, <2>5 DEF BodyOK
  <2>8. CatchOK(stack2, W, i)
    <3>1. CASE i = Len(stack2)
      BY <2>3, <2>5, <3>1 DEF CatchOK, AllThrows
    <3>2. CASE i # Len(stack2)
      <4>1. j + 1 \in 1 .. Len(types) /\ i + 1 = Len(g.stack) + (j + 1)
        <5>1. PICK b, l, m : b = Len(g.stack) /\ l = Len(types) /\ m = Len(stack2)
          OBVIOUS
        <5>2. b \in Nat /\ l \in Nat /\ m = b + l /\ j \in 1 .. l /\ i = b + j /\ i # m
          BY <1>1, <1>3, <2>2, <3>2, <5>1
        <5>3. j + 1 \in 1 .. l /\ i + 1 = b + (j + 1)
          BY <5>2
        <5> QED
          BY <5>1, <5>3
      <4>2. IsClause(stack2[i + 1], d, n, types, Len(types) + 1 - (j + 1))
        BY <4>1 DEF WithClauses, HasClauses
      <4>3. stack2[i + 1].kind = "CATCH"
        BY <4>2 DEF IsClause
      <4> QED
        BY <3>2, <4>3 DEF CatchOK
    <3> QED
      BY <3>1, <3>2
  <2> QED
    BY <2>3, <2>5, <2>6, <2>7, <2>8
<1>5. StackOK(stack2, g.code, W, plans)
  <2>1. \A i \in 1 .. Len(g.stack) : stack2[i] = g.stack[i]
    BY DEF WithClauses
  <2>2. Len(g.stack) <= Len(stack2)
    BY <1>1, <1>3
  <2> QED
    BY <1>1, <1>3, <1>4, <2>1, <2>2, StackExtends
<1> QED
  BY <1>1, <1>2, <1>5 DEF Sound, IsAll

\* emitTry up to its scope.
TryPoints(g, n, types) == NewPoints(Emit(g, TryDispatch(Nth(g, 1), n, types)), 1)
TryOpen(g, n, types) ==
    WithStack(TryPoints(g, n, types), g.stack \o TryClauses(Nth(g, 1), n, types))

TryDone(g, W, h, W2, plans, d, n, types) ==
    /\ Sound(h, W2, plans) /\ Turns(g, W, h, W2, {d}) /\ WithClauses(g.stack, d, n, types, h.stack)
    /\ Len(h.code) = d + 1 /\ IsPoint(h.code, d + 1) /\ h.code[d] = TryDispatch(d, n, types)
    /\ OnlyThrows(W2, h.stack, d)

LEMMA TryOpened ==
    ASSUME NEW g, NEW W, NEW plans, Sound(g, W, plans), NEW types, Clauses(types), types # <<>>,
           NEW n \in Nat, ClausesUpTo(g.stack, n), NEW d, d = Len(g.code) + 1,
           NEW h, h = TryOpen(g, n, types)
    PROVE  \E W2 : TryDone(g, W, h, W2, plans, d, n, types)
<1>1. IsEmitter(g) /\ IsCode(g.code) /\ CodeOK(g.code, W, plans) /\ Len(g.code) \in Nat /\ IsStack(g.stack)
  BY SoundIs DEF Sound, CodeOK
<1>2. d \in Nat \ {0} /\ d \in Nat
  BY <1>1
<1>3. PICK c : c = TryDispatch(d, n, types)
  OBVIOUS
<1>4. PICK stack2 : stack2 = g.stack \o TryClauses(d, n, types)
  OBVIOUS
<1>5. WithClauses(g.stack, d, n, types, stack2)
  BY <1>1, <1>2, <1>4, WithClausesIs
<1>6. /\ Comparable(d, c) /\ c.types = types /\ c.id = n + 1 /\ c.nth = 1 /\ c.start = d
      /\ \A t \in Types : Compared(c, t, RouteAt(stack2, Len(stack2), "Throw", t))
  BY <1>1, <1>2, <1>3, <1>5, TryCompared
<1>7. \A s, t, r : <<d, s, t, r>> \notin W
  BY <1>1 DEF CodeOK
<1>8. PICK W2 : W2 = MoreThrows(W, stack2, d)
  OBVIOUS
<1>9. ComparedAt(W, W2, d, c) /\ AllThrows(W2, stack2, d) /\ OnlyThrows(W2, stack2, d)
  BY <1>6, <1>7, <1>8, ThrowWaysCompared
<1>10. PICK e : e = Emit(g, c)
  OBVIOUS
<1>11. Sound(e, W2, plans) /\ Turns(g, W, e, W2, {d}) /\ Emitted(g, c, e)
  BY <1>6, <1>9, <1>10, DispatchLater
<1>12. PICK k : k = NewPoints(e, 1)
  OBVIOUS
<1>13. /\ Sound(k, W2, plans) /\ Later(e, W2, k, W2) /\ k.stack = g.stack
       /\ Len(k.code) = d + 1 /\ IsPoint(k.code, d + 1) /\ k.code[d] = c
  <2>1. PICK one : one = 1
    OBVIOUS
  <2>2. one \in Nat /\ k = NewPoints(e, one)
    BY <1>12, <2>1
  <2>3. /\ Sound(k, W2, plans) /\ Later(e, W2, k, W2) /\ k.stack = e.stack
        /\ Len(k.code) = Len(e.code) + one
        /\ \A b \in Len(e.code) + 1 .. Len(e.code) + one : IsPoint(k.code, b)
    BY <1>11, <2>2, PointsLater
  <2>4. Len(e.code) = d /\ e.code[d] = c /\ e.stack = g.stack
    BY <1>11 DEF Emitted
  <2>5. k.code[d] = c
    BY <1>2, <1>6, <2>3, <2>4 DEF Later, Comparable
  <2>6. d + 1 \in Len(e.code) + 1 .. Len(e.code) + one
    BY <1>2, <2>1, <2>4
  <2>7. IsPoint(k.code, d + 1)
    BY <2>3, <2>6
  <2>8. Len(k.code) = d + 1
    BY <2>1, <2>3, <2>4
  <2> QED
    BY <2>3, <2>4, <2>5, <2>7, <2>8
<1>14. h = WithStack(k, stack2)
  BY <1>3, <1>4, <1>10, <1>12 DEF TryOpen, TryPoints, Nth
<1>15. Sound(h, W2, plans) /\ h.stack = stack2 /\ h.code = k.code
  <2>1. WithClauses(k.stack, d, n, types, stack2)
    BY <1>5, <1>13
  <2>2. Sound(k, W2, plans)
    BY <1>13
  <2> QED
    BY <1>2, <1>9, <1>14, <2>1, <2>2, ClausesSound
<1>16. Turns(g, W, h, W2, {d})
  <2>1. PICK D : D = {d}
    OBVIOUS
  <2>2. Turns(g, W, e, W2, D) /\ Turns(e, W2, k, W2, D)
    BY <1>11, <1>13, <2>1, LaterTurns
  <2>3. Len(e.code) \in Nat /\ Len(k.code) \in Nat
    BY <1>11, <1>13, SoundIs
  <2>4. Turns(g, W, k, W2, D)
    BY <1>1, <2>2, <2>3, TurnsTwice
  <2>5. Turns(g, W, h, W2, D)
    BY <1>15, <2>4 DEF Turns
  <2> QED
    BY <2>1, <2>5
<1>17. TryDone(g, W, h, W2, plans, d, n, types)
  BY <1>3, <1>5, <1>9, <1>13, <1>15, <1>16 DEF TryDone
<1> QED
  BY <1>17

-----------------------------------------------------------------------------
(***************************************************************************)
(* Constructs are opened.                                                  *)
(***************************************************************************)

\* stack2 is stack, with an action of kind k on it.
Pushed(stack, k, stack2) ==
    /\ Len(stack2) = Len(stack) + 1 /\ stack2[Len(stack) + 1].kind = k
    /\ \A i \in 1 .. Len(stack) : stack2[i] = stack[i]

\* The action is pushed, and nothing else.
PushedOn(g, W, plans, a, h) ==
    /\ Sound(h, W, plans) /\ Later(g, W, h, W) /\ h.code = g.code
    /\ Pushed(g.stack, a.kind, h.stack) /\ h.stack[Len(g.stack) + 1] = a

LEMMA PushLater ==
    ASSUME NEW g, NEW W, NEW plans, Sound(g, W, plans), NEW a, Pushable(g, plans, a), NEW h, h = Push(g, a)
    PROVE  PushedOn(g, W, plans, a, h)
<1>1. /\ Sound(h, W, plans) /\ h.code = g.code /\ h.made = g.made
      /\ Len(h.stack) = Len(g.stack) + 1 /\ h.stack[Len(g.stack) + 1] = a
      /\ \A i \in 1 .. Len(g.stack) : h.stack[i] = g.stack[i]
  BY PushSound
<1>2. Later(g, W, g, W)
  BY LaterSelf
<1>3. Later(g, W, h, W)
  BY <1>1, <1>2 DEF Later
<1> QED
  BY <1>1, <1>3 DEF PushedOn, Pushed

\* An action that leads to no code, as far as its kind goes.
LEMMA PlainPushable ==
    ASSUME NEW g, NEW plans, NEW a, a \in Acts, IsNew(a), a.body = "plain",
           a.kind \notin {"FUNCTIONMARKER", "CATCH", "SCOPEMARKER", "CONTROLFLOW"}
    PROVE  Pushable(g, plans, a)
  BY DEF Pushable, MarkOK

\* A scope is opened.
ScopeOpened(g, W, plans, h) ==
    /\ Sound(h, W, plans) /\ Later(g, W, h, W) /\ Pushed(g.stack, "SCOPEMARKER", h.stack)
    /\ Len(h.code) = Len(g.code) + 1

LEMMA OpenScopeLater ==
    ASSUME NEW g, NEW W, NEW plans, Sound(g, W, plans), NEW h, h = OpenScopeOf(g)
    PROVE  ScopeOpened(g, W, plans, h)
<1>0. Len(g.code) \in Nat
  BY SoundIs
<1>1. PICK n, one : n = Len(g.code) + 1 /\ one = 1
  OBVIOUS
<1>2. PICK k : k = NewPoints(g, one)
  OBVIOUS
<1>3. /\ Sound(k, W, plans) /\ Later(g, W, k, W) /\ k.stack = g.stack
      /\ Len(k.code) = n /\ IsPoint(k.code, n)
  <2>1. one \in Nat
    BY <1>1
  <2>2. /\ Sound(k, W, plans) /\ Later(g, W, k, W) /\ k.stack = g.stack
        /\ Len(k.code) = Len(g.code) + one
        /\ \A b \in Len(g.code) + 1 .. Len(g.code) + one : IsPoint(k.code, b)
    BY <1>2, <2>1, PointsLater
  <2>3. n \in Len(g.code) + 1 .. Len(g.code) + one
    BY <1>0, <1>1
  <2> QED
    BY <1>1, <2>2, <2>3
<1>4. PICK a : a = ScopeMarker(n)
  OBVIOUS
<1>5. a \in Acts /\ IsNew(a) /\ a.kind = "SCOPEMARKER" /\ a.body = "plain" /\ a.to["Normal"] = n
  <2>1. n \in Nat
    BY <1>0, <1>1
  <2> QED
    BY <1>4, <2>1, ScopeMarkerIs
<1>6. Pushable(k, plans, a)
  BY <1>3, <1>5 DEF Pushable, MarkOK
<1>7. h = Push(k, a)
  BY <1>1, <1>2, <1>4 DEF OpenScopeOf, Nth
<1>8. PushedOn(k, W, plans, a, h)
  BY <1>3, <1>6, <1>7, PushLater
<1>9. Len(k.code) \in Nat /\ Len(h.code) \in Nat
  BY <1>3, <1>8, SoundIs DEF PushedOn
<1>10. Later(g, W, h, W)
  BY <1>0, <1>3, <1>8, <1>9, LaterTwice DEF PushedOn
<1> QED
  BY <1>1, <1>3, <1>5, <1>8, <1>10 DEF PushedOn, ScopeOpened

\* What a catch puts on the stack.
CatchShape(stack, stack2) ==
    /\ Len(stack2) = Len(stack) + 4
    /\ stack2[Len(stack) + 1].kind = "SCOPEMARKER" /\ stack2[Len(stack) + 2].kind = "RETHROWSCOPE"
    /\ stack2[Len(stack) + 3].kind = "DESTROYEXCEPTION" /\ stack2[Len(stack) + 4].kind = "SCOPEMARKER"
    /\ \A i \in 1 .. Len(stack) : stack2[i] = stack[i]

LEMMA CatchShapeIs ==
    ASSUME NEW a, NEW b, NEW c, NEW d, NEW e, Len(a) \in Nat,
           Pushed(a, "SCOPEMARKER", b), Pushed(b, "RETHROWSCOPE", c), Pushed(c, "DESTROYEXCEPTION", d),
           Pushed(d, "SCOPEMARKER", e)
    PROVE  CatchShape(a, e)
<1>1. PICK n : n = Len(a)
  OBVIOUS
<1>2. n \in Nat /\ Len(a) = n /\ Len(b) = n + 1 /\ Len(c) = n + 2 /\ Len(d) = n + 3 /\ Len(e) = n + 4
  BY <1>1 DEF Pushed
<1>3. /\ \A i \in 1 .. n : b[i] = a[i]
      /\ \A i \in 1 .. n + 1 : c[i] = b[i]
      /\ \A i \in 1 .. n + 2 : d[i] = c[i]
      /\ \A i \in 1 .. n + 3 : e[i] = d[i]
  BY <1>2 DEF Pushed
<1>4. /\ b[n + 1].kind = "SCOPEMARKER" /\ c[n + 2].kind = "RETHROWSCOPE" /\ d[n + 3].kind = "DESTROYEXCEPTION"
      /\ e[n + 4].kind = "SCOPEMARKER"
  <2>1. b[n + 1].kind = "SCOPEMARKER"
    BY <1>1 DEF Pushed
  <2>2. c[n + 2].kind = "RETHROWSCOPE"
    <3>1. c[Len(b) + 1].kind = "RETHROWSCOPE"
      BY DEF Pushed
    <3>2. Len(b) + 1 = n + 2
      BY <1>2
    <3> QED
      BY <3>1, <3>2
  <2>3. d[n + 3].kind = "DESTROYEXCEPTION"
    <3>1. d[Len(c) + 1].kind = "DESTROYEXCEPTION"
      BY DEF Pushed
    <3>2. Len(c) + 1 = n + 3
      BY <1>2
    <3> QED
      BY <3>1, <3>2
  <2>4. e[n + 4].kind = "SCOPEMARKER"
    <3>1. e[Len(d) + 1].kind = "SCOPEMARKER"
      BY DEF Pushed
    <3>2. Len(d) + 1 = n + 4
      BY <1>2
    <3> QED
      BY <3>1, <3>2
  <2> QED
    BY <2>1, <2>2, <2>3, <2>4
<1>5. e[n + 1] = b[n + 1] /\ e[n + 2] = c[n + 2] /\ e[n + 3] = d[n + 3] /\ \A i \in 1 .. n : e[i] = a[i]
  BY <1>2, <1>3
<1> QED
  BY <1>1, <1>2, <1>4, <1>5 DEF CatchShape

\* The start of a catch.
CatchBegun(g, W, plans, d, n, h) ==
    /\ Sound(h, W, plans) /\ Turns(g, W, h, W, {d}) /\ CatchShape(g.stack, h.stack)
    /\ h.code[d] = WithHandler(g.code[d], n) /\ IsPoint(h.code, n)

LEMMA CatchBegins ==
    ASSUME NEW g, NEW W, NEW plans, Sound(g, W, plans), NEW d \in 1 .. Len(g.code), g.code[d].op = "dispatch",
           NEW n, n = Len(g.code) + 1, NEW h, h = BeginCatch(g, d)
    PROVE  CatchBegun(g, W, plans, d, n, h)
<1>0. Len(g.code) \in Nat /\ Len(g.stack) \in Nat /\ DispatchOK(g.code, g.code[d])
  BY SoundIs DEF Sound, CodeOK, BlockOK
<1>1. PICK id : id = g.code[d].id
  OBVIOUS
<1>2. PICK g1 : g1 = HandlerAt(g, d)
  OBVIOUS
<1>3. PICK g2 : g2 = OpenScopeOf(g1)
  OBVIOUS
<1>4. PICK g3 : g3 = Push(g2, RethrowScope)
  OBVIOUS
<1>5. PICK g4 : g4 = Push(g3, DestroyException(id))
  OBVIOUS
<1>6. h = OpenScopeOf(g4)
  BY <1>1, <1>2, <1>3, <1>4, <1>5 DEF BeginCatch, HandlerAt
<1>7. /\ Sound(g1, W, plans) /\ Turns(g, W, g1, W, {d}) /\ g1.stack = g.stack
      /\ Len(g1.code) = n /\ IsPoint(g1.code, n) /\ g1.code[d] = WithHandler(g.code[d], n)
  <2>1. HandlerDone(g, W, plans, d, n, g1)
    BY <1>2, HandlerTurns
  <2> QED
    BY <2>1 DEF HandlerDone
<1>8. ScopeOpened(g1, W, plans, g2)
  BY <1>3, <1>7, OpenScopeLater
<1>9. PushedOn(g2, W, plans, RethrowScope, g3) /\ RethrowScope.kind = "RETHROWSCOPE"
  <2>1. PICK a : a = RethrowScope
    OBVIOUS
  <2>2. a \in Acts /\ IsNew(a) /\ a.kind = "RETHROWSCOPE" /\ a.body = "plain"
    <3>1. PICK m \in Nat : m = 0
      OBVIOUS
    <3> QED
      BY <2>1, PlainIs
  <2>3. Pushable(g2, plans, a)
    BY <2>2, PlainPushable
  <2>4. Sound(g2, W, plans) /\ g3 = Push(g2, a)
    BY <1>4, <1>8, <2>1 DEF ScopeOpened
  <2>5. PushedOn(g2, W, plans, a, g3)
    BY <2>3, <2>4, PushLater
  <2> QED
    BY <2>1, <2>2, <2>5
<1>10. PushedOn(g3, W, plans, DestroyException(id), g4) /\ DestroyException(id).kind = "DESTROYEXCEPTION"
  <2>1. PICK a : a = DestroyException(id)
    OBVIOUS
  <2>2. a \in Acts /\ IsNew(a) /\ a.kind = "DESTROYEXCEPTION" /\ a.body = "plain"
    <3>1. id \in Nat
      BY <1>0, <1>1 DEF DispatchOK
    <3> QED
      BY <2>1, <3>1, PlainIs
  <2>3. Pushable(g3, plans, a)
    BY <2>2, PlainPushable
  <2>4. Sound(g3, W, plans) /\ g4 = Push(g3, a)
    BY <1>5, <1>9, <2>1 DEF PushedOn
  <2>5. PushedOn(g3, W, plans, a, g4)
    BY <2>3, <2>4, PushLater
  <2> QED
    BY <2>1, <2>2, <2>5
<1>11. ScopeOpened(g4, W, plans, h)
  <2>1. Sound(g4, W, plans)
    BY <1>10 DEF PushedOn
  <2> QED
    BY <1>6, <2>1, OpenScopeLater
<1>12. CatchShape(g.stack, h.stack)
  <2>1. /\ Pushed(g1.stack, "SCOPEMARKER", g2.stack) /\ Pushed(g2.stack, "RETHROWSCOPE", g3.stack)
        /\ Pushed(g3.stack, "DESTROYEXCEPTION", g4.stack) /\ Pushed(g4.stack, "SCOPEMARKER", h.stack)
    BY <1>8, <1>9, <1>10, <1>11 DEF ScopeOpened, PushedOn
  <2>2. Len(g1.stack) \in Nat
    BY <1>0, <1>7
  <2>3. CatchShape(g1.stack, h.stack)
    BY <2>1, <2>2, CatchShapeIs
  <2> QED
    BY <1>7, <2>3
<1>13. Len(g1.code) \in Nat /\ Len(g2.code) \in Nat /\ Len(g3.code) \in Nat /\ Len(g4.code) \in Nat /\ Len(h.code) \in Nat
  <2>1. Sound(g1, W, plans) /\ Sound(g2, W, plans) /\ Sound(g3, W, plans) /\ Sound(g4, W, plans) /\ Sound(h, W, plans)
    BY <1>7, <1>8, <1>9, <1>10, <1>11 DEF ScopeOpened, PushedOn
  <2> QED
    BY <2>1, SoundIs
<1>14. Later(g1, W, h, W)
  <2>1. Later(g1, W, g2, W) /\ Later(g2, W, g3, W) /\ Later(g3, W, g4, W) /\ Later(g4, W, h, W)
    BY <1>8, <1>9, <1>10, <1>11 DEF ScopeOpened, PushedOn
  <2>2. Later(g1, W, g3, W)
    BY <1>13, <2>1, LaterTwice
  <2>3. Later(g1, W, g4, W)
    BY <1>13, <2>1, <2>2, LaterTwice
  <2> QED
    BY <1>13, <2>1, <2>3, LaterTwice
<1>15. Turns(g, W, h, W, {d})
  <2>1. PICK D : D = {d}
    OBVIOUS
  <2>2. Turns(g, W, g1, W, D) /\ Turns(g1, W, h, W, D)
    BY <1>7, <1>14, <2>1, LaterTurns
  <2>3. Turns(g, W, h, W, D)
    BY <1>0, <1>13, <2>2, TurnsTwice
  <2> QED
    BY <2>1, <2>3
<1>16. IsPoint(h.code, n)
  BY <1>7, <1>13, <1>14, PointLater
<1>17. h.code[d] = WithHandler(g.code[d], n)
  <2>1. d \in 1 .. Len(g1.code)
    BY <1>0, <1>7
  <2>2. g1.code[d].op = "dispatch"
    BY <1>7 DEF Turns, Keeps
  <2> QED
    BY <1>7, <1>14, <2>1, <2>2 DEF Later
<1> QED
  BY <1>11, <1>12, <1>15, <1>16, <1>17 DEF CatchBegun, ScopeOpened

-----------------------------------------------------------------------------
(***************************************************************************)
(* The constructs that are open, cs, on the stack: what was there when the *)
(* k-th was opened ends at H[k], and the marker of its scope is at M[k].   *)
(***************************************************************************)
PlainKinds == {"DESTRUCTOR", "SCOPEEXIT"}

Shape(stack, w, b, m) ==
    /\ w \in {"scope", "loop", "try", "catch"} /\ b < m
    /\ w = "scope" => m = b + 1
    /\ w = "loop"  => m = b + 2 /\ stack[b + 1].kind = "CONTROLFLOW"
    /\ w = "try"   => b + 2 <= m /\ \A i \in b + 1 .. m - 1 : stack[i].kind = "CATCH"
    /\ w = "catch" => /\ m = b + 4 /\ stack[b + 1].kind = "SCOPEMARKER" /\ stack[b + 2].kind = "RETHROWSCOPE"
                      /\ stack[b + 3].kind = "DESTROYEXCEPTION"

\* Construct k is where it should be.
LayerAt(stack, cs, H, M, k) ==
    /\ H[k] \in 3 .. Len(stack) /\ M[k] \in 3 .. Len(stack) /\ Shape(stack, cs[k].what, H[k], M[k])
    /\ stack[M[k]].kind = "SCOPEMARKER"
    /\ \A i \in M[k - 1] + 1 .. H[k] : stack[i].kind \in PlainKinds

Layered(stack, cs, H, M) ==
    /\ Len(cs) \in Nat /\ Len(stack) \in Nat /\ 3 <= Len(stack) /\ M[0] = 3
    /\ stack[2].kind = "SCOPEMARKER" /\ stack[3].kind = "SCOPEMARKER" /\ M[Len(cs)] \in 3 .. Len(stack)
    /\ \A k \in 1 .. Len(cs) : LayerAt(stack, cs, H, M, k)
    /\ \A k \in 0 .. Len(cs), j \in 1 .. Len(cs) : k < j => M[k] <= H[j]
    /\ \A i \in M[Len(cs)] + 1 .. Len(stack) : stack[i].kind \in PlainKinds

\* The kinds of the actions up to position n are the same.
SameKinds(stack, stack2, n) == \A i \in 1 .. n : stack2[i].kind = stack[i].kind

LEMMA ShapeSame ==
    ASSUME NEW stack, NEW stack2, NEW w, NEW b \in Nat, NEW m \in Nat, SameKinds(stack, stack2, m), Shape(stack, w, b, m)
    PROVE  Shape(stack2, w, b, m)
  BY DEF Shape, SameKinds

LEMMA LayerSame ==
    ASSUME NEW stack, NEW stack2, Len(stack) \in Nat, Len(stack2) \in Nat, NEW n \in Nat, n <= Len(stack2),
           SameKinds(stack, stack2, n), NEW cs, NEW cs2, NEW H, NEW M, NEW H2, NEW M2, NEW k, LayerAt(stack, cs, H, M, k),
           cs2[k].what = cs[k].what, H2[k] = H[k], M2[k] = M[k], M2[k - 1] = M[k - 1], M[k - 1] \in Nat, M[k] <= n
    PROVE  LayerAt(stack2, cs2, H2, M2, k)
<1>1. PICK b, m, l, w : b = H[k] /\ m = M[k] /\ l = M[k - 1] /\ w = cs[k].what
  OBVIOUS
<1>2. /\ b \in 3 .. Len(stack) /\ m \in 3 .. Len(stack) /\ Shape(stack, w, b, m)
      /\ stack[m].kind = "SCOPEMARKER" /\ \A i \in l + 1 .. b : stack[i].kind \in PlainKinds
  BY <1>1 DEF LayerAt
<1>3. b < m /\ m <= n /\ b \in Nat /\ m \in Nat /\ l \in Nat
  BY <1>1, <1>2 DEF Shape
<1>4. SameKinds(stack, stack2, m)
  BY <1>3 DEF SameKinds
<1>5. Shape(stack2, w, b, m)
  BY <1>2, <1>3, <1>4, ShapeSame
<1>6. stack2[m].kind = "SCOPEMARKER" /\ \A i \in l + 1 .. b : stack2[i].kind \in PlainKinds
  BY <1>2, <1>3 DEF SameKinds
<1>7. b \in 3 .. Len(stack2) /\ m \in 3 .. Len(stack2)
  BY <1>2, <1>3
<1> QED
  BY <1>1, <1>5, <1>6, <1>7 DEF LayerAt

\* The marker of the innermost scope.
LEMMA LayeredTop ==
    ASSUME NEW stack, NEW cs, NEW H, NEW M, Layered(stack, cs, H, M)
    PROVE  TopScope(stack, M[Len(cs)])
<1>1. PICK m : m = M[Len(cs)]
  OBVIOUS
<1>2. Len(cs) \in Nat /\ Len(stack) \in Nat /\ m \in 3 .. Len(stack)
      /\ \A i \in m + 1 .. Len(stack) : stack[i].kind \in PlainKinds
  BY <1>1 DEF Layered
<1>3. stack[m].kind = "SCOPEMARKER"
  <2>1. CASE Len(cs) = 0
    BY <1>1, <2>1 DEF Layered
  <2>2. CASE Len(cs) # 0
    <3>1. Len(cs) \in 1 .. Len(cs)
      BY <1>2, <2>2
    <3> QED
      BY <1>1, <3>1 DEF Layered, LayerAt
  <2> QED
    BY <2>1, <2>2
<1>4. \A i \in m + 1 .. Len(stack) : stack[i].kind # "SCOPEMARKER"
  BY <1>2 DEF PlainKinds
<1>5. TopScope(stack, m)
  BY <1>2, <1>3, <1>4 DEF TopScope
<1> QED
  BY <1>1, <1>5

\* The innermost construct: what is at the top is no clause of a try.
LEMMA LayeredTopKind ==
    ASSUME NEW stack, NEW cs, NEW H, NEW M, Layered(stack, cs, H, M)
    PROVE  /\ stack[Len(stack)].kind # "CATCH"
           /\ \A k \in 1 .. Len(cs) : stack[H[k]].kind # "CATCH"
<1>1. Len(cs) \in Nat /\ Len(stack) \in Nat
  BY DEF Layered
<1>2. \A k \in 0 .. Len(cs) : stack[M[k]].kind = "SCOPEMARKER" /\ M[k] \in 3 .. Len(stack)
  <2>1. SUFFICES ASSUME NEW k \in 0 .. Len(cs) PROVE stack[M[k]].kind = "SCOPEMARKER" /\ M[k] \in 3 .. Len(stack)
    OBVIOUS
  <2>2. CASE k = 0
    BY <2>2 DEF Layered
  <2>3. CASE k # 0
    <3>1. k \in 1 .. Len(cs)
      BY <1>1, <2>3
    <3> QED
      BY <3>1 DEF Layered, LayerAt
  <2> QED
    BY <2>2, <2>3
<1>3. stack[Len(stack)].kind # "CATCH"
  <2>1. PICK m : m = M[Len(cs)]
    OBVIOUS
  <2>2. stack[m].kind = "SCOPEMARKER" /\ m \in 3 .. Len(stack)
    BY <1>1, <1>2, <2>1
  <2>3. m = Len(stack) \/ Len(stack) \in m + 1 .. Len(stack)
    BY <1>1, <2>2
  <2>4. Len(stack) \in m + 1 .. Len(stack) => stack[Len(stack)].kind \in PlainKinds
    BY <2>1 DEF Layered
  <2> QED
    BY <2>2, <2>3, <2>4 DEF PlainKinds
<1>4. ASSUME NEW k \in 1 .. Len(cs) PROVE stack[H[k]].kind # "CATCH"
  <2>1. PICK m, b : m = M[k - 1] /\ b = H[k]
    OBVIOUS
  <2>2. k - 1 \in 0 .. Len(cs) /\ k - 1 < k
    BY <1>1
  <2>3. stack[m].kind = "SCOPEMARKER" /\ m \in 3 .. Len(stack)
    BY <1>2, <2>1, <2>2
  <2>4. m <= b /\ b \in 3 .. Len(stack) /\ \A i \in m + 1 .. b : stack[i].kind \in PlainKinds
    BY <2>1, <2>2 DEF Layered, LayerAt
  <2>5. b = m \/ b \in m + 1 .. b
    BY <1>1, <2>3, <2>4
  <2>6. stack[b].kind = "SCOPEMARKER" \/ stack[b].kind \in PlainKinds
    BY <2>3, <2>4, <2>5
  <2> QED
    BY <2>1, <2>6 DEF PlainKinds
<1> QED
  BY <1>3, <1>4

\* Nothing is open but the function.
LEMMA LayeredBase ==
    ASSUME NEW stack, Len(stack) = 3, stack[2].kind = "SCOPEMARKER", stack[3].kind = "SCOPEMARKER", NEW H, NEW M, M[0] = 3
    PROVE  Layered(stack, <<>>, H, M)
  BY DEF Layered

\* What is above the innermost marker may be different.
LEMMA LayeredSame ==
    ASSUME NEW stack, NEW cs, NEW H, NEW M, Layered(stack, cs, H, M), NEW stack2, Len(stack2) \in Nat,
           NEW n \in Nat, n <= Len(stack2), n <= Len(stack), SameKinds(stack, stack2, n), M[Len(cs)] <= n,
           \A i \in n + 1 .. Len(stack2) : stack2[i].kind \in PlainKinds
    PROVE  Layered(stack2, cs, H, M)
<1>1. PICK l : l = Len(cs)
  OBVIOUS
<1>2. /\ l \in Nat /\ Len(stack) \in Nat /\ M[0] = 3 /\ M[l] \in 3 .. Len(stack)
      /\ \A k \in 1 .. l : LayerAt(stack, cs, H, M, k)
      /\ \A k \in 0 .. l, j \in 1 .. l : k < j => M[k] <= H[j]
      /\ \A i \in M[l] + 1 .. Len(stack) : stack[i].kind \in PlainKinds
      /\ stack[2].kind = "SCOPEMARKER" /\ stack[3].kind = "SCOPEMARKER"
  BY <1>1 DEF Layered
<1>3. \A k \in 0 .. l : M[k] \in 3 .. n
  <2>1. SUFFICES ASSUME NEW k \in 0 .. l PROVE M[k] \in 3 .. n
    OBVIOUS
  <2>2. CASE k = l
    BY <1>1, <1>2, <2>2
  <2>3. CASE k # l
    <3>1. l \in 1 .. l /\ k < l
      BY <1>2, <2>3
    <3>2. M[k] <= H[l] /\ LayerAt(stack, cs, H, M, l)
      BY <1>2, <3>1
    <3>3. H[l] \in 3 .. Len(stack) /\ H[l] < M[l]
      BY <3>2 DEF LayerAt, Shape
    <3>4. M[k] \in 3 .. Len(stack)
      <4>1. CASE k = 0
        BY <1>2, <4>1, <3>3
      <4>2. CASE k # 0
        BY <1>2, <4>2 DEF LayerAt
      <4> QED
        BY <4>1, <4>2
    <3> QED
      BY <1>1, <1>2, <3>2, <3>3, <3>4
  <2> QED
    BY <2>2, <2>3
<1>4. \A k \in 1 .. l : LayerAt(stack2, cs, H, M, k)
  <2>1. SUFFICES ASSUME NEW k \in 1 .. l PROVE LayerAt(stack2, cs, H, M, k)
    OBVIOUS
  <2>2. k - 1 \in 0 .. l /\ k \in 0 .. l
    BY <1>2
  <2>3. M[k - 1] \in Nat /\ M[k] <= n
    BY <1>3, <2>2
  <2>4. LayerAt(stack, cs, H, M, k)
    BY <1>2
  <2> QED
    BY <1>2, <2>3, <2>4, LayerSame
<1>5. \A i \in M[l] + 1 .. Len(stack2) : stack2[i].kind \in PlainKinds
  <2>1. SUFFICES ASSUME NEW i \in M[l] + 1 .. Len(stack2) PROVE stack2[i].kind \in PlainKinds
    OBVIOUS
  <2>2. M[l] \in 3 .. n
    BY <1>2, <1>3
  <2>3. CASE i <= n
    <3>1. i \in 1 .. n /\ i \in M[l] + 1 .. Len(stack)
      BY <1>2, <2>1, <2>2, <2>3
    <3> QED
      BY <1>2, <3>1 DEF SameKinds
  <2>4. CASE ~(i <= n)
    <3>1. i \in n + 1 .. Len(stack2)
      BY <2>1, <2>2, <2>4
    <3> QED
      BY <3>1
  <2> QED
    BY <2>3, <2>4
<1>6. stack2[2].kind = "SCOPEMARKER" /\ stack2[3].kind = "SCOPEMARKER" /\ 3 <= Len(stack2) /\ M[l] \in 3 .. Len(stack2)
  <2>1. M[l] \in 3 .. n
    BY <1>2, <1>3
  <2> QED
    BY <1>2, <2>1 DEF SameKinds
<1> QED
  BY <1>1, <1>2, <1>4, <1>5, <1>6 DEF Layered

LEMMA LayeredSimilar ==
    ASSUME NEW stack, NEW cs, NEW H, NEW M, Layered(stack, cs, H, M), NEW stack2, Similar(stack, stack2)
    PROVE  Layered(stack2, cs, H, M)
<1>1. PICK n : n = Len(stack)
  OBVIOUS
<1>2. n \in Nat /\ Len(stack2) = n /\ SameKinds(stack, stack2, n) /\ M[Len(cs)] <= n
  BY <1>1 DEF Layered, Similar, SameAs, SameKinds
<1>3. \A i \in n + 1 .. Len(stack2) : stack2[i].kind \in PlainKinds
  BY <1>2
<1>4. Len(stack2) \in Nat /\ n <= Len(stack2) /\ n <= Len(stack)
  BY <1>1, <1>2
<1> QED
  BY <1>2, <1>3, <1>4, LayeredSame

LEMMA LayeredPush ==
    ASSUME NEW stack, NEW cs, NEW H, NEW M, Layered(stack, cs, H, M), NEW k \in PlainKinds,
           NEW stack2, Pushed(stack, k, stack2)
    PROVE  Layered(stack2, cs, H, M)
<1>1. PICK n : n = Len(stack)
  OBVIOUS
<1>2. n \in Nat /\ Len(stack2) = n + 1 /\ SameKinds(stack, stack2, n) /\ M[Len(cs)] <= n
  BY <1>1 DEF Layered, Pushed, SameKinds
<1>3. \A i \in n + 1 .. Len(stack2) : stack2[i].kind \in PlainKinds
  <2>1. SUFFICES ASSUME NEW i \in n + 1 .. Len(stack2) PROVE stack2[i].kind \in PlainKinds
    OBVIOUS
  <2>2. i = n + 1
    BY <1>2, <2>1
  <2> QED
    BY <1>1, <2>2 DEF Pushed
<1>4. Len(stack2) \in Nat /\ n <= Len(stack2) /\ n <= Len(stack)
  BY <1>1, <1>2
<1> QED
  BY <1>2, <1>3, <1>4, LayeredSame

\* The innermost construct is closed.
LEMMA LayeredClose ==
    ASSUME NEW stack, NEW cs, NEW H, NEW M, Layered(stack, cs, H, M), NEW n \in Nat, Len(cs) = n + 1,
           NEW cs2, Len(cs2) = n, \A k \in 1 .. n : cs2[k] = cs[k],
           NEW stack2, CutTo(stack, H[n + 1], stack2)
    PROVE  Layered(stack2, cs2, H, M)
<1>1. PICK l : l = n + 1
  OBVIOUS
<1>2. /\ Len(cs) = l /\ l \in Nat /\ Len(stack) \in Nat /\ M[0] = 3 /\ M[l] \in 3 .. Len(stack)
      /\ \A k \in 1 .. l : LayerAt(stack, cs, H, M, k)
      /\ \A k \in 0 .. l, j \in 1 .. l : k < j => M[k] <= H[j]
      /\ stack[2].kind = "SCOPEMARKER" /\ stack[3].kind = "SCOPEMARKER"
  BY <1>1 DEF Layered
<1>3. PICK b : b = H[l]
  OBVIOUS
<1>4. b \in 3 .. Len(stack) /\ l \in 1 .. l /\ \A i \in M[n] + 1 .. b : stack[i].kind \in PlainKinds
  <2>1. l \in 1 .. l /\ l - 1 = n
    BY <1>1, <1>2
  <2>2. LayerAt(stack, cs, H, M, l)
    BY <1>2, <2>1
  <2> QED
    BY <1>3, <2>1, <2>2 DEF LayerAt
<1>5. \A k \in 0 .. n : M[k] \in 3 .. b
  <2>1. SUFFICES ASSUME NEW k \in 0 .. n PROVE M[k] \in 3 .. b
    OBVIOUS
  <2>2. k \in 0 .. l /\ k < l
    BY <1>1, <2>1
  <2>3. M[k] <= b
    BY <1>2, <1>3, <1>4, <2>2
  <2>4. M[k] \in 3 .. Len(stack)
    <3>1. CASE k = 0
      BY <1>2, <1>4, <3>1
    <3>2. CASE k # 0
      <4>1. k \in 1 .. l
        BY <2>2, <3>2
      <4> QED
        BY <1>2, <4>1 DEF LayerAt
    <3> QED
      BY <3>1, <3>2
  <2> QED
    BY <1>4, <2>3, <2>4
<1>6. Len(stack2) = b /\ SameKinds(stack, stack2, b) /\ b \in Nat
  BY <1>1, <1>3, <1>4 DEF CutTo, SameAs, SameKinds
<1>7. \A k \in 1 .. n : LayerAt(stack2, cs2, H, M, k)
  <2>1. SUFFICES ASSUME NEW k \in 1 .. n PROVE LayerAt(stack2, cs2, H, M, k)
    OBVIOUS
  <2>2. k - 1 \in 0 .. n /\ k \in 0 .. n /\ k \in 1 .. l
    BY <1>1
  <2>3. M[k - 1] \in Nat /\ M[k] <= b /\ cs2[k].what = cs[k].what
    BY <1>5, <2>2
  <2>4. LayerAt(stack, cs, H, M, k)
    BY <1>2, <2>2
  <2>5. Len(stack2) \in Nat /\ b <= Len(stack2)
    BY <1>6
  <2> QED
    BY <1>2, <1>6, <2>3, <2>4, <2>5, LayerSame
<1>8. \A i \in M[n] + 1 .. Len(stack2) : stack2[i].kind \in PlainKinds
  <2>1. M[n] \in 3 .. b
    BY <1>5
  <2> QED
    BY <1>4, <1>6, <2>1 DEF SameKinds
<1>9. stack2[2].kind = "SCOPEMARKER" /\ stack2[3].kind = "SCOPEMARKER"
  BY <1>2, <1>4, <1>6 DEF SameKinds
<1>10. \A k \in 0 .. n, j \in 1 .. n : k < j => M[k] <= H[j]
  BY <1>1, <1>2
<1>11. M[n] \in 3 .. Len(stack2) /\ Len(stack2) \in Nat /\ 3 <= Len(stack2)
  BY <1>4, <1>5, <1>6
<1> QED
  BY <1>2, <1>7, <1>8, <1>9, <1>10, <1>11 DEF Layered

\* One more is opened.
WithValue(H, n, b) == [k \in Nat |-> IF k = n THEN b ELSE H[k]]

LEMMA LayeredOpen ==
    ASSUME NEW stack, NEW cs, NEW H, NEW M, Layered(stack, cs, H, M), NEW n, n = Len(cs) + 1,
           NEW cs2, Len(cs2) = n, \A k \in 1 .. Len(cs) : cs2[k] = cs[k],
           NEW stack2, Len(stack2) \in Nat, \A i \in 1 .. Len(stack) : stack2[i] = stack[i],
           NEW w, cs2[n].what = w, Shape(stack2, w, Len(stack), Len(stack2)), stack2[Len(stack2)].kind = "SCOPEMARKER"
    PROVE  Layered(stack2, cs2, WithValue(H, n, Len(stack)), WithValue(M, n, Len(stack2)))
<1>1. PICK b, m, l : b = Len(stack) /\ m = Len(stack2) /\ l = Len(cs)
  OBVIOUS
<1>2. /\ l \in Nat /\ b \in Nat /\ 3 <= b /\ M[0] = 3 /\ M[l] \in 3 .. b
      /\ \A k \in 1 .. l : LayerAt(stack, cs, H, M, k)
      /\ \A k \in 0 .. l, j \in 1 .. l : k < j => M[k] <= H[j]
      /\ \A i \in M[l] + 1 .. b : stack[i].kind \in PlainKinds
      /\ stack[2].kind = "SCOPEMARKER" /\ stack[3].kind = "SCOPEMARKER"
  BY <1>1 DEF Layered
<1>3. b < m /\ m \in Nat /\ n = l + 1 /\ n \in Nat
  BY <1>1, <1>2 DEF Shape
<1>4. PICK H2, M2 : H2 = WithValue(H, n, b) /\ M2 = WithValue(M, n, m)
  OBVIOUS
<1>5. H2[n] = b /\ M2[n] = m /\ \A k \in 0 .. l : H2[k] = H[k] /\ M2[k] = M[k]
  <2>1. \A k \in Nat : /\ H2[k] = IF k = n THEN b ELSE H[k]
                       /\ M2[k] = IF k = n THEN m ELSE M[k]
    BY <1>4 DEF WithValue
  <2>2. \A k \in 0 .. l : k \in Nat /\ k # n
    BY <1>2, <1>3
  <2> QED
    BY <1>3, <2>1, <2>2
<1>6. \A k \in 0 .. l : M[k] \in 3 .. b
  <2>1. SUFFICES ASSUME NEW k \in 0 .. l PROVE M[k] \in 3 .. b
    OBVIOUS
  <2>2. CASE k = 0
    BY <1>2, <2>2
  <2>3. CASE k # 0
    <3>1. k \in 1 .. l
      BY <1>2, <2>3
    <3> QED
      BY <1>1, <1>2, <3>1 DEF LayerAt
  <2> QED
    BY <2>2, <2>3
<1>7. SameKinds(stack, stack2, b)
  BY <1>1 DEF SameKinds
<1>70. \A i \in 1 .. b : stack2[i].kind = stack[i].kind
  BY <1>7 DEF SameKinds
<1>8. \A k \in 1 .. l : LayerAt(stack2, cs2, H2, M2, k)
  <2>1. SUFFICES ASSUME NEW k \in 1 .. l PROVE LayerAt(stack2, cs2, H2, M2, k)
    OBVIOUS
  <2>2. k - 1 \in 0 .. l /\ k \in 0 .. l
    BY <1>2
  <2>3. M[k - 1] \in Nat /\ M[k] <= b /\ H2[k] = H[k] /\ M2[k] = M[k] /\ M2[k - 1] = M[k - 1] /\ cs2[k].what = cs[k].what
    BY <1>1, <1>5, <1>6, <2>2
  <2>4. LayerAt(stack, cs, H, M, k)
    BY <1>2
  <2>5. Len(stack) \in Nat /\ Len(stack2) \in Nat /\ b <= Len(stack2)
    BY <1>1, <1>2, <1>3
  <2> QED
    BY <1>2, <1>7, <2>3, <2>4, <2>5, LayerSame
<1>9. LayerAt(stack2, cs2, H2, M2, n)
  <2>1. M2[n - 1] = M[l]
    BY <1>2, <1>3, <1>5
  <2>2. \A i \in M[l] + 1 .. b : stack2[i].kind \in PlainKinds
    <3>1. SUFFICES ASSUME NEW i \in M[l] + 1 .. b PROVE stack2[i].kind \in PlainKinds
      OBVIOUS
    <3>2. stack[i].kind \in PlainKinds /\ i \in 1 .. b
      BY <1>2, <3>1
    <3> QED
      BY <1>70, <3>2
  <2>3. b \in 3 .. m /\ m \in 3 .. m
    BY <1>2, <1>3
  <2> QED
    BY <1>1, <1>5, <2>1, <2>2, <2>3 DEF LayerAt
<1>10. \A k \in 1 .. n : LayerAt(stack2, cs2, H2, M2, k)
  <2>1. \A k \in 1 .. n : k \in 1 .. l \/ k = n
    BY <1>2, <1>3
  <2> QED
    BY <1>8, <1>9, <2>1
<1>11. \A k \in 0 .. n, j \in 1 .. n : k < j => M2[k] <= H2[j]
  <2>1. SUFFICES ASSUME NEW k \in 0 .. n, NEW j \in 1 .. n, k < j PROVE M2[k] <= H2[j]
    OBVIOUS
  <2>2. k \in 0 .. l /\ M2[k] = M[k]
    BY <1>2, <1>3, <1>5, <2>1
  <2>3. CASE j = n
    BY <1>2, <1>5, <1>6, <2>2, <2>3
  <2>4. CASE j # n
    <3>1. j \in 1 .. l /\ j \in 0 .. l
      BY <1>2, <1>3, <2>4
    <3> QED
      BY <1>2, <1>5, <2>1, <2>2, <3>1
  <2> QED
    BY <2>3, <2>4
<1>12. /\ stack2[2].kind = "SCOPEMARKER" /\ stack2[3].kind = "SCOPEMARKER" /\ 3 <= m /\ M2[0] = 3 /\ M2[n] \in 3 .. m
       /\ \A i \in M2[n] + 1 .. m : stack2[i].kind \in PlainKinds
  <2>1. stack2[2].kind = "SCOPEMARKER" /\ stack2[3].kind = "SCOPEMARKER"
    <3>1. 2 \in 1 .. b /\ 3 \in 1 .. b
      BY <1>2
    <3> QED
      BY <1>2, <1>70, <3>1
  <2>2. M2[0] = 3
    BY <1>2, <1>5
  <2> QED
    BY <1>2, <1>3, <1>5, <2>1, <2>2
<1> QED
  BY <1>1, <1>3, <1>4, <1>10, <1>11, <1>12 DEF Layered

\* What is known of a construct c that is open, and was opened with b actions on
\* the stack.
LoopOpen(code, c) == IsPoint(code, c.start) /\ IsPoint(code, c.start + 2) /\ IsPoint(code, c.end)

\* What no clause is for goes on below.
PassesOn(code, stack, W, d, b) ==
    \A s, t, r : <<d, s, t, r>> \in W =>
        t \in Types /\ (FirstFor(code[d].types, t) = 0 => r = RouteAt(stack, b, "Throw", t))

TryOpenIn(code, stack, W, c, b, m) ==
    /\ IsPoint(code, c.end) /\ c.dispatch \in 1 .. Len(code) /\ code[c.dispatch].op = "dispatch"
    /\ c.what = "try"   => c.start = c.dispatch /\ m = b + 1 + Len(code[c.dispatch].types)
    /\ c.what = "catch" => code[c.dispatch].handler # 0
    /\ PassesOn(code, stack, W, c.dispatch, b)

Pending(code, stack, W, c, b, m) ==
    /\ c.what \in {"scope", "loop"} => c.dispatch = 0
    /\ c.what = "loop" => LoopOpen(code, c)
    /\ c.what \in {"try", "catch"} => TryOpenIn(code, stack, W, c, b, m)

\* The stacks agree up to position n.
Agree(stack, stack2, n) ==
    /\ IsStack(stack) /\ IsStack(stack2) /\ n \in 1 .. Len(stack) /\ n <= Len(stack2)
    /\ \A i \in 1 .. n : SameAs(stack[i], stack2[i])

LEMMA ThrowAgrees ==
    ASSUME NEW stack, NEW stack2, NEW n, Agree(stack, stack2, n), NEW i \in 1 .. n, NEW t \in Types
    PROVE  RouteAt(stack, i, "Throw", t) = RouteAt(stack2, i, "Throw", t)
<1>1. IsStack(stack) /\ IsStack(stack2) /\ n \in 1 .. Len(stack) /\ n <= Len(stack2)
      /\ Len(stack) \in Nat /\ Len(stack2) \in Nat
  BY DEF Agree, IsStack
<1>2. i \in Nat /\ i <= Len(stack) /\ i <= Len(stack2) /\ i \in 1 .. Len(stack)
  BY <1>1
<1>3. \A j \in 1 .. i : SameAs(stack[j], stack2[j])
  BY <1>1 DEF Agree
<1>4. EndsAt(stack, i, "Throw", t) /\ "Throw" \in Modes /\ t \in Keys("Throw")
  BY <1>1, <1>2, ThrowEnds
<1>5. PICK s : s = "Throw"
  OBVIOUS
<1>6. s \in Modes /\ t \in Keys(s) /\ EndsAt(stack, i, s, t)
  BY <1>4, <1>5
<1>7. RouteAt(stack, i, s, t) = RouteAt(stack2, i, s, t)
  BY <1>1, <1>2, <1>3, <1>6, RouteSame
<1> QED
  BY <1>5, <1>7

LEMMA PointTurns ==
    ASSUME NEW g, NEW W, NEW h, NEW W2, NEW D, Len(g.code) \in Nat, Len(h.code) \in Nat, Turns(g, W, h, W2, D), NEW p
    PROVE  (IsPoint(g.code, p) => IsPoint(h.code, p)) /\ (Place(g.code, p) => Place(h.code, p))
  BY DEF Turns, Keeps, IsPoint, Place

\* An open construct stays as it is.
LEMMA PendingTurns ==
    ASSUME NEW g, NEW W, NEW h, NEW W2, NEW D, Len(g.code) \in Nat, Len(h.code) \in Nat, Turns(g, W, h, W2, D),
           NEW n, Agree(g.stack, h.stack, n), NEW b \in 1 .. n, NEW c, NEW m, c.dispatch \notin D,
           Pending(g.code, g.stack, W, c, b, m)
    PROVE  Pending(h.code, h.stack, W2, c, b, m)
<1>1. \A p : IsPoint(g.code, p) => IsPoint(h.code, p)
  BY PointTurns
<1>2. LoopOpen(g.code, c) => LoopOpen(h.code, c)
  BY <1>1 DEF LoopOpen
<1>3. ASSUME TryOpenIn(g.code, g.stack, W, c, b, m) PROVE TryOpenIn(h.code, h.stack, W2, c, b, m)
  <2>1. PICK d : d = c.dispatch
    OBVIOUS
  <2>2. /\ IsPoint(g.code, c.end) /\ d \in 1 .. Len(g.code) /\ g.code[d].op = "dispatch"
        /\ c.what = "try"   => c.start = d /\ m = b + 1 + Len(g.code[d].types)
        /\ c.what = "catch" => g.code[d].handler # 0
        /\ PassesOn(g.code, g.stack, W, d, b)
    BY <1>3, <2>1 DEF TryOpenIn
  <2>3. h.code[d] = g.code[d] /\ (\A s, t, r : <<d, s, t, r>> \in W2 => <<d, s, t, r>> \in W) /\ d \in 1 .. Len(h.code)
    BY <2>1, <2>2 DEF Turns, Keeps
  <2>4. PassesOn(h.code, h.stack, W2, d, b)
    <3>1. SUFFICES ASSUME NEW s, NEW t, NEW r, <<d, s, t, r>> \in W2
                   PROVE  t \in Types /\ (FirstFor(h.code[d].types, t) = 0 => r = RouteAt(h.stack, b, "Throw", t))
      BY DEF PassesOn
    <3>2. t \in Types /\ (FirstFor(g.code[d].types, t) = 0 => r = RouteAt(g.stack, b, "Throw", t))
      BY <2>2, <2>3, <3>1 DEF PassesOn
    <3>3. RouteAt(g.stack, b, "Throw", t) = RouteAt(h.stack, b, "Throw", t)
      BY <3>2, ThrowAgrees
    <3> QED
      BY <2>3, <3>2, <3>3
  <2>5. IsPoint(h.code, c.end)
    BY <1>1, <2>2
  <2> QED
    BY <2>1, <2>2, <2>3, <2>4, <2>5 DEF TryOpenIn
<1> QED
  BY <1>2, <1>3 DEF Pending

\* No try or catch shares its comparison with another.
Distinct(cs) ==
    \A i, j \in 1 .. Len(cs) : i # j /\ cs[i].dispatch # 0 => cs[i].dispatch # cs[j].dispatch

Opened(g, W, cs, H, M) == \A k \in 1 .. Len(cs) : Pending(g.code, g.stack, W, cs[k], H[k], M[k])

\* The emitter, with the constructs cs open.
Nested(g, W, plans, cs, H, M) ==
    Sound(g, W, plans) /\ Layered(g.stack, cs, H, M) /\ Opened(g, W, cs, H, M) /\ Distinct(cs)

\* Every other comparison leads on.
Finished(code, cs) ==
    \A b \in 1 .. Len(code) : code[b].op = "dispatch" =>
        \/ code[b].handler # 0 /\ code[b].next # 0
        \/ \E k \in 1 .. Len(cs) : cs[k].dispatch = b

\* The constructs are not those that change.
Untouched(cs, n, D) == \A k \in 1 .. n : cs[k].dispatch \notin D

LEMMA PendingStay ==
    ASSUME NEW g, NEW W, NEW plans, NEW cs, NEW H, NEW M, Nested(g, W, plans, cs, H, M),
           NEW n \in 0 .. Len(cs), NEW h, NEW W2, NEW plans2, Sound(h, W2, plans2),
           NEW D, Turns(g, W, h, W2, D), Untouched(cs, n, D),
           NEW b, Agree(g.stack, h.stack, b), \A k \in 1 .. n : H[k] <= b
    PROVE  \A k \in 1 .. n : Pending(h.code, h.stack, W2, cs[k], H[k], M[k])
<1>1. SUFFICES ASSUME NEW k \in 1 .. n PROVE Pending(h.code, h.stack, W2, cs[k], H[k], M[k])
  OBVIOUS
<1>2. PICK c, i, m : c = cs[k] /\ i = H[k] /\ m = M[k]
  OBVIOUS
<1>3. k \in 1 .. Len(cs) /\ Len(cs) \in Nat
  BY <1>1 DEF Nested, Layered
<1>4. Pending(g.code, g.stack, W, c, i, m) /\ i \in 3 .. Len(g.stack)
  BY <1>2, <1>3 DEF Nested, Opened, Layered, LayerAt
<1>5. i \in 1 .. b
  <2>1. i <= b /\ b \in 1 .. Len(g.stack)
    BY <1>1, <1>2 DEF Agree
  <2> QED
    BY <1>4, <2>1
<1>6. Len(g.code) \in Nat /\ Len(h.code) \in Nat
  BY SoundIs DEF Nested
<1>7. c.dispatch \notin D
  BY <1>1, <1>2 DEF Untouched
<1>8. Pending(h.code, h.stack, W2, c, i, m)
  BY <1>4, <1>5, <1>6, <1>7, PendingTurns
<1> QED
  BY <1>2, <1>8

\* Nothing is opened or closed.
LEMMA NestedStay ==
    ASSUME NEW g, NEW W, NEW plans, NEW cs, NEW H, NEW M, Nested(g, W, plans, cs, H, M),
           NEW h, NEW W2, NEW plans2, Sound(h, W2, plans2), Later(g, W, h, W2),
           Similar(g.stack, h.stack) \/ \E k \in PlainKinds : Pushed(g.stack, k, h.stack)
    PROVE  Nested(h, W2, plans2, cs, H, M)
<1>1. IsStack(g.stack) /\ IsStack(h.stack) /\ Len(g.stack) \in Nat \ {0} /\ Sound(g, W, plans)
      /\ Layered(g.stack, cs, H, M) /\ Distinct(cs) /\ Len(cs) \in Nat
  BY SoundIs DEF Nested, Layered
<1>2. Layered(h.stack, cs, H, M)
  BY <1>1, LayeredSimilar, LayeredPush
<1>3. PICK b : b = Len(g.stack)
  OBVIOUS
<1>4. Agree(g.stack, h.stack, b)
  BY <1>1, <1>3 DEF Agree, Similar, Pushed, SameAs
<1>5. \A k \in 1 .. Len(cs) : H[k] <= b
  BY <1>1, <1>3 DEF Layered, LayerAt
<1>6. PICK n, D : n = Len(cs) /\ D = {}
  OBVIOUS
<1>7. Turns(g, W, h, W2, D) /\ Untouched(cs, n, D) /\ n \in 0 .. Len(cs)
  BY <1>1, <1>6, LaterTurns DEF Untouched
<1>8. \A k \in 1 .. n : H[k] <= b
  BY <1>5, <1>6
<1>9. \A k \in 1 .. n : Pending(h.code, h.stack, W2, cs[k], H[k], M[k])
  BY <1>4, <1>7, <1>8, PendingStay
<1> QED
  BY <1>1, <1>2, <1>6, <1>9 DEF Nested, Opened

\* cs2 is cs without the last one.
IsFront(cs, n, cs2) == n \in Nat /\ Len(cs) = n + 1 /\ Len(cs2) = n /\ \A k \in 1 .. n : cs2[k] = cs[k]

LEMMA NestedClose ==
    ASSUME NEW g, NEW W, NEW plans, NEW cs, NEW H, NEW M, Nested(g, W, plans, cs, H, M),
           NEW n, NEW cs2, IsFront(cs, n, cs2),
           NEW h, NEW W2, NEW plans2, Sound(h, W2, plans2), NEW D, Turns(g, W, h, W2, D), Untouched(cs, n, D),
           CutTo(g.stack, H[n + 1], h.stack)
    PROVE  Nested(h, W2, plans2, cs2, H, M)
<1>1. IsStack(g.stack) /\ IsStack(h.stack) /\ Len(g.stack) \in Nat \ {0} /\ Sound(g, W, plans)
      /\ Layered(g.stack, cs, H, M) /\ Distinct(cs) /\ Len(cs) \in Nat
  BY SoundIs DEF Nested, Layered
<1>2. n \in Nat /\ Len(cs) = n + 1 /\ Len(cs2) = n /\ \A k \in 1 .. n : cs2[k] = cs[k]
  BY DEF IsFront
<1>3. Layered(h.stack, cs2, H, M)
  BY <1>1, <1>2, LayeredClose
<1>4. PICK b : b = H[n + 1]
  OBVIOUS
<1>5. b \in 3 .. Len(g.stack)
  <2>1. n + 1 \in 1 .. Len(cs)
    BY <1>2
  <2> QED
    BY <1>1, <1>4, <2>1 DEF Layered, LayerAt
<1>6. Agree(g.stack, h.stack, b)
  BY <1>1, <1>4, <1>5 DEF Agree, CutTo
<1>7. \A k \in 1 .. n : H[k] <= b
  <2>1. SUFFICES ASSUME NEW k \in 1 .. n PROVE H[k] <= b
    OBVIOUS
  <2>2. k \in 0 .. Len(cs) /\ k \in 1 .. Len(cs) /\ n + 1 \in 1 .. Len(cs) /\ k < n + 1
    BY <1>2, <2>1
  <2>3. M[k] <= H[n + 1] /\ LayerAt(g.stack, cs, H, M, k)
    BY <1>1, <2>2 DEF Layered
  <2>4. H[k] < M[k] /\ H[k] \in 3 .. Len(g.stack) /\ M[k] \in 3 .. Len(g.stack)
    BY <2>3 DEF LayerAt, Shape
  <2> QED
    BY <1>1, <1>4, <1>5, <2>3, <2>4
<1>8. n \in 0 .. Len(cs)
  BY <1>2
<1>9. \A k \in 1 .. n : Pending(h.code, h.stack, W2, cs[k], H[k], M[k])
  BY <1>6, <1>7, <1>8, PendingStay
<1>10. Opened(h, W2, cs2, H, M)
  BY <1>2, <1>9 DEF Opened
<1>11. Distinct(cs2)
  <2>1. \A k \in 1 .. n : k \in 1 .. Len(cs)
    BY <1>2
  <2> QED
    BY <1>1, <1>2, <2>1 DEF Distinct
<1> QED
  BY <1>3, <1>10, <1>11 DEF Nested

\* stack2 is stack, with what construct c puts there.
IsOpening(stack, c, stack2) ==
    /\ Shape(stack2, c.what, Len(stack), Len(stack2)) /\ stack2[Len(stack2)].kind = "SCOPEMARKER"
    /\ \A i \in 1 .. Len(stack) : SameAs(stack[i], stack2[i])

LEMMA LayeredOpening ==
    ASSUME NEW stack, NEW cs, NEW H, NEW M, Layered(stack, cs, H, M), NEW n, n = Len(cs) + 1,
           NEW cs2, Len(cs2) = n, \A k \in 1 .. Len(cs) : cs2[k] = cs[k],
           NEW stack2, Len(stack2) \in Nat, IsOpening(stack, cs2[n], stack2)
    PROVE  Layered(stack2, cs2, WithValue(H, n, Len(stack)), WithValue(M, n, Len(stack2)))
<1>1. PICK b, m, w : b = Len(stack) /\ m = Len(stack2) /\ w = cs2[n].what
  OBVIOUS
<1>2. b \in Nat /\ b < m
  BY <1>1 DEF Layered, IsOpening, Shape
\* The lower part of it.
<1>3. PICK low : low = [i \in 1 .. b |-> stack2[i]]
  OBVIOUS
<1>4. Len(low) = b /\ \A i \in 1 .. b : low[i] = stack2[i]
  <2>1. low \in Seq({stack2[i] : i \in 1 .. b}) /\ DOMAIN low = 1 .. b
    BY <1>2, <1>3
  <2> QED
    BY <1>2, <1>3, <2>1
<1>5. Layered(low, cs, H, M)
  <2>1. Similar(stack, low)
    BY <1>1, <1>4 DEF Similar, IsOpening
  <2> QED
    BY <2>1, LayeredSimilar
<1>6. /\ \A i \in 1 .. Len(low) : stack2[i] = low[i]
      /\ Shape(stack2, w, Len(low), Len(stack2)) /\ stack2[Len(stack2)].kind = "SCOPEMARKER"
  BY <1>1, <1>4 DEF IsOpening
<1>7. Layered(stack2, cs2, WithValue(H, n, Len(low)), WithValue(M, n, Len(stack2)))
  BY <1>1, <1>5, <1>6, LayeredOpen
<1> QED
  BY <1>1, <1>4, <1>7

LEMMA ValueIs ==
    ASSUME NEW H, NEW n \in Nat, NEW b, NEW H2, H2 = WithValue(H, n, b)
    PROVE  H2[n] = b /\ \A k \in 1 .. n - 1 : H2[k] = H[k]
  BY DEF WithValue

LEMMA NestedOpen ==
    ASSUME NEW g, NEW W, NEW plans, NEW cs, NEW H, NEW M, Nested(g, W, plans, cs, H, M),
           NEW n, NEW cs2, IsFront(cs2, n, cs), NEW c, cs2[n + 1] = c,
           NEW h, NEW W2, NEW plans2, Sound(h, W2, plans2), NEW D, Turns(g, W, h, W2, D), Untouched(cs, n, D),
           IsOpening(g.stack, c, h.stack), Pending(h.code, h.stack, W2, c, Len(g.stack), Len(h.stack)),
           c.dispatch # 0 => \A k \in 1 .. n : cs[k].dispatch # c.dispatch
    PROVE  \E H2, M2 : Nested(h, W2, plans2, cs2, H2, M2)
<1>1. IsStack(g.stack) /\ IsStack(h.stack) /\ Len(g.stack) \in Nat \ {0} /\ Sound(g, W, plans) /\ Len(h.stack) \in Nat \ {0}
      /\ Layered(g.stack, cs, H, M) /\ Distinct(cs) /\ Len(cs) \in Nat
  BY SoundIs DEF Nested, Layered
<1>2. PICK l : l = n + 1
  OBVIOUS
<1>3. n \in Nat /\ Len(cs2) = l /\ Len(cs) = n /\ (\A k \in 1 .. n : cs2[k] = cs[k]) /\ cs2[l] = c
  BY <1>2 DEF IsFront
<1>4. PICK b, m : b = Len(g.stack) /\ m = Len(h.stack)
  OBVIOUS
<1>5. PICK H2 : H2 = WithValue(H, l, b)
  OBVIOUS
<1>51. PICK M2 : M2 = WithValue(M, l, m)
  OBVIOUS
<1>6. H2[l] = b /\ M2[l] = m /\ \A k \in 1 .. n : H2[k] = H[k] /\ M2[k] = M[k]
  <2>1. l \in Nat /\ l - 1 = n
    BY <1>2, <1>3
  <2>2. H2[l] = b /\ \A k \in 1 .. l - 1 : H2[k] = H[k]
    BY <1>5, <2>1, ValueIs
  <2>3. M2[l] = m /\ \A k \in 1 .. l - 1 : M2[k] = M[k]
    BY <1>51, <2>1, ValueIs
  <2> QED
    BY <2>1, <2>2, <2>3
<1>7. Layered(h.stack, cs2, H2, M2)
  <2>1. IsOpening(g.stack, cs2[l], h.stack) /\ l = Len(cs) + 1 /\ Len(h.stack) \in Nat
    BY <1>1, <1>2, <1>3
  <2>2. \A k \in 1 .. Len(cs) : cs2[k] = cs[k]
    BY <1>3
  <2>3. Layered(h.stack, cs2, WithValue(H, l, Len(g.stack)), WithValue(M, l, Len(h.stack)))
    BY <1>1, <1>3, <2>1, <2>2, LayeredOpening
  <2> QED
    BY <1>4, <1>5, <1>51, <2>3
<1>8. Agree(g.stack, h.stack, b)
  BY <1>1, <1>4 DEF Agree, IsOpening, Shape
<1>9. \A k \in 1 .. n : H[k] <= b
  BY <1>1, <1>3, <1>4 DEF Layered, LayerAt
<1>10. n \in 0 .. Len(cs)
  BY <1>3
<1>11. \A k \in 1 .. n : Pending(h.code, h.stack, W2, cs[k], H[k], M[k])
  BY <1>8, <1>9, <1>10, PendingStay
<1>12. \A k \in 1 .. l : k \in 1 .. n \/ k = l
  BY <1>2, <1>3
<1>13. Opened(h, W2, cs2, H2, M2)
  BY <1>3, <1>4, <1>6, <1>11, <1>12 DEF Opened
<1>14. Distinct(cs2)
  <2>1. SUFFICES ASSUME NEW i \in 1 .. l, NEW j \in 1 .. l, i # j, cs2[i].dispatch # 0
                 PROVE  cs2[i].dispatch # cs2[j].dispatch
    BY <1>3 DEF Distinct
  <2>2. CASE i \in 1 .. n /\ j \in 1 .. n
    BY <1>1, <1>3, <2>1, <2>2 DEF Distinct
  <2>3. CASE i = l
    <3>1. j \in 1 .. n
      BY <1>12, <2>1, <2>3
    <3> QED
      BY <1>3, <2>1, <2>3, <3>1
  <2>4. CASE j = l
    <3>1. i \in 1 .. n
      BY <1>12, <2>1, <2>4
    <3> QED
      BY <1>3, <2>1, <2>4, <3>1
  <2> QED
    BY <1>12, <2>2, <2>3, <2>4
<1>15. Nested(h, W2, plans2, cs2, H2, M2)
  BY <1>7, <1>13, <1>14 DEF Nested
<1> QED
  BY <1>15

\* The comparisons that change or belonged to what was open do.
FinishedIn(code, D, cs, cs2) ==
    \A b \in 1 .. Len(code) : code[b].op = "dispatch" /\ (b \in D \/ \E k \in 1 .. Len(cs) : cs[k].dispatch = b) =>
        \/ code[b].handler # 0 /\ code[b].next # 0
        \/ \E k \in 1 .. Len(cs2) : cs2[k].dispatch = b

\* Comparisons stay finished, or belong to what is open.
LEMMA FinishedTurns ==
    ASSUME NEW g, NEW W, NEW h, NEW W2, NEW D, Turns(g, W, h, W2, D), NEW cs, Finished(g.code, cs),
           Len(g.code) \in Nat, Len(h.code) \in Nat,
           NEW cs2,
           FinishedIn(h.code, D, cs, cs2)
    PROVE  Finished(h.code, cs2)
<1>1. SUFFICES ASSUME NEW b \in 1 .. Len(h.code), h.code[b].op = "dispatch"
               PROVE  \/ h.code[b].handler # 0 /\ h.code[b].next # 0
                      \/ \E k \in 1 .. Len(cs2) : cs2[k].dispatch = b
  BY DEF Finished
<1>2. CASE b \in D
  BY <1>1, <1>2 DEF FinishedIn
<1>3. CASE b \notin D
  <2>1. b \in 1 .. Len(g.code)
    BY <1>1, <1>3 DEF Turns
  <2>2. g.code[b].op = "dispatch"
    BY <1>1, <2>1 DEF Turns, Keeps
  <2>3. h.code[b] = g.code[b]
    BY <1>3, <2>1, <2>2 DEF Turns
  <2> QED
    BY <1>1, <2>1, <2>2, <2>3 DEF Finished, FinishedIn
<1> QED
  BY <1>2, <1>3

-----------------------------------------------------------------------------
(***************************************************************************)
(* The statements, one after the other.                                    *)
(***************************************************************************)

\* The functions in which the code is right.  In the others it is wrong where the
\* README says so: after an exception is thrown again, and when a loop or a try
\* in the block of a scope exit, or an exception from it, changes unwindState or
\* exceptionInfo in the middle of an unwinding.
Covered(p) ==
    /\ "rethrow" \notin p.statements
    /\ \A w : <<w, "try">> \in p.scopeExits => w = "success"
    /\ \A w, y : <<w, y>> \in p.scopeExits /\ y \in {"loop", "mayThrow"} =>
            /\ "break" \notin p.statements /\ "continue" \notin p.statements
            /\ "return" \notin p.statements

\* What is on the stack comes from the profile, and from the statements so far.
ContentOK(a, exits, n) ==
    /\ a.kind = "SCOPEEXIT" => <<a.when, a.body>> \in exits
    /\ a.kind = "CATCH" => a.id <= n
Contents(stack, exits, n) == \A i \in 1 .. Len(stack) : ContentOK(stack[i], exits, n)

\* The constructs that are open.
IsConstruct(c) == \E w, a, b, d : c = Construct(w, a, b, d)
IsOpen(cs) == IsCode(cs) /\ \A k \in 1 .. Len(cs) : IsConstruct(cs[k])

Emitting(g, W, plans, cs, H, M, exits, n, p) ==
    /\ Nested(g, W, plans, cs, H, M) /\ Finished(g.code, cs) /\ IsOpen(cs)
    /\ Contents(g.stack, exits, n) /\ Place(g.code, p)
CanGoOn(g, plans, cs, exits, n, p) == \E W, H, M : Emitting(g, W, plans, cs, H, M, exits, n, p)

LEMMA OpenMore ==
    ASSUME NEW cs, IsOpen(cs), NEW c, IsConstruct(c), NEW cs2, IsCode(cs2), IsFront(cs2, Len(cs), cs), cs2[Len(cs) + 1] = c
    PROVE  IsOpen(cs2)
<1>1. Len(cs) \in Nat /\ Len(cs2) = Len(cs) + 1 /\ \A k \in 1 .. Len(cs) : cs2[k] = cs[k]
  BY DEF IsFront
<1>2. SUFFICES ASSUME NEW k \in 1 .. Len(cs2) PROVE IsConstruct(cs2[k])
  BY DEF IsOpen
<1>3. k = Len(cs) + 1 \/ k \in 1 .. Len(cs)
  BY <1>1
<1> QED
  BY <1>1, <1>3 DEF IsOpen

LEMMA OpenLess ==
    ASSUME NEW cs, IsOpen(cs), NEW n, NEW cs2, IsCode(cs2), IsFront(cs, n, cs2)
    PROVE  IsOpen(cs2)
<1>1. n \in Nat /\ Len(cs) = n + 1 /\ Len(cs2) = n /\ \A k \in 1 .. n : cs2[k] = cs[k]
  BY DEF IsFront
<1>2. SUFFICES ASSUME NEW k \in 1 .. n PROVE IsConstruct(cs2[k])
  BY <1>1 DEF IsOpen
<1> QED
  BY <1>1, <1>2 DEF IsOpen

LEMMA AppendIs ==
    ASSUME NEW cs, IsCode(cs), NEW c, NEW cs2, cs2 = Append(cs, c)
    PROVE  IsCode(cs2) /\ IsFront(cs2, Len(cs), cs) /\ cs2[Len(cs) + 1] = c
<1>1. PICK S : cs \in Seq(S)
  BY DEF IsCode
<1>2. cs \in Seq(S \cup {c})
  BY <1>1
<1>3. cs2 \in Seq(S \cup {c}) /\ Len(cs2) = Len(cs) + 1 /\ cs2[Len(cs) + 1] = c /\ Len(cs) \in Nat
      /\ \A k \in 1 .. Len(cs) : cs2[k] = cs[k]
  BY <1>2
<1> QED
  BY <1>3 DEF IsCode, IsFront

LEMMA FrontIs ==
    ASSUME NEW cs, IsCode(cs), cs # <<>>, NEW cs2, cs2 = Front(cs)
    PROVE  /\ Len(cs) \in Nat \ {0} /\ IsCode(cs2) /\ IsFront(cs, Len(cs) - 1, cs2)
           /\ Last(cs) = cs[Len(cs)] /\ \A x : cs2 \o <<x>> = Append(cs2, x)
<1>1. PICK S : cs \in Seq(S)
  BY DEF IsCode
<1>2. PICK n : n = Len(cs) - 1
  OBVIOUS
<1>3. n \in Nat /\ Len(cs) = n + 1
  BY <1>1, <1>2
<1>4. cs2 = SubSeq(cs, 1, n)
  BY <1>2 DEF Front
<1>5. cs2 \in Seq(S) /\ Len(cs2) = n /\ \A k \in 1 .. n : cs2[k] = cs[k]
  BY <1>1, <1>3, <1>4
<1>6. Last(cs) = cs[Len(cs)]
  BY DEF Last
<1>7. ASSUME NEW x PROVE cs2 \o <<x>> = Append(cs2, x)
  <2>1. cs2 \in Seq(S \cup {x})
    BY <1>5
  <2> QED
    BY <2>1
<1> QED
  BY <1>2, <1>3, <1>5, <1>6, <1>7 DEF IsCode, IsFront

LEMMA FinishedLater ==
    ASSUME NEW g, NEW W, NEW h, NEW W2, Later(g, W, h, W2), NEW cs, Finished(g.code, cs),
           Len(g.code) \in Nat, Len(h.code) \in Nat
    PROVE  Finished(h.code, cs)
<1>1. PICK D : D = {}
  OBVIOUS
<1>2. Turns(g, W, h, W2, D)
  BY LaterTurns
<1>3. FinishedIn(h.code, D, cs, cs)
  BY <1>1 DEF FinishedIn
<1> QED
  BY <1>2, <1>3, FinishedTurns

LEMMA ContentsSame ==
    ASSUME NEW stack, NEW exits, NEW n \in Nat, Contents(stack, exits, n), NEW m \in Nat, n <= m,
           IsStack(stack), NEW stack2, NEW l, l \in 0 .. Len(stack), \A i \in 1 .. l : SameAs(stack[i], stack2[i]),
           \A i \in l + 1 .. Len(stack2) : ContentOK(stack2[i], exits, m), Len(stack2) \in Nat
    PROVE  Contents(stack2, exits, m)
<1>1. SUFFICES ASSUME NEW i \in 1 .. Len(stack2), i <= l PROVE ContentOK(stack2[i], exits, m)
  BY DEF Contents
<1>2. i \in 1 .. Len(stack) /\ i \in 1 .. l /\ stack[i] \in Acts
  BY <1>1 DEF IsStack
<1>3. ContentOK(stack[i], exits, n) /\ SameAs(stack[i], stack2[i]) /\ stack[i].id \in Nat
  BY <1>2 DEF Contents, Acts
<1> QED
  BY <1>3 DEF ContentOK, SameAs

\* In what states the code of the stack can be generated.
LEMMA CoveredCalm ==
    ASSUME NEW p, Covered(p), NEW g, NEW W, NEW plans, Sound(g, W, plans), NEW n, Contents(g.stack, p.scopeExits, n),
           NEW s, \/ s \in {"Normal", "Throw"}
                  \/ s = "Break" /\ "break" \in p.statements
                  \/ s = "Continue" /\ "continue" \in p.statements
                  \/ s = "Return" /\ "return" \in p.statements
    PROVE  \A i \in 1 .. Len(g.stack) : Calm(g.stack[i], s)
<1>1. SUFFICES ASSUME NEW i \in 1 .. Len(g.stack), g.stack[i].body \in {"loop", "mayThrow"}
               PROVE  s \in {"Normal", "Throw"}
  BY DEF Calm
<1>2. BodyOK(g.stack, plans, i) /\ ContentOK(g.stack[i], p.scopeExits, n)
  BY <1>1 DEF Sound, StackOK, Contents
<1>3. <<g.stack[i].when, g.stack[i].body>> \in p.scopeExits
  BY <1>1, <1>2 DEF BodyOK, ContentOK
<1> QED
  BY <1>1, <1>3 DEF Covered

\* Nothing is opened, closed or pushed.
LEMMA GoOn ==
    ASSUME NEW g, NEW W, NEW plans, NEW cs, NEW H, NEW M, NEW exits, NEW n \in Nat, NEW p,
           Emitting(g, W, plans, cs, H, M, exits, n, p),
           NEW h, NEW W2, Sound(h, W2, plans), Later(g, W, h, W2), Similar(g.stack, h.stack),
           NEW m \in Nat, n <= m, NEW q, Place(h.code, q)
    PROVE  CanGoOn(h, plans, cs, exits, m, q)
<1>1. Sound(g, W, plans) /\ Nested(g, W, plans, cs, H, M) /\ Finished(g.code, cs) /\ IsOpen(cs)
      /\ Contents(g.stack, exits, n)
  BY DEF Emitting, Nested
<1>2. IsStack(g.stack) /\ Len(g.stack) \in Nat /\ Len(g.code) \in Nat /\ Len(h.code) \in Nat /\ Len(h.stack) \in Nat
  BY <1>1, SoundIs
<1>3. Nested(h, W2, plans, cs, H, M)
  BY <1>1, NestedStay
<1>4. Finished(h.code, cs)
  BY <1>1, <1>2, FinishedLater
<1>5. Contents(h.stack, exits, m)
  <2>1. PICK l : l = Len(g.stack)
    OBVIOUS
  <2>2. l \in 0 .. Len(g.stack) /\ (\A i \in 1 .. l : SameAs(g.stack[i], h.stack[i])) /\ Len(h.stack) = l
    BY <1>2, <2>1 DEF Similar
  <2>3. \A i \in l + 1 .. Len(h.stack) : ContentOK(h.stack[i], exits, m)
    BY <1>2, <2>2
  <2> QED
    BY <1>1, <1>2, <2>2, <2>3, ContentsSame
<1>6. Emitting(h, W2, plans, cs, H, M, exits, m, q)
  BY <1>1, <1>3, <1>4, <1>5 DEF Emitting
<1> QED
  BY <1>6 DEF CanGoOn

\* An action is pushed.
LEMMA GoOnPushed ==
    ASSUME NEW g, NEW W, NEW plans, NEW cs, NEW H, NEW M, NEW exits, NEW n \in Nat, NEW p,
           Emitting(g, W, plans, cs, H, M, exits, n, p),
           NEW plans2, NEW a, a.kind \in PlainKinds, NEW h, PushedOn(g, W, plans2, a, h),
           NEW m \in Nat, n <= m, ContentOK(a, exits, m)
    PROVE  CanGoOn(h, plans2, cs, exits, m, p)
<1>1. Sound(g, W, plans) /\ Nested(g, W, plans, cs, H, M) /\ Finished(g.code, cs) /\ IsOpen(cs)
      /\ Contents(g.stack, exits, n) /\ Place(g.code, p)
  BY DEF Emitting, Nested
<1>2. Sound(h, W, plans2) /\ Later(g, W, h, W) /\ h.code = g.code /\ Pushed(g.stack, a.kind, h.stack)
      /\ h.stack[Len(g.stack) + 1] = a
  BY DEF PushedOn
<1>3. IsStack(g.stack) /\ Len(g.stack) \in Nat /\ Len(g.code) \in Nat /\ Len(h.code) \in Nat /\ Len(h.stack) \in Nat
  BY <1>1, <1>2, SoundIs
<1>4. Nested(h, W, plans2, cs, H, M)
  BY <1>1, <1>2, NestedStay
<1>5. Contents(h.stack, exits, m)
  <2>1. PICK l : l = Len(g.stack)
    OBVIOUS
  <2>2. l \in 0 .. Len(g.stack) /\ (\A i \in 1 .. l : SameAs(g.stack[i], h.stack[i])) /\ Len(h.stack) = l + 1
    BY <1>2, <1>3, <2>1 DEF Pushed, SameAs
  <2>3. \A i \in l + 1 .. Len(h.stack) : ContentOK(h.stack[i], exits, m)
    <3>1. SUFFICES ASSUME NEW i \in l + 1 .. Len(h.stack) PROVE ContentOK(h.stack[i], exits, m)
      OBVIOUS
    <3>2. i = l + 1
      BY <1>3, <2>1, <2>2, <3>1
    <3> QED
      BY <1>2, <2>1, <3>2
  <2> QED
    BY <1>1, <1>3, <2>2, <2>3, ContentsSame
<1>6. Emitting(h, W, plans2, cs, H, M, exits, m, p)
  BY <1>1, <1>2, <1>4, <1>5 DEF Emitting
<1> QED
  BY <1>6 DEF CanGoOn

LEMMA EmittingIs ==
    ASSUME NEW g, NEW W, NEW plans, NEW cs, NEW H, NEW M, NEW exits, NEW n, NEW p,
           Emitting(g, W, plans, cs, H, M, exits, n, p)
    PROVE  /\ Sound(g, W, plans) /\ Nested(g, W, plans, cs, H, M) /\ Layered(g.stack, cs, H, M)
           /\ Finished(g.code, cs) /\ IsOpen(cs) /\ IsCode(cs) /\ Contents(g.stack, exits, n) /\ Place(g.code, p)
           /\ IsStack(g.stack) /\ Len(g.stack) \in Nat \ {0} /\ Len(g.code) \in Nat /\ Ground(g.code)
<1>1. Sound(g, W, plans) /\ Nested(g, W, plans, cs, H, M) /\ Layered(g.stack, cs, H, M)
      /\ Finished(g.code, cs) /\ IsOpen(cs) /\ IsCode(cs) /\ Contents(g.stack, exits, n) /\ Place(g.code, p)
  BY DEF Emitting, Nested, IsOpen
<1>2. IsStack(g.stack) /\ Len(g.stack) \in Nat \ {0} /\ Len(g.code) \in Nat
  BY <1>1, SoundIs
<1>3. Ground(g.code)
  BY <1>1 DEF Sound, StackOK
<1> QED
  BY <1>1, <1>2, <1>3

\* A variable.
LEMMA VarGoesOn ==
    ASSUME NEW g, NEW W, NEW plans, NEW cs, NEW H, NEW M, NEW exits, NEW n \in Nat, NEW p,
           Emitting(g, W, plans, cs, H, M, exits, n, p), NEW h, h = Push(g, Destructor(n + 1))
    PROVE  CanGoOn(h, plans, cs, exits, n + 1, p)
<1>1. PICK m : m = n + 1
  OBVIOUS
<1>2. m \in Nat /\ n <= m
  BY <1>1
<1>3. PICK a : a = Destructor(m)
  OBVIOUS
<1>4. a \in Acts /\ IsNew(a) /\ a.kind = "DESTRUCTOR" /\ a.body = "plain"
  BY <1>2, <1>3, PlainIs
<1>5. Sound(g, W, plans)
  BY EmittingIs
<1>6. Pushable(g, plans, a)
  BY <1>4, PlainPushable
<1>7. h = Push(g, a)
  BY <1>1, <1>3
<1>8. PushedOn(g, W, plans, a, h)
  BY <1>5, <1>6, <1>7, PushLater
<1>9. a.kind \in PlainKinds /\ ContentOK(a, exits, m)
  BY <1>4 DEF PlainKinds, ContentOK
<1>10. CanGoOn(h, plans, cs, exits, m, p)
  BY <1>2, <1>8, <1>9, GoOnPushed
<1> QED
  BY <1>1, <1>10

LEMMA PlansMore ==
    ASSUME NEW plans, NEW m, m \notin DOMAIN plans, NEW P, NEW plans2, plans2 = Extend(plans, m, P)
    PROVE  KeepsPlans(plans, plans2) /\ m \in DOMAIN plans2 /\ plans2[m] = P
BY DEF KeepsPlans, Extend

\* A scope exit.
LEMMA ScopeExitGoesOn ==
    ASSUME NEW g, NEW W, NEW plans, NEW cs, NEW H, NEW M, NEW pr \in Profiles, Covered(pr), NEW n \in Nat, NEW p,
           Emitting(g, W, plans, cs, H, M, pr.scopeExits, n, p), NEW x \in pr.scopeExits,
           NEW h, h = Push(g, ScopeExit(n + 1, x[1], x[2])), n + 1 \notin DOMAIN plans,
           NEW plans2, plans2 = Extend(plans, n + 1, ExceptionPlans(g.stack, "Throw"))
    PROVE  CanGoOn(h, plans2, cs, pr.scopeExits, n + 1, p)
<1>1. PICK m : m = n + 1
  OBVIOUS
<1>2. m \in Nat /\ n <= m
  BY <1>1
<1>3. PICK w, y : w = x[1] /\ y = x[2]
  OBVIOUS
<1>4. w \in ScopeExitStates /\ y \in Bodies /\ x = <<w, y>>
  BY <1>3, UnwindCodeAssumption
<1>5. PICK a : a = ScopeExit(m, w, y)
  OBVIOUS
<1>6. a \in Acts /\ IsNew(a) /\ a.kind = "SCOPEEXIT" /\ a.id = m /\ a.when = w /\ a.body = y
  BY <1>2, <1>4, <1>5, ScopeExitIs
<1>7. y \in {"try", "mayThrow"} => w = "success"
  <2>1. y = "try" => w = "success"
    BY <1>4 DEF Covered
  <2>2. y = "mayThrow" => w = "success"
    BY <1>3, <1>4, UnwindCodeAssumption
  <2> QED
    BY <2>1, <2>2
<1>8. PICK P : P = ExceptionPlans(g.stack, "Throw")
  OBVIOUS
<1>9. Sound(g, W, plans) /\ IsStack(g.stack)
  BY EmittingIs
<1>10. Planned(g.stack, P)
  BY <1>8, <1>9, ThrowPlanned
<1>11. KeepsPlans(plans, plans2) /\ m \in DOMAIN plans2 /\ plans2[m] = P
  BY <1>1, <1>8, PlansMore
<1>12. Sound(g, W, plans2)
  BY <1>9, <1>11, PlansSound
<1>13. Pushable(g, plans2, a)
  <2>1. MarkOK(g.code, a)
    BY <1>6 DEF MarkOK
  <2> QED
    BY <1>6, <1>7, <1>10, <1>11, <2>1 DEF Pushable
<1>14. h = Push(g, a)
  BY <1>1, <1>3, <1>5
<1>15. PushedOn(g, W, plans2, a, h)
  BY <1>12, <1>13, <1>14, PushLater
<1>16. a.kind \in PlainKinds /\ ContentOK(a, pr.scopeExits, m)
  BY <1>4, <1>6 DEF PlainKinds, ContentOK
<1>17. CanGoOn(h, plans2, cs, pr.scopeExits, m, p)
  BY <1>2, <1>15, <1>16, GoOnPushed
<1> QED
  BY <1>1, <1>17

\* A statement that leaves its place, after which code is added there or nowhere.
LEMMA LeaveGoesOn ==
    ASSUME NEW g, NEW W, NEW plans, NEW cs, NEW H, NEW M, NEW pr, Covered(pr), NEW n \in Nat, NEW p,
           Emitting(g, W, plans, cs, H, M, pr.scopeExits, n, p),
           NEW s, \/ s = "Break" /\ "break" \in pr.statements
                  \/ s = "Continue" /\ "continue" \in pr.statements
                  \/ s = "Return" /\ "return" \in pr.statements,
           s \in {"Break", "Continue"} => \E i \in DOMAIN g.stack : g.stack[i].kind = "CONTROLFLOW",
           NEW h, h = EmitUnwind(g, p, s), NEW q \in {0, p}
    PROVE  CanGoOn(h, plans, cs, pr.scopeExits, n + 1, q)
<1>1. PICK m : m = n + 1
  OBVIOUS
<1>2. m \in Nat /\ n <= m
  BY <1>1
<1>3. Sound(g, W, plans) /\ IsStack(g.stack) /\ Len(g.stack) \in Nat \ {0} /\ Place(g.code, p)
      /\ Contents(g.stack, pr.scopeExits, n) /\ Len(g.code) \in Nat
  BY EmittingIs
<1>4. s \in NormalStates
  BY DEF NormalStates, States, ExceptionStates
<1>5. \A i \in 1 .. Len(g.stack) : Calm(g.stack[i], s)
  BY <1>3, CoveredCalm
<1>6. \E i \in 1 .. Len(g.stack) : IsTerminator(g.stack[i]) /\ IsActiveForState(g.stack[i], s)
  <2>1. CASE s = "Return"
    <3>1. g.stack[1].kind = "FUNCTIONMARKER" /\ 1 \in 1 .. Len(g.stack)
      BY <1>3 DEF IsStack
    <3> QED
      BY <2>1, <3>1 DEF IsTerminator, Terminators, IsActiveForState, ActiveStates
  <2>2. CASE s \in {"Break", "Continue"}
    <3>1. PICK i \in 1 .. Len(g.stack) : g.stack[i].kind = "CONTROLFLOW"
      BY <1>3, <2>2, SoundIs
    <3> QED
      BY <2>2, <3>1 DEF IsTerminator, Terminators, IsActiveForState, ActiveStates
  <2> QED
    BY <2>1, <2>2
<1>7. PICK W2 : Sound(h, W2, plans) /\ Later(g, W, h, W2) /\ Similar(g.stack, h.stack)
  BY <1>3, <1>4, <1>5, <1>6, UnwindLater
<1>8. Len(h.code) \in Nat
  BY <1>7, SoundIs
<1>9. Place(h.code, p)
  BY <1>3, <1>7, <1>8, PointLater
<1>10. Place(h.code, q)
  BY <1>9 DEF Place
<1>11. CanGoOn(h, plans, cs, pr.scopeExits, m, q)
  BY <1>2, <1>7, <1>10, GoOn
<1> QED
  BY <1>1, <1>11

LEMMA ThrowGoesOn ==
    ASSUME NEW g, NEW W, NEW plans, NEW cs, NEW H, NEW M, NEW exits, NEW n \in Nat, NEW p,
           Emitting(g, W, plans, cs, H, M, exits, n, p), NEW h, h = EmitThrow(g, p), NEW q \in {0, p}
    PROVE  CanGoOn(h, plans, cs, exits, n + 1, q)
<1>1. PICK m : m = n + 1
  OBVIOUS
<1>2. m \in Nat /\ n <= m
  BY <1>1
<1>3. Sound(g, W, plans) /\ Place(g.code, p) /\ Len(g.code) \in Nat
  BY EmittingIs
<1>4. PICK W2 : Sound(h, W2, plans) /\ Later(g, W, h, W2) /\ Similar(g.stack, h.stack)
  BY <1>3, ThrowLater
<1>5. Len(h.code) \in Nat
  BY <1>4, SoundIs
<1>6. Place(h.code, p)
  BY <1>3, <1>4, <1>5, PointLater
<1>7. Place(h.code, q)
  BY <1>6 DEF Place
<1>8. CanGoOn(h, plans, cs, exits, m, q)
  BY <1>2, <1>4, <1>7, GoOn
<1> QED
  BY <1>1, <1>8

-----------------------------------------------------------------------------
(***************************************************************************)
(* Constructs are opened by statements.                                    *)
(***************************************************************************)
\* The comparisons of what is open.
LEMMA DispatchBelow ==
    ASSUME NEW g, NEW W, NEW plans, NEW cs, NEW H, NEW M, Nested(g, W, plans, cs, H, M), NEW k \in 1 .. Len(cs)
    PROVE  /\ cs[k].what \in {"scope", "loop"} /\ cs[k].dispatch = 0
           \/ /\ cs[k].what \in {"try", "catch"} /\ cs[k].dispatch \in 1 .. Len(g.code)
              /\ g.code[cs[k].dispatch].op = "dispatch"
<1>1. Pending(g.code, g.stack, W, cs[k], H[k], M[k])
  BY DEF Nested, Opened
<1>2. LayerAt(g.stack, cs, H, M, k)
  BY DEF Nested, Layered
<1>3. cs[k].what \in {"scope", "loop", "try", "catch"}
  BY <1>2 DEF LayerAt, Shape
<1> QED
  BY <1>1, <1>3 DEF Pending, TryOpenIn

\* What was put on the stack is above b.
NewContents(stack, b, exits, m) ==
    \A i \in b + 1 .. Len(stack) : ContentOK(stack[i], exits, m)

LEMMA OpenGoesOn ==
    ASSUME NEW g, NEW W, NEW plans, NEW cs, NEW H, NEW M, NEW exits, NEW n \in Nat, NEW p,
           Emitting(g, W, plans, cs, H, M, exits, n, p),
           NEW c, IsConstruct(c), NEW cs2, cs2 = Append(cs, c),
           NEW h, NEW W2, Sound(h, W2, plans), NEW D, Turns(g, W, h, W2, D), D \subseteq {c.dispatch},
           \A d \in D : d \notin 0 .. Len(g.code),
           IsOpening(g.stack, c, h.stack), Pending(h.code, h.stack, W2, c, Len(g.stack), Len(h.stack)),
           c.dispatch # 0 => c.dispatch \in D,
           NEW m \in Nat, n <= m, NewContents(h.stack, Len(g.stack), exits, m), NEW q, Place(h.code, q)
    PROVE  CanGoOn(h, plans, cs2, exits, m, q)
<1>1. Sound(g, W, plans) /\ Nested(g, W, plans, cs, H, M) /\ Finished(g.code, cs) /\ IsCode(cs) /\ IsOpen(cs)
      /\ Contents(g.stack, exits, n) /\ IsStack(g.stack) /\ Len(g.stack) \in Nat \ {0} /\ Len(g.code) \in Nat
  BY EmittingIs
<1>2. PICK l : l = Len(cs)
  OBVIOUS
<1>3. l \in Nat
  BY <1>1, <1>2, CodeIs
<1>4. IsCode(cs2) /\ IsFront(cs2, l, cs) /\ cs2[l + 1] = c
  BY <1>1, <1>2, AppendIs
<1>5. \A k \in 1 .. l : cs[k].dispatch \in 0 .. Len(g.code)
  BY <1>1, <1>2, DispatchBelow
<1>6. Untouched(cs, l, D)
  BY <1>5 DEF Untouched
<1>7. c.dispatch # 0 => \A k \in 1 .. l : cs[k].dispatch # c.dispatch
  BY <1>5
<1>8. PICK H2, M2 : Nested(h, W2, plans, cs2, H2, M2)
  BY <1>1, <1>4, <1>6, <1>7, NestedOpen
<1>9. Len(h.code) \in Nat /\ Len(h.stack) \in Nat
  BY SoundIs
<1>10. FinishedIn(h.code, D, cs, cs2)
  <2>1. SUFFICES ASSUME NEW b \in 1 .. Len(h.code), b \in D \/ \E k \in 1 .. Len(cs) : cs[k].dispatch = b
                 PROVE  \E k \in 1 .. Len(cs2) : cs2[k].dispatch = b
    BY DEF FinishedIn
  <2>2. Len(cs2) = l + 1 /\ \A k \in 1 .. l : cs2[k] = cs[k]
    BY <1>4 DEF IsFront
  <2>3. CASE b \in D
    <3>1. b = c.dispatch /\ l + 1 \in 1 .. Len(cs2)
      BY <1>3, <2>2, <2>3
    <3> QED
      BY <1>4, <3>1
  <2>4. CASE \E k \in 1 .. Len(cs) : cs[k].dispatch = b
    <3>1. PICK k \in 1 .. l : cs[k].dispatch = b
      BY <1>2, <2>4
    <3>2. k \in 1 .. Len(cs2) /\ cs2[k].dispatch = b
      BY <1>3, <2>2, <3>1
    <3> QED
      BY <3>2
  <2> QED
    BY <2>1, <2>3, <2>4
<1>11. Finished(h.code, cs2)
  BY <1>1, <1>9, <1>10, FinishedTurns
<1>12. Contents(h.stack, exits, m)
  <2>1. PICK b : b = Len(g.stack)
    OBVIOUS
  <2>2. b \in 0 .. Len(g.stack) /\ \A i \in 1 .. b : SameAs(g.stack[i], h.stack[i])
    BY <1>1, <2>1 DEF IsOpening
  <2>3. \A i \in b + 1 .. Len(h.stack) : ContentOK(h.stack[i], exits, m)
    BY <2>1 DEF NewContents
  <2> QED
    BY <1>1, <1>9, <2>2, <2>3, ContentsSame
<1>13. IsOpen(cs2)
  BY <1>1, <1>2, <1>4, OpenMore
<1>14. Emitting(h, W2, plans, cs2, H2, M2, exits, m, q)
  BY <1>8, <1>11, <1>12, <1>13 DEF Emitting
<1> QED
  BY <1>14 DEF CanGoOn

LEMMA PushedSame ==
    ASSUME NEW stack, NEW k, NEW stack2, Pushed(stack, k, stack2)
    PROVE  /\ Len(stack2) = Len(stack) + 1 /\ stack2[Len(stack) + 1].kind = k
           /\ \A i \in 1 .. Len(stack) : stack2[i] = stack[i] /\ SameAs(stack[i], stack2[i])
BY DEF Pushed, SameAs

\* A marker says nothing that depends on the function.
LEMMA MarkerContent ==
    ASSUME NEW a, a.kind \notin {"SCOPEEXIT", "CATCH"}, NEW exits, NEW m
    PROVE  ContentOK(a, exits, m)
BY DEF ContentOK

LEMMA ConstructIs ==
    ASSUME NEW w, NEW a, NEW b, NEW d, NEW c, c = Construct(w, a, b, d)
    PROVE  c.what = w /\ c.start = a /\ c.end = b /\ c.dispatch = d /\ IsConstruct(c)
BY DEF Construct, IsConstruct

\* emitScope
LEMMA ScopeGoesOn ==
    ASSUME NEW g, NEW W, NEW plans, NEW cs, NEW H, NEW M, NEW exits, NEW n \in Nat, NEW p,
           Emitting(g, W, plans, cs, H, M, exits, n, p), NEW h, h = OpenScopeOf(g),
           NEW cs2, cs2 = Append(cs, Construct("scope", 0, 0, 0))
    PROVE  CanGoOn(h, plans, cs2, exits, n + 1, p)
<1>1. PICK m : m = n + 1
  OBVIOUS
<1>2. m \in Nat /\ n <= m
  BY <1>1
<1>3. PICK c : c = Construct("scope", 0, 0, 0)
  OBVIOUS
<1>4. c.what = "scope" /\ c.dispatch = 0 /\ IsConstruct(c)
  BY <1>3, ConstructIs
<1>5. Sound(g, W, plans) /\ IsStack(g.stack) /\ Len(g.stack) \in Nat \ {0} /\ Len(g.code) \in Nat /\ Place(g.code, p)
  BY EmittingIs
<1>6. ScopeOpened(g, W, plans, h)
  BY <1>5, OpenScopeLater
<1>7. Sound(h, W, plans) /\ Later(g, W, h, W) /\ Pushed(g.stack, "SCOPEMARKER", h.stack)
  BY <1>6 DEF ScopeOpened
<1>8. PICK b : b = Len(g.stack)
  OBVIOUS
<1>9. Len(h.stack) = b + 1 /\ h.stack[b + 1].kind = "SCOPEMARKER" /\ \A i \in 1 .. b : SameAs(g.stack[i], h.stack[i])
  BY <1>7, <1>8, PushedSame
<1>10. IsOpening(g.stack, c, h.stack)
  BY <1>4, <1>5, <1>8, <1>9 DEF IsOpening, Shape
<1>11. Pending(h.code, h.stack, W, c, Len(g.stack), Len(h.stack))
  BY <1>4 DEF Pending
<1>12. NewContents(h.stack, Len(g.stack), exits, m)
  <2>1. SUFFICES ASSUME NEW i \in b + 1 .. b + 1 PROVE ContentOK(h.stack[i], exits, m)
    BY <1>8, <1>9 DEF NewContents
  <2>2. i = b + 1
    BY <1>5, <1>8
  <2> QED
    BY <1>9, <2>2, MarkerContent
<1>13. Len(h.code) \in Nat
  BY <1>7, SoundIs
<1>14. Place(h.code, p)
  BY <1>5, <1>7, <1>13, PointLater
<1>15. PICK D : D = {}
  OBVIOUS
<1>16. Turns(g, W, h, W, D)
  BY <1>7, LaterTurns
<1>17. /\ D \subseteq {c.dispatch} /\ \A d \in D : d \notin 0 .. Len(g.code)
       /\ c.dispatch # 0 => c.dispatch \in D
  BY <1>4, <1>15
<1>18. cs2 = Append(cs, c)
  BY <1>3
<1>19. CanGoOn(h, plans, cs2, exits, m, p)
  BY <1>2, <1>4, <1>7, <1>10, <1>11, <1>12, <1>14, <1>16, <1>17, <1>18, OpenGoesOn
<1> QED
  BY <1>1, <1>19

\* The blocks of a loop.
LoopFlow(g, p, c) == Flow(Flow(Flow(NewPoints(g, 4), p, c), c, c + 1), c, c + 3)
LoopFlowed(g, W, plans, c, h) ==
    /\ Sound(h, W, plans) /\ Later(g, W, h, W) /\ h.stack = g.stack /\ Len(h.code) = c + 3
    /\ \A b \in c .. c + 3 : IsPoint(h.code, b)

\* Only code was added.
Onward(g, W, plans, h) == Sound(h, W, plans) /\ Later(g, W, h, W) /\ h.stack = g.stack
SamePoints(g, h) == Len(h.code) = Len(g.code) /\ \A b : IsPoint(g.code, b) => IsPoint(h.code, b)

LEMMA FlowOn ==
    ASSUME NEW g, NEW W, NEW plans, NEW g1, Sound(g, W, plans), Onward(g, W, plans, g1),
           NEW p, Place(g1.code, p), NEW n, IsPoint(g1.code, n), NEW h, h = Flow(g1, p, n)
    PROVE  Onward(g, W, plans, h) /\ SamePoints(g1, h)
<1>0. Sound(g1, W, plans) /\ Later(g, W, g1, W) /\ g1.stack = g.stack
  BY DEF Onward
<1>1. Len(g.code) \in Nat /\ Len(g1.code) \in Nat
  BY <1>0, SoundIs
<1>2. n \in 1 .. Len(g1.code) /\ g1.code[n].op \in Ordinary
  BY <1>1 DEF IsPoint, Ordinary
<1>3. p = 0 \/ IsPoint(g1.code, p)
  BY DEF Place
<1>4. Sound(h, W, plans) /\ Later(g1, W, h, W) /\ h.stack = g1.stack /\ Len(h.code) = Len(g1.code)
  BY <1>0, <1>2, <1>3, FlowLater
<1>5. Len(h.code) \in Nat
  BY <1>4, SoundIs
<1>6. Later(g, W, h, W)
  BY <1>0, <1>1, <1>4, <1>5, LaterTwice
<1>7. \A b : IsPoint(g1.code, b) => IsPoint(h.code, b)
  BY <1>1, <1>4, <1>5, PointLater
<1> QED
  BY <1>0, <1>4, <1>6, <1>7 DEF Onward, SamePoints

LEMMA LoopFlows ==
    ASSUME NEW g, NEW W, NEW plans, Sound(g, W, plans), NEW p, Place(g.code, p), NEW c, c = Len(g.code) + 1,
           NEW h, h = LoopFlow(g, p, c)
    PROVE  LoopFlowed(g, W, plans, c, h)
<1>1. Len(g.code) \in Nat /\ Ground(g.code)
  BY SoundIs DEF Sound, StackOK
<1>2. c \in Nat \ {0} /\ 4 \in Nat
  BY <1>1
<1>3. PICK g0 : g0 = NewPoints(g, 4)
  OBVIOUS
<1>4. /\ Sound(g0, W, plans) /\ Later(g, W, g0, W) /\ g0.stack = g.stack
      /\ Len(g0.code) = Len(g.code) + 4
      /\ \A b \in Len(g.code) + 1 .. Len(g.code) + 4 : IsPoint(g0.code, b)
  BY <1>2, <1>3, PointsLater
<1>5. PICK c1, c2, c3 : c1 = c + 1 /\ c2 = c + 2 /\ c3 = c + 3
  OBVIOUS
<1>6. Len(g0.code) = c3 /\ IsPoint(g0.code, c) /\ IsPoint(g0.code, c1) /\ IsPoint(g0.code, c2) /\ IsPoint(g0.code, c3)
  BY <1>1, <1>4, <1>5
<1>7. Len(g0.code) \in Nat
  BY <1>1, <1>4
<1>8. Place(g0.code, p) /\ Onward(g, W, plans, g0)
  BY <1>1, <1>4, <1>7, PointLater DEF Onward
<1>9. PICK g1 : g1 = Flow(g0, p, c)
  OBVIOUS
<1>10. Onward(g, W, plans, g1) /\ SamePoints(g0, g1)
  BY <1>6, <1>8, <1>9, FlowOn
<1>11. Place(g1.code, c) /\ IsPoint(g1.code, c1)
  BY <1>6, <1>10 DEF Place, SamePoints
<1>12. PICK g2 : g2 = Flow(g1, c, c1)
  OBVIOUS
<1>13. Onward(g, W, plans, g2) /\ SamePoints(g1, g2)
  BY <1>10, <1>11, <1>12, FlowOn
<1>14. Place(g2.code, c) /\ IsPoint(g2.code, c3)
  BY <1>6, <1>10, <1>13 DEF Place, SamePoints
<1>15. h = Flow(g2, c, c3)
  BY <1>3, <1>5, <1>9, <1>12 DEF LoopFlow
<1>16. Onward(g, W, plans, h) /\ SamePoints(g2, h)
  BY <1>13, <1>14, <1>15, FlowOn
<1>17. \A b \in c .. c + 3 : b = c \/ b = c1 \/ b = c2 \/ b = c3
  BY <1>2, <1>5
<1>18. IsPoint(h.code, c) /\ IsPoint(h.code, c1) /\ IsPoint(h.code, c2) /\ IsPoint(h.code, c3)
  BY <1>6, <1>10, <1>13, <1>16 DEF SamePoints
<1>19. Len(h.code) = c + 3
  BY <1>5, <1>6, <1>10, <1>13, <1>16 DEF SamePoints
<1> QED
  BY <1>16, <1>17, <1>18, <1>19 DEF LoopFlowed, Onward

\* emitLoop up to its scope.
LEMMA LoopGoesOn ==
    ASSUME NEW g, NEW W, NEW plans, NEW cs, NEW H, NEW M, NEW exits, NEW n \in Nat, NEW p,
           Emitting(g, W, plans, cs, H, M, exits, n, p), NEW c, c = Len(g.code) + 1,
           NEW h, h = OpenScopeOf(Push(LoopFlow(g, p, c), ControlFlow(c + 3, c + 2))),
           NEW cs2, cs2 = Append(cs, Construct("loop", c, c + 3, 0))
    PROVE  CanGoOn(h, plans, cs2, exits, n + 1, c + 1)
<1>1. PICK m, c1, c2, c3 : m = n + 1 /\ c1 = c + 1 /\ c2 = c + 2 /\ c3 = c + 3
  OBVIOUS
<1>2. m \in Nat /\ n <= m
  BY <1>1
<1>3. PICK k : k = Construct("loop", c, c3, 0)
  OBVIOUS
<1>4. k.what = "loop" /\ k.dispatch = 0 /\ k.start = c /\ k.end = c3 /\ IsConstruct(k)
  BY <1>3, ConstructIs
<1>5. Sound(g, W, plans) /\ IsStack(g.stack) /\ Len(g.stack) \in Nat \ {0} /\ Len(g.code) \in Nat /\ Place(g.code, p)
  BY EmittingIs
<1>6. PICK g1 : g1 = LoopFlow(g, p, c)
  OBVIOUS
<1>7. LoopFlowed(g, W, plans, c, g1)
  BY <1>5, <1>6, LoopFlows
<1>8. Sound(g1, W, plans) /\ Later(g, W, g1, W) /\ g1.stack = g.stack
      /\ IsPoint(g1.code, c1) /\ IsPoint(g1.code, c2) /\ IsPoint(g1.code, c3) /\ IsPoint(g1.code, c)
  <2>1. Sound(g1, W, plans) /\ Later(g, W, g1, W) /\ g1.stack = g.stack
    BY <1>7 DEF LoopFlowed
  <2>2. \A b \in c .. c + 3 : IsPoint(g1.code, b)
    BY <1>7 DEF LoopFlowed
  <2>3. c \in c .. c + 3 /\ c1 \in c .. c + 3 /\ c2 \in c .. c + 3 /\ c3 \in c .. c + 3
    BY <1>1, <1>5
  <2> QED
    BY <2>1, <2>2, <2>3
<1>9. PICK a : a = ControlFlow(c3, c2)
  OBVIOUS
<1>10. c2 \in Nat /\ c3 \in Nat
  BY <1>1, <1>5
<1>11. a \in Acts /\ IsNew(a) /\ a.kind = "CONTROLFLOW" /\ a.body = "plain" /\ a.to["Break"] = c3 /\ a.to["Continue"] = c2
  BY <1>9, <1>10, ControlFlowIs
<1>12. Pushable(g1, plans, a)
  <2>1. MarkOK(g1.code, a)
    BY <1>8, <1>11 DEF MarkOK
  <2> QED
    BY <1>11, <2>1 DEF Pushable
<1>13. PICK g2 : g2 = Push(g1, a)
  OBVIOUS
<1>14. PushedOn(g1, W, plans, a, g2)
  BY <1>8, <1>12, <1>13, PushLater
<1>15. Sound(g2, W, plans) /\ Later(g1, W, g2, W) /\ Pushed(g.stack, "CONTROLFLOW", g2.stack) /\ g2.code = g1.code
  BY <1>8, <1>11, <1>14 DEF PushedOn
<1>16. h = OpenScopeOf(g2)
  BY <1>1, <1>6, <1>9, <1>13
<1>17. ScopeOpened(g2, W, plans, h)
  BY <1>15, <1>16, OpenScopeLater
<1>18. Sound(h, W, plans) /\ Later(g2, W, h, W) /\ Pushed(g2.stack, "SCOPEMARKER", h.stack)
  BY <1>17 DEF ScopeOpened
<1>19. Len(g1.code) \in Nat /\ Len(g2.code) \in Nat /\ Len(h.code) \in Nat
  BY <1>8, <1>15, <1>18, SoundIs
<1>20. Later(g, W, h, W)
  <2>1. Later(g, W, g2, W)
    BY <1>5, <1>8, <1>15, <1>19, LaterTwice
  <2> QED
    BY <1>5, <1>18, <1>19, <2>1, LaterTwice
<1>21. PICK b : b = Len(g.stack)
  OBVIOUS
<1>22. b \in Nat /\ Len(g2.stack) = b + 1 /\ g2.stack[b + 1].kind = "CONTROLFLOW" /\ \A i \in 1 .. b : g2.stack[i] = g.stack[i]
  BY <1>5, <1>15, <1>21, PushedSame
<1>23. Len(h.stack) = b + 2 /\ h.stack[b + 2].kind = "SCOPEMARKER" /\ h.stack[b + 1].kind = "CONTROLFLOW"
       /\ \A i \in 1 .. b : SameAs(g.stack[i], h.stack[i])
  <2>1. Len(h.stack) = Len(g2.stack) + 1 /\ h.stack[Len(g2.stack) + 1].kind = "SCOPEMARKER"
        /\ \A i \in 1 .. Len(g2.stack) : h.stack[i] = g2.stack[i]
    BY <1>18, PushedSame
  <2>2. Len(h.stack) = b + 2 /\ h.stack[b + 2].kind = "SCOPEMARKER" /\ h.stack[b + 1] = g2.stack[b + 1]
        /\ \A i \in 1 .. b : h.stack[i] = g2.stack[i]
    BY <1>22, <2>1
  <2> QED
    BY <1>22, <2>2 DEF SameAs
<1>24. IsOpening(g.stack, k, h.stack)
  BY <1>4, <1>21, <1>22, <1>23 DEF IsOpening, Shape
<1>25. Place(h.code, c1) /\ IsPoint(h.code, c) /\ IsPoint(h.code, c2) /\ IsPoint(h.code, c3)
  <2>1. \A x : IsPoint(g1.code, x) => IsPoint(g2.code, x)
    BY <1>15
  <2>2. \A x : IsPoint(g2.code, x) => IsPoint(h.code, x)
    BY <1>18, <1>19, PointLater
  <2> QED
    BY <1>8, <2>1, <2>2 DEF Place
<1>26. Pending(h.code, h.stack, W, k, Len(g.stack), Len(h.stack))
  BY <1>1, <1>4, <1>25 DEF Pending, LoopOpen
<1>27. NewContents(h.stack, Len(g.stack), exits, m)
  <2>1. SUFFICES ASSUME NEW i \in b + 1 .. b + 2 PROVE ContentOK(h.stack[i], exits, m)
    BY <1>21, <1>23 DEF NewContents
  <2>2. i = b + 1 \/ i = b + 2
    BY <1>22
  <2>3. h.stack[i].kind \notin {"SCOPEEXIT", "CATCH"}
    BY <1>23, <2>2
  <2> QED
    BY <2>3, MarkerContent
<1>28. PICK D : D = {}
  OBVIOUS
<1>29. Turns(g, W, h, W, D)
  BY <1>20, LaterTurns
<1>30. /\ D \subseteq {k.dispatch} /\ \A d \in D : d \notin 0 .. Len(g.code)
       /\ k.dispatch # 0 => k.dispatch \in D
  BY <1>4, <1>28
<1>31. cs2 = Append(cs, k)
  BY <1>1, <1>3
<1>32. CanGoOn(h, plans, cs2, exits, m, c1)
  BY <1>2, <1>4, <1>18, <1>24, <1>25, <1>26, <1>27, <1>29, <1>30, <1>31, OpenGoesOn
<1> QED
  BY <1>1, <1>32

\* Clauses are put onto the stack, numbered from n + 1 on.
LEMMA TryOpenIs ==
    ASSUME NEW g, IsEmitter(g), NEW types, NEW d, d = Nth(g, 1), NEW k, k = TryPoints(g, statements, types)
    PROVE  PushCatches(k, d, types) = TryOpen(g, statements, types)
<1>1. PICK g1 : g1 = Emit(g, TryDispatch(d, statements, types))
  OBVIOUS
<1>2. IsEmitter(g1) /\ g1.stack = g.stack
  BY <1>1, EmitAll DEF IsAll
<1>3. k = NewPoints(g1, 1)
  BY <1>1 DEF TryPoints
<1>4. IsEmitter(k) /\ k.stack = g.stack
  BY <1>2, <1>3, PointsAll DEF IsAll
<1>5. TryOpen(g, statements, types) = WithStack(k, g.stack \o TryClauses(d, statements, types))
  BY DEF TryOpen
<1> QED
  BY <1>4, <1>5 DEF PushCatches, WithStack, TryClauses

LEMMA ContentsClauses ==
    ASSUME NEW stack, NEW exits, NEW n \in Nat, Contents(stack, exits, n)
    PROVE  ClausesUpTo(stack, n)
BY DEF Contents, ContentOK, ClausesUpTo

\* emitTry up to its scope.
LEMMA TryGoesOn ==
    ASSUME NEW g, NEW W, NEW plans, NEW cs, NEW H, NEW M, NEW exits, NEW n \in Nat, NEW p,
           Emitting(g, W, plans, cs, H, M, exits, n, p), NEW d, d = Len(g.code) + 1,
           NEW types, Clauses(types), types # <<>>,
           NEW h, h = OpenScopeOf(TryOpen(g, n, types)),
           NEW cs2, cs2 = Append(cs, Construct("try", d, d + 1, d))
    PROVE  CanGoOn(h, plans, cs2, exits, n + Len(types), p)
<1>1. PICK e, b, l, m, m1 : e = d + 1 /\ b = Len(g.stack) /\ l = Len(types) /\ m = n + l /\ m1 = b + l
  OBVIOUS
<1>2. PICK k : k = Construct("try", d, e, d)
  OBVIOUS
<1>3. k.what = "try" /\ k.dispatch = d /\ k.start = d /\ k.end = e /\ IsConstruct(k)
  BY <1>2, ConstructIs
<1>4. Sound(g, W, plans) /\ IsStack(g.stack) /\ Len(g.stack) \in Nat \ {0} /\ Len(g.code) \in Nat /\ Place(g.code, p)
      /\ Contents(g.stack, exits, n)
  BY EmittingIs
<1>5. b \in Nat \ {0} /\ d \in Nat \ {0} /\ l \in Nat \ {0} /\ m \in Nat /\ n <= m /\ m1 \in Nat /\ d \in Nat
  <2>1. l \in Nat
    BY <1>1 DEF Clauses
  <2>2. l # 0
    BY <1>1 DEF Clauses
  <2> QED
    BY <1>1, <1>4, <2>1, <2>2
<1>6. ClausesUpTo(g.stack, n)
  BY <1>4, ContentsClauses
<1>7. PICK h1 : h1 = TryOpen(g, n, types)
  OBVIOUS
<1>8. PICK W1 : TryDone(g, W, h1, W1, plans, d, n, types)
  BY <1>4, <1>6, <1>7, TryOpened
<1>9. /\ Sound(h1, W1, plans) /\ Turns(g, W, h1, W1, {d}) /\ WithClauses(g.stack, d, n, types, h1.stack)
      /\ Len(h1.code) = e /\ IsPoint(h1.code, e) /\ h1.code[d] = TryDispatch(d, n, types)
      /\ OnlyThrows(W1, h1.stack, d)
  BY <1>1, <1>8 DEF TryDone
<1>10. ScopeOpened(h1, W1, plans, h)
  BY <1>7, <1>9, OpenScopeLater
<1>11. Sound(h, W1, plans) /\ Later(h1, W1, h, W1) /\ Pushed(h1.stack, "SCOPEMARKER", h.stack)
  BY <1>10 DEF ScopeOpened
<1>12. Len(h1.code) \in Nat /\ Len(h.code) \in Nat /\ IsStack(h1.stack) /\ IsStack(h.stack)
  BY <1>9, <1>11, SoundIs
<1>13. Turns(g, W, h, W1, {d})
  <2>1. Turns(h1, W1, h, W1, {d})
    BY <1>11, LaterTurns
  <2> QED
    BY <1>4, <1>9, <1>12, <2>1, TurnsTwice
<1>14. Len(h1.stack) = m1 /\ (\A i \in 1 .. b : h1.stack[i] = g.stack[i])
       /\ \A j \in 1 .. l : IsClause(h1.stack[b + j], d, n, types, l + 1 - j)
  BY <1>1, <1>9 DEF WithClauses, HasClauses
<1>15. Len(h.stack) = m1 + 1 /\ h.stack[m1 + 1].kind = "SCOPEMARKER" /\ \A i \in 1 .. m1 : h.stack[i] = h1.stack[i]
  BY <1>11, <1>14, PushedSame
<1>16. \A i \in b + 1 .. m1 : h.stack[i].kind = "CATCH" /\ h.stack[i].id <= m
  <2>1. SUFFICES ASSUME NEW i \in b + 1 .. m1 PROVE h.stack[i].kind = "CATCH" /\ h.stack[i].id <= m
    OBVIOUS
  <2>2. PICK j : j = i - b
    OBVIOUS
  <2>3. j \in 1 .. l /\ i = b + j /\ i \in 1 .. m1
    BY <1>1, <1>5, <2>2
  <2>4. PICK x : x = l + 1 - j
    OBVIOUS
  <2>5. x \in 1 .. l
    BY <1>5, <2>3, <2>4
  <2>6. IsClause(h1.stack[i], d, n, types, x)
    BY <1>14, <2>3, <2>4
  <2>7. h1.stack[i].kind = "CATCH" /\ h1.stack[i].id = n + x
    BY <2>6 DEF IsClause
  <2>8. n + x <= m
    BY <1>1, <1>5, <2>5
  <2> QED
    BY <1>15, <2>3, <2>7, <2>8
<1>17. \A i \in 1 .. b : SameAs(g.stack[i], h.stack[i])
  <2>1. \A i \in 1 .. b : h.stack[i] = g.stack[i]
    <3>1. \A i \in 1 .. b : i \in 1 .. m1
      BY <1>1, <1>5
    <3> QED
      BY <1>14, <1>15, <3>1
  <2> QED
    BY <2>1 DEF SameAs
<1>18. IsOpening(g.stack, k, h.stack)
  <2>1. b + 2 <= m1 + 1 /\ b < m1 + 1 /\ m1 + 1 - 1 = m1
    BY <1>1, <1>5
  <2>2. PICK y : y = m1 + 1
    OBVIOUS
  <2>3. b + 2 <= y /\ b < y
    BY <2>1, <2>2
  <2>4. \A i \in b + 1 .. y - 1 : h.stack[i].kind = "CATCH"
    BY <1>5, <1>16, <2>2
  <2>5. Shape(h.stack, "try", b, y)
    BY <2>3, <2>4 DEF Shape
  <2> QED
    BY <1>1, <1>3, <1>15, <1>17, <2>2, <2>5 DEF IsOpening
<1>19. TryDispatch(d, n, types).op = "dispatch" /\ TryDispatch(d, n, types).types = types
  BY DispatchIs DEF TryDispatch
<1>20. d \in 1 .. Len(h1.code)
  BY <1>1, <1>5, <1>9
<1>21. d \in 1 .. Len(h.code) /\ h.code[d] = h1.code[d] /\ IsPoint(h.code, e)
  <2>1. h.code[d] = h1.code[d]
    BY <1>9, <1>11, <1>19, <1>20 DEF Later
  <2>2. IsPoint(h.code, e)
    BY <1>9, <1>11, <1>12, PointLater
  <2>3. Len(h1.code) <= Len(h.code)
    BY <1>11 DEF Later, Keeps
  <2> QED
    BY <1>12, <1>20, <2>1, <2>2, <2>3
<1>22. PassesOn(h.code, h.stack, W1, d, b)
  <2>1. SUFFICES ASSUME NEW s, NEW t, NEW r, <<d, s, t, r>> \in W1
                 PROVE  t \in Types /\ (FirstFor(types, t) = 0 => r = RouteAt(h.stack, b, "Throw", t))
    BY <1>9, <1>19, <1>21 DEF PassesOn
  <2>2. t \in Types /\ r = RouteAt(h1.stack, Len(h1.stack), "Throw", t)
    BY <1>9, <2>1 DEF OnlyThrows
  <2>3. FirstFor(types, t) = 0 => r = RouteAt(g.stack, b, "Throw", t)
    <3>1. PICK f : f = FirstFor(types, t)
      OBVIOUS
    <3>0. IsStack(g.stack) /\ WithClauses(g.stack, d, n, types, h1.stack) /\ d \in Nat
      BY <1>4, <1>5, <1>9
    <3>2. /\ f = 0 => RouteAt(h1.stack, Len(h1.stack), "Throw", t) = RouteAt(g.stack, Len(g.stack), "Throw", t)
          /\ f # 0 => RouteAt(h1.stack, Len(h1.stack), "Throw", t) = TheRoute(<<>>, d, n + f)
      BY <2>2, <3>0, <3>1, WithClausesRoutes
    <3> QED
      BY <1>1, <2>2, <3>1, <3>2
  <2>4. Agree(g.stack, h.stack, b)
    <3>1. b \in 1 .. Len(g.stack) /\ b <= Len(h.stack)
      BY <1>1, <1>4, <1>5, <1>15, SMTT(30)
    <3> QED
      BY <1>4, <1>12, <1>17, <3>1 DEF Agree
  <2>5. RouteAt(g.stack, b, "Throw", t) = RouteAt(h.stack, b, "Throw", t)
    BY <1>5, <2>2, <2>4, ThrowAgrees
  <2> QED
    BY <2>2, <2>3, <2>5
<1>23. Pending(h.code, h.stack, W1, k, Len(g.stack), Len(h.stack))
  <2>1. m1 + 1 = b + 1 + l
    BY <1>1, <1>5
  <2>2. TryOpenIn(h.code, h.stack, W1, k, b, m1 + 1)
    BY <1>1, <1>3, <1>9, <1>19, <1>21, <1>22, <2>1 DEF TryOpenIn
  <2> QED
    BY <1>1, <1>3, <1>15, <2>2 DEF Pending
<1>24. NewContents(h.stack, Len(g.stack), exits, m)
  <2>1. SUFFICES ASSUME NEW i \in b + 1 .. m1 + 1 PROVE ContentOK(h.stack[i], exits, m)
    BY <1>1, <1>15 DEF NewContents
  <2>2. CASE i = m1 + 1
    BY <1>15, <2>2, MarkerContent
  <2>3. CASE i # m1 + 1
    <3>1. i \in b + 1 .. m1
      BY <1>5, <2>1, <2>3
    <3> QED
      BY <1>16, <3>1 DEF ContentOK
  <2> QED
    BY <2>2, <2>3
<1>25. Place(h.code, p)
  BY <1>4, <1>12, <1>13, PointTurns
<1>26. PICK D : D = {d}
  OBVIOUS
<1>27. /\ Turns(g, W, h, W1, D) /\ D \subseteq {k.dispatch} /\ \A x \in D : x \notin 0 .. Len(g.code)
       /\ k.dispatch # 0 => k.dispatch \in D
  BY <1>3, <1>4, <1>13, <1>26
<1>28. cs2 = Append(cs, k)
  BY <1>1, <1>2
<1>29. CanGoOn(h, plans, cs2, exits, m, p)
  BY <1>3, <1>5, <1>11, <1>18, <1>23, <1>24, <1>25, <1>27, <1>28, OpenGoesOn
<1> QED
  BY <1>1, <1>29

-----------------------------------------------------------------------------
(***************************************************************************)
(* Constructs are closed.                                                  *)
(***************************************************************************)
\* No comparison changes but that of construct c, and those that are new.
Touches(g, c, D) == \A x \in D : (x = c.dispatch /\ x # 0) \/ x \notin 0 .. Len(g.code)
\* They are finished, except at block e.
DoneBut(code, c, D, e) ==
    \A x : x \in D \/ x = c.dispatch => x = e \/ (code[x].handler # 0 /\ code[x].next # 0)

LEMMA CutSame ==
    ASSUME NEW a, NEW n \in Nat, NEW b, CutTo(a, n, b), NEW m \in Nat, m <= n, NEW c, CutTo(b, m, c)
    PROVE  CutTo(a, m, c)
<1>1. Len(c) = m
  BY DEF CutTo
<1>2. ASSUME NEW i \in 1 .. m PROVE SameAs(a[i], c[i])
  <2>1. SameAs(a[i], b[i]) /\ SameAs(b[i], c[i])
    BY DEF CutTo
  <2> QED
    BY <2>1 DEF SameAs
<1> QED
  BY <1>1, <1>2 DEF CutTo

LEMMA ContentsCut ==
    ASSUME NEW stack, NEW exits, NEW n \in Nat, Contents(stack, exits, n), IsStack(stack), NEW b \in 1 .. Len(stack),
           NEW stack2, CutTo(stack, b, stack2)
    PROVE  Contents(stack2, exits, n)
<1>1. b \in 0 .. Len(stack) /\ Len(stack2) = b /\ Len(stack2) \in Nat /\ \A i \in 1 .. b : SameAs(stack[i], stack2[i])
  BY DEF CutTo, IsStack
<1>2. \A i \in b + 1 .. Len(stack2) : ContentOK(stack2[i], exits, n)
  BY <1>1
<1>3. PICK m : m = n
  OBVIOUS
<1>4. m \in Nat /\ n <= m /\ \A i \in b + 1 .. Len(stack2) : ContentOK(stack2[i], exits, m)
  BY <1>2, <1>3
<1>5. Contents(stack2, exits, m)
  BY <1>1, <1>4, ContentsSame
<1> QED
  BY <1>3, <1>5

\* The innermost construct, c, of the constructs cs.
InnermostIs(cs, c, k, cs2) ==
    /\ k \in Nat /\ Len(cs) = k + 1 /\ IsCode(cs2) /\ IsFront(cs, k, cs2) /\ c = cs[k + 1]
LEMMA LastIs ==
    ASSUME NEW cs, IsCode(cs), cs # <<>>, NEW cs2, cs2 = Front(cs), NEW c, c = Last(cs), NEW k, k = Len(cs) - 1
    PROVE  InnermostIs(cs, c, k, cs2)
<1>1. /\ Len(cs) \in Nat \ {0} /\ IsCode(cs2) /\ IsFront(cs, Len(cs) - 1, cs2)
      /\ Last(cs) = cs[Len(cs)]
  BY FrontIs
<1>2. k \in Nat /\ Len(cs) = k + 1
  BY <1>1
<1> QED
  BY <1>1, <1>2 DEF InnermostIs

\* What is known of it.
LEMMA InnermostLayer ==
    ASSUME NEW g, NEW W, NEW plans, NEW cs, NEW H, NEW M, Nested(g, W, plans, cs, H, M),
           NEW c, NEW k, NEW cs2, InnermostIs(cs, c, k, cs2), NEW b, b = H[k + 1], NEW m, m = M[k + 1]
    PROVE  /\ b \in 1 .. Len(g.stack) /\ b \in Nat \ {0} /\ m \in Nat /\ TopScope(g.stack, m) /\ Shape(g.stack, c.what, b, m)
           /\ Pending(g.code, g.stack, W, c, b, m) /\ g.stack[b].kind # "CATCH"
           /\ m <= Len(g.stack)
<1>1. k \in Nat /\ Len(cs) = k + 1 /\ k + 1 \in 1 .. Len(cs) /\ c = cs[k + 1]
  BY DEF InnermostIs
<1>2. Layered(g.stack, cs, H, M) /\ Len(g.stack) \in Nat
  BY SoundIs DEF Nested
<1>3. LayerAt(g.stack, cs, H, M, k + 1)
  BY <1>1, <1>2 DEF Layered
<1>4. b \in 3 .. Len(g.stack) /\ m \in 3 .. Len(g.stack) /\ Shape(g.stack, c.what, b, m)
  BY <1>1, <1>3 DEF LayerAt
<1>5. TopScope(g.stack, M[Len(cs)])
  BY <1>2, LayeredTop
<1>6. g.stack[b].kind # "CATCH"
  BY <1>1, <1>2, LayeredTopKind
<1>7. Pending(g.code, g.stack, W, c, b, m)
  BY <1>1 DEF Nested, Opened
<1> QED
  BY <1>1, <1>2, <1>4, <1>5, <1>6, <1>7

LEMMA TouchesOthers ==
    ASSUME NEW g, NEW W, NEW plans, NEW cs, NEW H, NEW M, Nested(g, W, plans, cs, H, M),
           NEW c, NEW k, NEW cs2, InnermostIs(cs, c, k, cs2), NEW D, Touches(g, c, D)
    PROVE  Untouched(cs, k, D)
<1>1. k \in Nat /\ Len(cs) = k + 1 /\ k + 1 \in 1 .. Len(cs) /\ c = cs[k + 1]
  BY DEF InnermostIs
<1>2. SUFFICES ASSUME NEW j \in 1 .. k, cs[j].dispatch \in D PROVE FALSE
  BY DEF Untouched
<1>3. j \in 1 .. Len(cs) /\ j # k + 1
  BY <1>1
<1>4. cs[j].dispatch \in 0 .. Len(g.code)
  BY <1>3, DispatchBelow, SoundIs DEF Nested
<1>5. cs[j].dispatch = c.dispatch /\ c.dispatch # 0
  BY <1>2, <1>4 DEF Touches
<1> QED
  BY <1>1, <1>3, <1>5 DEF Nested, Distinct

LEMMA CloseGoesOn ==
    ASSUME NEW g, NEW W, NEW plans, NEW cs, NEW H, NEW M, NEW exits, NEW n \in Nat, NEW p,
           Emitting(g, W, plans, cs, H, M, exits, n, p),
           NEW c, NEW k, NEW cs2, InnermostIs(cs, c, k, cs2),
           NEW h, NEW W2, Sound(h, W2, plans), NEW D, Turns(g, W, h, W2, D), Touches(g, c, D),
           CutTo(g.stack, H[k + 1], h.stack), DoneBut(h.code, c, D, 0), NEW q, Place(h.code, q)
    PROVE  CanGoOn(h, plans, cs2, exits, n, q)
<1>1. Sound(g, W, plans) /\ Nested(g, W, plans, cs, H, M) /\ Finished(g.code, cs) /\ IsOpen(cs)
      /\ Contents(g.stack, exits, n) /\ IsStack(g.stack) /\ Len(g.stack) \in Nat \ {0} /\ Len(g.code) \in Nat
  BY EmittingIs
<1>2. k \in Nat /\ Len(cs) = k + 1 /\ IsCode(cs2) /\ IsFront(cs, k, cs2) /\ c = cs[k + 1]
  BY DEF InnermostIs
<1>3. Untouched(cs, k, D)
  BY <1>1, TouchesOthers
<1>4. Nested(h, W2, plans, cs2, H, M)
  BY <1>1, <1>2, <1>3, NestedClose
<1>5. Len(h.code) \in Nat
  BY SoundIs
<1>6. FinishedIn(h.code, D, cs, cs2)
  <2>1. SUFFICES ASSUME NEW b \in 1 .. Len(h.code), b \in D \/ \E j \in 1 .. Len(cs) : cs[j].dispatch = b,
                        ~(h.code[b].handler # 0 /\ h.code[b].next # 0)
                 PROVE  \E j \in 1 .. Len(cs2) : cs2[j].dispatch = b
    BY DEF FinishedIn
  <2>2. b # 0
    OBVIOUS
  <2>3. b \notin D /\ b # c.dispatch
    BY <2>1, <2>2 DEF DoneBut
  <2>4. PICK j \in 1 .. Len(cs) : cs[j].dispatch = b
    BY <2>1, <2>3
  <2>5. j \in 1 .. k
    BY <1>2, <2>3, <2>4
  <2> QED
    BY <1>2, <2>4, <2>5 DEF IsFront
<1>7. Finished(h.code, cs2)
  BY <1>1, <1>5, <1>6, FinishedTurns
<1>8. Contents(h.stack, exits, n)
  <2>1. PICK b : b = H[k + 1]
    OBVIOUS
  <2>2. b \in 1 .. Len(g.stack)
    BY <1>1, <2>1, InnermostLayer
  <2> QED
    BY <1>1, <2>1, <2>2, ContentsCut
<1>9. IsOpen(cs2)
  BY <1>1, <1>2, OpenLess
<1>10. Emitting(h, W2, plans, cs2, H, M, exits, n, q)
  BY <1>4, <1>7, <1>8, <1>9 DEF Emitting
<1> QED
  BY <1>10 DEF CanGoOn

\* The end of a scope.
LEMMA ScopeCloses ==
    ASSUME NEW g, NEW W, NEW plans, NEW cs, NEW H, NEW M, NEW exits, NEW n \in Nat, NEW p,
           Emitting(g, W, plans, cs, H, M, exits, n, p),
           NEW c, NEW k, NEW cs2, InnermostIs(cs, c, k, cs2), c.what = "scope",
           NEW h, h = EndScope(g, p), NEW q, q = ScopeEnd(g, p)
    PROVE  CanGoOn(h, plans, cs2, exits, n, q)
<1>1. Sound(g, W, plans) /\ Nested(g, W, plans, cs, H, M) /\ Place(g.code, p)
  BY EmittingIs
<1>2. PICK b, m : b = H[k + 1] /\ m = M[k + 1]
  OBVIOUS
<1>3. b \in Nat \ {0} /\ m \in Nat /\ TopScope(g.stack, m) /\ Shape(g.stack, c.what, b, m) /\ Pending(g.code, g.stack, W, c, b, m)
  BY <1>1, <1>2, InnermostLayer
<1>4. m - 1 = b /\ c.dispatch = 0
  BY <1>3 DEF Shape, Pending
<1>5. PICK W2 : /\ Sound(h, W2, plans) /\ Later(g, W, h, W2) /\ CutTo(g.stack, m - 1, h.stack)
                /\ Place(g.code, q) /\ Place(h.code, q)
  BY <1>1, <1>3, EndScopeLater
<1>6. CutTo(g.stack, H[k + 1], h.stack)
  BY <1>2, <1>4, <1>5
<1>7. PICK D : D = {}
  OBVIOUS
<1>8. Turns(g, W, h, W2, D)
  BY <1>5, LaterTurns
<1>9. Touches(g, c, D) /\ DoneBut(h.code, c, D, 0)
  BY <1>4, <1>7 DEF Touches, DoneBut
<1> QED
  BY <1>5, <1>6, <1>8, <1>9, CloseGoesOn

LEMMA PopIs ==
    ASSUME NEW g, IsEmitter(g), NEW n, n = Len(g.stack) - 1
    PROVE  Pop(g) = Cut(g, n)
BY DEF Pop, Cut, Front

\* The stack of g is cut to position b, whatever is generated.
Dropped(g, W, plans, b, h, W2) ==
    Sound(h, W2, plans) /\ Later(g, W, h, W2) /\ CutTo(g.stack, b, h.stack) /\ Len(h.code) \in Nat

LEMMA DropMore ==
    ASSUME NEW g, NEW W, NEW plans, Len(g.code) \in Nat, NEW n \in Nat, NEW g1, NEW W1, Dropped(g, W, plans, n, g1, W1),
           NEW b \in Nat \ {0}, b + 1 <= n, n <= Len(g.stack), Len(g.stack) \in Nat, g.stack[b].kind # "CATCH",
           NEW h, h = Cut(g1, b)
    PROVE  Dropped(g, W, plans, b, h, W1)
<1>1. Sound(g1, W1, plans) /\ Later(g, W, g1, W1) /\ CutTo(g.stack, n, g1.stack) /\ Len(g1.code) \in Nat
  BY DEF Dropped
<1>2. Len(g1.stack) = n /\ \A i \in 1 .. n : SameAs(g.stack[i], g1.stack[i])
  BY <1>1 DEF CutTo
<1>3. b \in 1 .. Len(g1.stack) - 1 /\ b \in 1 .. n
  BY <1>2
<1>4. g1.stack[b].kind # "CATCH"
  BY <1>2, <1>3 DEF SameAs
<1>5. Sound(h, W1, plans) /\ Later(g1, W1, h, W1) /\ h.code = g1.code /\ CutTo(g1.stack, b, h.stack)
  BY <1>1, <1>3, <1>4, CutSound
<1>6. Later(g, W, h, W1)
  BY <1>1, <1>5, LaterTwice
<1>7. CutTo(g.stack, b, h.stack)
  BY <1>1, <1>5, CutSame
<1> QED
  BY <1>1, <1>5, <1>6, <1>7 DEF Dropped

\* The end of a scope, of which nothing is left but b actions below it.
LEMMA EndScopeDrops ==
    ASSUME NEW g, NEW W, NEW plans, Sound(g, W, plans), NEW p, Place(g.code, p), NEW m, TopScope(g.stack, m),
           NEW h, h = EndScope(g, p), NEW q, q = ScopeEnd(g, p)
    PROVE  \E W2 : Dropped(g, W, plans, m - 1, h, W2) /\ Place(h.code, q)
<1>1. PICK W2 : /\ Sound(h, W2, plans) /\ Later(g, W, h, W2) /\ CutTo(g.stack, m - 1, h.stack)
                /\ Place(g.code, q) /\ Place(h.code, q)
  BY EndScopeLater
<1>2. Len(h.code) \in Nat
  BY <1>1, SoundIs
<1> QED
  BY <1>1, <1>2 DEF Dropped

LEMMA DropFlows ==
    ASSUME NEW g, NEW W, NEW plans, Sound(g, W, plans), NEW b, NEW g1, NEW W1, Dropped(g, W, plans, b, g1, W1),
           NEW p, Place(g1.code, p), NEW n, IsPoint(g.code, n), NEW h, h = Flow(g1, p, n)
    PROVE  Dropped(g, W, plans, b, h, W1)
<1>1. Sound(g1, W1, plans) /\ Later(g, W, g1, W1) /\ CutTo(g.stack, b, g1.stack) /\ Len(g1.code) \in Nat
  BY DEF Dropped
<1>2. Len(g.code) \in Nat
  BY SoundIs
<1>3. IsPoint(g1.code, n)
  BY <1>1, <1>2, PointLater
<1>4. n \in 1 .. Len(g1.code) /\ g1.code[n].op \in Ordinary
  BY <1>1, <1>3 DEF IsPoint, Ordinary
<1>5. p = 0 \/ IsPoint(g1.code, p)
  BY DEF Place
<1>6. Sound(h, W1, plans) /\ Later(g1, W1, h, W1) /\ h.stack = g1.stack /\ Len(h.code) = Len(g1.code)
  BY <1>1, <1>4, <1>5, FlowLater
<1>7. Len(h.code) \in Nat
  BY <1>1, <1>6
<1>8. Later(g, W, h, W1)
  BY <1>1, <1>2, <1>6, <1>7, LaterTwice
<1> QED
  BY <1>1, <1>6, <1>7, <1>8 DEF Dropped

LEMMA DropPlaces ==
    ASSUME NEW g, NEW W, NEW plans, Sound(g, W, plans), NEW b, NEW h, NEW W2, Dropped(g, W, plans, b, h, W2),
           NEW n, IsPoint(g.code, n)
    PROVE  IsPoint(h.code, n) /\ Place(h.code, n)
<1>1. Len(g.code) \in Nat /\ Len(h.code) \in Nat /\ Later(g, W, h, W2)
  BY SoundIs DEF Dropped
<1>2. IsPoint(h.code, n)
  BY <1>1, PointLater
<1> QED
  BY <1>2 DEF Place

\* The rest of emitLoop.
LEMMA LoopCloses ==
    ASSUME NEW g, NEW W, NEW plans, NEW cs, NEW H, NEW M, NEW exits, NEW n \in Nat, NEW p,
           Emitting(g, W, plans, cs, H, M, exits, n, p),
           NEW c, NEW k, NEW cs2, InnermostIs(cs, c, k, cs2), c.what = "loop", NEW e, e = c.start,
           NEW h, h = Flow(Flow(Pop(EndScope(g, p)), ScopeEnd(g, p), e + 2), e + 2, e)
    PROVE  CanGoOn(h, plans, cs2, exits, n, c.end)
<1>1. Sound(g, W, plans) /\ Nested(g, W, plans, cs, H, M) /\ Place(g.code, p) /\ Len(g.code) \in Nat /\ Len(g.stack) \in Nat
  BY EmittingIs
<1>2. PICK b, m, e2, q, m1 : b = H[k + 1] /\ m = M[k + 1] /\ e2 = e + 2 /\ q = ScopeEnd(g, p) /\ m1 = m - 1
  OBVIOUS
<1>3. /\ b \in Nat \ {0} /\ m \in Nat /\ TopScope(g.stack, m) /\ Shape(g.stack, c.what, b, m)
      /\ Pending(g.code, g.stack, W, c, b, m) /\ g.stack[b].kind # "CATCH" /\ m <= Len(g.stack)
  BY <1>1, <1>2, InnermostLayer
<1>4. m = b + 2 /\ c.dispatch = 0 /\ IsPoint(g.code, e) /\ IsPoint(g.code, e2) /\ IsPoint(g.code, c.end)
  BY <1>2, <1>3 DEF Shape, Pending, LoopOpen
<1>5. m1 = b + 1 /\ m1 \in Nat /\ m1 <= Len(g.stack)
  BY <1>2, <1>3, <1>4
<1>6. PICK g1 : g1 = EndScope(g, p)
  OBVIOUS
<1>7. PICK W1 : Dropped(g, W, plans, m1, g1, W1) /\ Place(g1.code, q)
  BY <1>1, <1>2, <1>3, <1>6, EndScopeDrops
<1>8. PICK g2 : g2 = Pop(g1)
  OBVIOUS
<1>9. IsEmitter(g1) /\ Len(g1.stack) = m1 /\ b = Len(g1.stack) - 1
  BY <1>3, <1>5, <1>7 DEF Dropped, CutTo, Sound
<1>10. g2 = Cut(g1, b)
  BY <1>8, <1>9, PopIs
<1>11. Dropped(g, W, plans, b, g2, W1)
  BY <1>1, <1>3, <1>5, <1>7, <1>10, DropMore
<1>12. Place(g2.code, q)
  BY <1>7, <1>8 DEF Pop
<1>13. PICK g3 : g3 = Flow(g2, q, e2)
  OBVIOUS
<1>14. Dropped(g, W, plans, b, g3, W1)
  BY <1>1, <1>4, <1>11, <1>12, <1>13, DropFlows
<1>15. Place(g3.code, e2)
  BY <1>1, <1>4, <1>14, DropPlaces
<1>16. h = Flow(g3, e2, e)
  BY <1>2, <1>6, <1>8, <1>13
<1>17. Dropped(g, W, plans, b, h, W1)
  BY <1>1, <1>4, <1>14, <1>15, <1>16, DropFlows
<1>18. Place(h.code, c.end)
  BY <1>1, <1>4, <1>17, DropPlaces
<1>19. Sound(h, W1, plans) /\ Later(g, W, h, W1) /\ CutTo(g.stack, H[k + 1], h.stack)
  BY <1>2, <1>17 DEF Dropped
<1>20. PICK D : D = {}
  OBVIOUS
<1>21. Turns(g, W, h, W1, D)
  BY <1>19, LaterTurns
<1>22. Touches(g, c, D) /\ DoneBut(h.code, c, D, 0)
  BY <1>4, <1>20 DEF Touches, DoneBut
<1> QED
  BY <1>18, <1>19, <1>21, <1>22, CloseGoesOn

\* The innermost construct, c, is closed, and c2 is opened in its place.
LEMMA ReopenGoesOn ==
    ASSUME NEW g, NEW W, NEW plans, NEW cs, NEW H, NEW M, NEW exits, NEW n \in Nat, NEW p,
           Emitting(g, W, plans, cs, H, M, exits, n, p),
           NEW c, NEW k, NEW cs1, InnermostIs(cs, c, k, cs1),
           NEW c2, IsConstruct(c2), NEW cs2, cs2 = Append(cs1, c2),
           NEW g1, NEW W1, Sound(g1, W1, plans), NEW D, Turns(g, W, g1, W1, D), Touches(g, c, D),
           CutTo(g.stack, H[k + 1], g1.stack),
           NEW h, NEW W2, Sound(h, W2, plans), Turns(g1, W1, h, W2, D),
           IsOpening(g1.stack, c2, h.stack), Pending(h.code, h.stack, W2, c2, Len(g1.stack), Len(h.stack)),
           c2.dispatch # 0 => Touches(g, c, {c2.dispatch}), DoneBut(h.code, c, D, c2.dispatch),
           NewContents(h.stack, Len(g1.stack), exits, n), NEW q, Place(h.code, q)
    PROVE  CanGoOn(h, plans, cs2, exits, n, q)
<1>1. Sound(g, W, plans) /\ Nested(g, W, plans, cs, H, M) /\ Finished(g.code, cs) /\ IsOpen(cs)
      /\ Contents(g.stack, exits, n) /\ IsStack(g.stack) /\ Len(g.stack) \in Nat \ {0} /\ Len(g.code) \in Nat
  BY EmittingIs
<1>2. k \in Nat /\ Len(cs) = k + 1 /\ IsCode(cs1) /\ IsFront(cs, k, cs1) /\ c = cs[k + 1]
  BY DEF InnermostIs
<1>3. k = Len(cs1) /\ \A j \in 1 .. k : cs1[j] = cs[j]
  BY <1>2 DEF IsFront
<1>4. Untouched(cs, k, D) /\ Untouched(cs1, k, D)
  <2>1. Untouched(cs, k, D)
    BY <1>1, TouchesOthers
  <2> QED
    BY <1>3, <2>1 DEF Untouched
<1>5. c2.dispatch # 0 => \A j \in 1 .. k : cs1[j].dispatch # c2.dispatch
  <2>1. SUFFICES ASSUME c2.dispatch # 0 PROVE \A j \in 1 .. k : cs1[j].dispatch # c2.dispatch
    OBVIOUS
  <2>2. PICK E : E = {c2.dispatch}
    OBVIOUS
  <2>3. Touches(g, c, E)
    BY <2>1, <2>2
  <2>4. Untouched(cs, k, E)
    BY <1>1, <2>3, TouchesOthers
  <2> QED
    BY <1>3, <2>2, <2>4 DEF Untouched
<1>6. Nested(g1, W1, plans, cs1, H, M)
  BY <1>1, <1>2, <1>4, NestedClose
<1>7. IsCode(cs2) /\ IsFront(cs2, k, cs1) /\ cs2[k + 1] = c2
  <2>1. IsCode(cs2) /\ IsFront(cs2, Len(cs1), cs1) /\ cs2[Len(cs1) + 1] = c2
    BY <1>2, AppendIs
  <2> QED
    BY <1>3, <2>1
<1>8. PICK H2, M2 : Nested(h, W2, plans, cs2, H2, M2)
  BY <1>4, <1>5, <1>6, <1>7, NestedOpen
<1>9. IsOpen(cs2)
  <2>1. IsOpen(cs1)
    BY <1>1, <1>2, OpenLess
  <2> QED
    BY <1>3, <1>7, <2>1, OpenMore
<1>10. Len(g1.code) \in Nat /\ Len(h.code) \in Nat /\ IsStack(g1.stack) /\ Len(g1.stack) \in Nat /\ Len(h.stack) \in Nat
  BY SoundIs
<1>11. Turns(g, W, h, W2, D)
  BY <1>1, <1>10, TurnsTwice
<1>12. FinishedIn(h.code, D, cs, cs2)
  <2>1. SUFFICES ASSUME NEW b \in 1 .. Len(h.code), b \in D \/ \E j \in 1 .. Len(cs) : cs[j].dispatch = b,
                        ~(h.code[b].handler # 0 /\ h.code[b].next # 0)
                 PROVE  \E j \in 1 .. Len(cs2) : cs2[j].dispatch = b
    BY DEF FinishedIn
  <2>2. Len(cs2) = k + 1 /\ k + 1 \in 1 .. Len(cs2) /\ \A j \in 1 .. k : cs2[j] = cs[j]
    BY <1>2, <1>3, <1>7 DEF IsFront
  <2>3. CASE b \in D \/ b = c.dispatch
    <3>1. b = c2.dispatch
      BY <2>1, <2>3 DEF DoneBut
    <3> QED
      BY <1>7, <2>2, <3>1
  <2>4. CASE ~(b \in D \/ b = c.dispatch)
    <3>1. PICK j \in 1 .. Len(cs) : cs[j].dispatch = b
      BY <2>1, <2>4
    <3>2. j \in 1 .. k
      BY <1>2, <2>4, <3>1
    <3>3. j \in 1 .. Len(cs2) /\ cs2[j].dispatch = b
      BY <1>2, <2>2, <3>1, <3>2
    <3> QED
      BY <3>3
  <2> QED
    BY <2>3, <2>4
<1>13. Finished(h.code, cs2)
  BY <1>1, <1>10, <1>11, <1>12, FinishedTurns
<1>14. Contents(h.stack, exits, n)
  <2>1. PICK b : b = H[k + 1]
    OBVIOUS
  <2>2. b \in 1 .. Len(g.stack)
    BY <1>1, <2>1, InnermostLayer
  <2>3. Contents(g1.stack, exits, n)
    BY <1>1, <2>1, <2>2, ContentsCut
  <2>4. PICK l, m : l = Len(g1.stack) /\ m = n
    OBVIOUS
  <2>5. m \in Nat /\ n <= m /\ l \in 0 .. Len(g1.stack) /\ (\A i \in 1 .. l : SameAs(g1.stack[i], h.stack[i]))
        /\ \A i \in l + 1 .. Len(h.stack) : ContentOK(h.stack[i], exits, m)
    BY <1>10, <2>4 DEF IsOpening, NewContents
  <2>6. Contents(h.stack, exits, m)
    BY <1>10, <2>3, <2>5, ContentsSame
  <2> QED
    BY <2>4, <2>6
<1>15. Emitting(h, W2, plans, cs2, H2, M2, exits, n, q)
  BY <1>8, <1>9, <1>13, <1>14 DEF Emitting
<1> QED
  BY <1>15 DEF CanGoOn

\* What a catch puts on the stack opens it.
LEMMA CatchOpens ==
    ASSUME NEW stack, Len(stack) \in Nat, NEW stack2, CatchShape(stack, stack2), NEW c, c.what = "catch",
           NEW exits, NEW n
    PROVE  IsOpening(stack, c, stack2) /\ NewContents(stack2, Len(stack), exits, n)
<1>1. PICK b : b = Len(stack)
  OBVIOUS
<1>2. /\ b \in Nat /\ Len(stack2) = b + 4
      /\ stack2[b + 1].kind = "SCOPEMARKER" /\ stack2[b + 2].kind = "RETHROWSCOPE"
      /\ stack2[b + 3].kind = "DESTROYEXCEPTION" /\ stack2[b + 4].kind = "SCOPEMARKER"
      /\ \A i \in 1 .. b : stack2[i] = stack[i]
  BY <1>1 DEF CatchShape
<1>3. Shape(stack2, "catch", b, b + 4)
  BY <1>2 DEF Shape
<1>4. \A i \in 1 .. b : SameAs(stack[i], stack2[i])
  BY <1>2 DEF SameAs
<1>5. IsOpening(stack, c, stack2)
  BY <1>1, <1>2, <1>3, <1>4 DEF IsOpening
<1>6. NewContents(stack2, b, exits, n)
  <2>1. SUFFICES ASSUME NEW i \in b + 1 .. b + 4 PROVE ContentOK(stack2[i], exits, n)
    BY <1>2 DEF NewContents
  <2>2. i = b + 1 \/ i = b + 2 \/ i = b + 3 \/ i = b + 4
    BY <1>2
  <2>3. stack2[i].kind \notin {"SCOPEEXIT", "CATCH"}
    BY <1>2, <2>2
  <2> QED
    BY <2>3, MarkerContent
<1> QED
  BY <1>1, <1>5, <1>6

\* The ways to block e are ways to block d that were there.
LEMMA PassesMore ==
    ASSUME NEW g, NEW W, NEW d, NEW b \in Nat \ {0}, PassesOn(g.code, g.stack, W, d, b),
           NEW h, NEW W2, NEW e, \A s, t, r : <<e, s, t, r>> \in W2 => <<d, s, t, r>> \in W,
           h.code[e].types = g.code[d].types, Agree(g.stack, h.stack, b)
    PROVE  PassesOn(h.code, h.stack, W2, e, b)
<1>1. SUFFICES ASSUME NEW s, NEW t, NEW r, <<e, s, t, r>> \in W2
               PROVE  t \in Types /\ (FirstFor(g.code[d].types, t) = 0 => r = RouteAt(h.stack, b, "Throw", t))
  BY DEF PassesOn
<1>2. <<d, s, t, r>> \in W
  BY <1>1
<1>3. t \in Types /\ (FirstFor(g.code[d].types, t) = 0 => r = RouteAt(g.stack, b, "Throw", t))
  BY <1>2 DEF PassesOn
<1>4. b \in 1 .. b
  OBVIOUS
<1>5. RouteAt(g.stack, b, "Throw", t) = RouteAt(h.stack, b, "Throw", t)
  BY <1>3, <1>4, ThrowAgrees
<1> QED
  BY <1>3, <1>5

\* All but one field of a comparison.
SameComparison(c, x) ==
    DispatchForm(x) /\ x.op = "dispatch" /\ x.start = c.start /\ x.id = c.id /\ x.types = c.types /\ x.nth = c.nth

LEMMA HandlerField ==
    ASSUME NEW c, DispatchForm(c), NEW n, NEW x, x = WithHandler(c, n)
    PROVE  SameComparison(c, x) /\ x.handler = n /\ x.next = c.next
BY DispatchFields DEF SameComparison

LEMMA NextField ==
    ASSUME NEW c, DispatchForm(c), NEW n, NEW x, x = WithNext(c, n)
    PROVE  SameComparison(c, x) /\ x.next = n /\ x.handler = c.handler
BY DispatchFields DEF SameComparison

LEMMA CatchOf ==
    ASSUME NEW c, IsConstruct(c), NEW c2, c2 = [c EXCEPT !.what = "catch"]
    PROVE  IsConstruct(c2) /\ c2.what = "catch" /\ c2.start = c.start /\ c2.end = c.end /\ c2.dispatch = c.dispatch
<1>1. PICK w, a, b, d : c = Construct(w, a, b, d)
  BY DEF IsConstruct
<1>2. c2 = Construct("catch", a, b, d) /\ c.start = a /\ c.end = b /\ c.dispatch = d
  BY <1>1 DEF Construct
<1> QED
  BY <1>2, ConstructIs

\* The end of a try scope, up to the start of its first catch.
TryEnd(g, p, types, e) == Flow(PopCatches(EndScope(g, p), types), ScopeEnd(g, p), e)

LEMMA TryEnds ==
    ASSUME NEW g, NEW W, NEW plans, NEW cs, NEW H, NEW M, Nested(g, W, plans, cs, H, M), NEW p, Place(g.code, p),
           NEW c, NEW k, NEW cs1, InnermostIs(cs, c, k, cs1), c.what = "try", NEW b, b = H[k + 1],
           NEW h, h = TryEnd(g, p, g.code[c.dispatch].types, c.end)
    PROVE  \E W2 : Dropped(g, W, plans, b, h, W2)
<1>1. Sound(g, W, plans)
  BY DEF Nested
<1>2. Len(g.code) \in Nat /\ Len(g.stack) \in Nat
  BY <1>1, SoundIs
<1>3. PICK m, types, l, m1, q : /\ m = M[k + 1] /\ types = g.code[c.dispatch].types /\ l = Len(types)
                                /\ m1 = m - 1 /\ q = ScopeEnd(g, p)
  OBVIOUS
<1>4. /\ b \in Nat \ {0} /\ m \in Nat /\ TopScope(g.stack, m) /\ Shape(g.stack, c.what, b, m)
      /\ Pending(g.code, g.stack, W, c, b, m) /\ g.stack[b].kind # "CATCH" /\ m <= Len(g.stack)
  BY <1>3, InnermostLayer
<1>5. m = b + 1 + l /\ b + 2 <= m /\ IsPoint(g.code, c.end)
  BY <1>3, <1>4 DEF Shape, Pending, TryOpenIn
<1>6. l \in Nat
  <2>1. BlockOK(g.code, W, plans, c.dispatch, g.code[c.dispatch]) /\ g.code[c.dispatch].op = "dispatch"
    BY <1>1, <1>4 DEF Pending, TryOpenIn, Sound, CodeOK
  <2>2. types \in Seq(Types)
    BY <1>3, <2>1 DEF BlockOK, DispatchOK
  <2> QED
    BY <1>3, <2>2
<1>7. m1 = b + l /\ m1 \in Nat /\ b + 1 <= m1 /\ m1 <= Len(g.stack)
  <2>1. m = b + 1 + l /\ b + 2 <= m /\ b \in Nat /\ l \in Nat /\ m1 = m - 1
    BY <1>3, <1>4, <1>5, <1>6
  <2>2. m1 = b + l /\ m1 \in Nat /\ b + 1 <= m1 /\ m1 <= m
    BY <2>1
  <2> QED
    BY <1>2, <1>4, <2>2
<1>8. PICK g0 : g0 = EndScope(g, p)
  OBVIOUS
<1>9. PICK W1 : Dropped(g, W, plans, m1, g0, W1) /\ Place(g0.code, q)
  BY <1>1, <1>3, <1>4, <1>8, EndScopeDrops
<1>10. PICK g1 : g1 = PopCatches(g0, types)
  OBVIOUS
<1>11. Len(g0.stack) - Len(types) = b
  <2>1. Len(g0.stack) = m1
    BY <1>9 DEF Dropped, CutTo
  <2> QED
    BY <1>3, <1>4, <1>6, <1>7, <2>1
<1>12. g1 = Cut(g0, b)
  BY <1>10, <1>11 DEF PopCatches, Cut
<1>13. Dropped(g, W, plans, b, g1, W1)
  BY <1>2, <1>4, <1>7, <1>9, <1>12, DropMore
<1>14. Place(g1.code, q)
  BY <1>9, <1>10 DEF PopCatches
<1>15. h = Flow(g1, q, c.end)
  BY <1>3, <1>8, <1>10 DEF TryEnd
<1>16. Dropped(g, W, plans, b, h, W1)
  BY <1>1, <1>5, <1>13, <1>14, <1>15, DropFlows
<1> QED
  BY <1>16

LEMMA TryCloses ==
    ASSUME NEW g, NEW W, NEW plans, NEW cs, NEW H, NEW M, NEW exits, NEW n \in Nat, NEW p,
           Emitting(g, W, plans, cs, H, M, exits, n, p),
           NEW c, NEW k, NEW cs1, InnermostIs(cs, c, k, cs1), c.what = "try",
           NEW g1, g1 = TryEnd(g, p, g.code[c.start].types, c.end),
           NEW h, h = BeginCatch(g1, c.start), NEW q, q = Nth(g1, 1),
           NEW cs2, cs2 = Append(cs1, [c EXCEPT !.what = "catch"])
    PROVE  CanGoOn(h, plans, cs2, exits, n, q)
<1>1. Sound(g, W, plans) /\ Nested(g, W, plans, cs, H, M) /\ Place(g.code, p) /\ Len(g.code) \in Nat
      /\ IsStack(g.stack) /\ IsOpen(cs)
  BY EmittingIs
<1>2. PICK b, m, d, c2 : b = H[k + 1] /\ m = M[k + 1] /\ d = c.dispatch /\ c2 = [c EXCEPT !.what = "catch"]
  OBVIOUS
<1>3. b \in Nat \ {0} /\ Pending(g.code, g.stack, W, c, b, m) /\ b \in 1 .. Len(g.stack)
  BY <1>1, <1>2, InnermostLayer
<1>4. /\ c.start = d /\ d \in 1 .. Len(g.code) /\ g.code[d].op = "dispatch" /\ IsPoint(g.code, c.end)
      /\ PassesOn(g.code, g.stack, W, d, b)
  BY <1>2, <1>3 DEF Pending, TryOpenIn
<1>5. PICK W1 : Dropped(g, W, plans, b, g1, W1)
  BY <1>1, <1>2, <1>4, TryEnds
<1>6. Sound(g1, W1, plans) /\ Later(g, W, g1, W1) /\ CutTo(g.stack, b, g1.stack) /\ Len(g1.code) \in Nat
  BY <1>5 DEF Dropped
<1>7. d \in 1 .. Len(g1.code) /\ g1.code[d] = g.code[d] /\ \A s, t, r : <<d, s, t, r>> \in W1 => <<d, s, t, r>> \in W
  <2>1. g1.code[d] = g.code[d] /\ \A s, t, r : <<d, s, t, r>> \in W1 => <<d, s, t, r>> \in W
    BY <1>4, <1>6 DEF Later
  <2>2. Len(g.code) <= Len(g1.code)
    BY <1>6 DEF Later, Keeps
  <2> QED
    BY <1>1, <1>4, <1>6, <2>1, <2>2
<1>8. h = BeginCatch(g1, d) /\ g1.code[d].op = "dispatch" /\ q = Len(g1.code) + 1
  BY <1>4, <1>7 DEF Nth
<1>9. CatchBegun(g1, W1, plans, d, q, h)
  BY <1>6, <1>7, <1>8, CatchBegins
<1>10. /\ Sound(h, W1, plans) /\ Turns(g1, W1, h, W1, {d}) /\ CatchShape(g1.stack, h.stack)
       /\ h.code[d] = WithHandler(g1.code[d], q) /\ IsPoint(h.code, q)
  BY <1>9 DEF CatchBegun
<1>11. IsConstruct(c2) /\ c2.what = "catch" /\ c2.start = c.start /\ c2.end = c.end /\ c2.dispatch = d
  <2>1. IsConstruct(c)
    BY <1>1 DEF InnermostIs, IsOpen
  <2> QED
    BY <1>2, <2>1, CatchOf
<1>12. Len(h.code) \in Nat /\ IsStack(h.stack) /\ Len(g1.stack) = b /\ Len(h.stack) \in Nat
  BY <1>6, <1>10, SoundIs DEF CutTo
<1>13. IsOpening(g1.stack, c2, h.stack) /\ NewContents(h.stack, Len(g1.stack), exits, n)
  BY <1>3, <1>10, <1>11, <1>12, CatchOpens
<1>14. h.code[d].op = "dispatch" /\ h.code[d].types = g.code[d].types /\ h.code[d].handler = q /\ d \in 1 .. Len(h.code)
  <2>1. BlockOK(g1.code, W1, plans, d, g1.code[d])
    BY <1>6, <1>7 DEF Sound, CodeOK
  <2>2. DispatchForm(g1.code[d])
    BY <1>8, <2>1 DEF BlockOK, DispatchOK
  <2>3. Len(g1.code) <= Len(h.code)
    BY <1>10 DEF Turns, Keeps
  <2>4. SameComparison(g1.code[d], h.code[d]) /\ h.code[d].handler = q
    <3>1. PICK y, x : y = g1.code[d] /\ x = h.code[d]
      OBVIOUS
    <3>2. DispatchForm(y) /\ x = WithHandler(y, q)
      BY <1>10, <2>2, <3>1
    <3>3. SameComparison(y, x) /\ x.handler = q /\ x.next = y.next
      BY <3>2, HandlerField
    <3> QED
      BY <3>1, <3>3
  <2>5. d \in 1 .. Len(h.code)
    BY <1>6, <1>7, <1>12, <2>3, SMTT(30)
  <2> QED
    BY <1>7, <2>4, <2>5 DEF SameComparison
<1>15. Agree(g.stack, h.stack, b)
  <2>1. \A i \in 1 .. b : SameAs(g.stack[i], g1.stack[i])
    BY <1>6 DEF CutTo
  <2>2. Len(h.stack) = b + 4 /\ \A i \in 1 .. b : h.stack[i] = g1.stack[i]
    BY <1>10, <1>12 DEF CatchShape
  <2>3. b <= Len(h.stack)
    BY <1>3, <2>2
  <2> QED
    BY <1>1, <1>3, <1>12, <2>1, <2>2, <2>3 DEF Agree
<1>16. PassesOn(h.code, h.stack, W1, d, b)
  BY <1>3, <1>4, <1>7, <1>14, <1>15, PassesMore
<1>17. IsPoint(h.code, c.end)
  <2>1. IsPoint(g1.code, c.end)
    BY <1>1, <1>4, <1>5, DropPlaces
  <2> QED
    BY <1>6, <1>10, <1>12, <2>1, PointTurns
<1>18. Pending(h.code, h.stack, W1, c2, Len(g1.stack), Len(h.stack))
  <2>1. q # 0
    BY <1>6, <1>8
  <2>2. TryOpenIn(h.code, h.stack, W1, c2, b, Len(h.stack))
    BY <1>11, <1>14, <1>16, <1>17, <2>1 DEF TryOpenIn
  <2> QED
    BY <1>11, <1>12, <2>2 DEF Pending
<1>19. PICK D : D = {d}
  OBVIOUS
<1>20. Turns(g, W, g1, W1, D) /\ Turns(g1, W1, h, W1, D)
  BY <1>6, <1>10, <1>19, LaterTurns
<1>21. d # 0
  BY <1>4
<1>22. Touches(g, c, D) /\ Touches(g, c, {c2.dispatch}) /\ DoneBut(h.code, c, D, c2.dispatch)
  BY <1>2, <1>11, <1>19, <1>21 DEF Touches, DoneBut
<1>23. Place(h.code, q) /\ cs2 = Append(cs1, c2) /\ CutTo(g.stack, H[k + 1], g1.stack)
  BY <1>2, <1>6, <1>10 DEF Place
<1> QED
  BY <1>6, <1>10, <1>11, <1>13, <1>18, <1>20, <1>22, <1>23, ReopenGoesOn

LEMMA DropsTwice ==
    ASSUME NEW g, NEW W, NEW plans, Sound(g, W, plans), NEW n \in Nat, NEW g1, NEW W1, Dropped(g, W, plans, n, g1, W1),
           NEW b \in Nat, b <= n, NEW h, NEW W2, Dropped(g1, W1, plans, b, h, W2)
    PROVE  Dropped(g, W, plans, b, h, W2)
<1>1. Sound(h, W2, plans) /\ Later(g1, W1, h, W2) /\ CutTo(g1.stack, b, h.stack) /\ Len(h.code) \in Nat
      /\ Later(g, W, g1, W1) /\ CutTo(g.stack, n, g1.stack) /\ Len(g1.code) \in Nat
  BY DEF Dropped
<1>2. Len(g.code) \in Nat
  BY SoundIs
<1>3. Later(g, W, h, W2)
  BY <1>1, <1>2, LaterTwice
<1>4. CutTo(g.stack, b, h.stack)
  BY <1>1, CutSame
<1> QED
  BY <1>1, <1>3, <1>4 DEF Dropped

\* The end of a catch: of its two scopes.
CatchEnd(g, p, e) ==
    Flow(EndScope(EndScope(g, p), ScopeEnd(g, p)), ScopeEnd(EndScope(g, p), ScopeEnd(g, p)), e)

LEMMA CatchEnds ==
    ASSUME NEW g, NEW W, NEW plans, NEW cs, NEW H, NEW M, Nested(g, W, plans, cs, H, M), NEW p, Place(g.code, p),
           NEW c, NEW k, NEW cs1, InnermostIs(cs, c, k, cs1), c.what = "catch", NEW b, b = H[k + 1],
           NEW h, h = CatchEnd(g, p, c.end)
    PROVE  \E W2 : Dropped(g, W, plans, b, h, W2)
<1>1. Sound(g, W, plans)
  BY DEF Nested
<1>2. Len(g.code) \in Nat /\ Len(g.stack) \in Nat
  BY <1>1, SoundIs
<1>3. PICK m, m1, b1, q : m = M[k + 1] /\ m1 = m - 1 /\ b1 = b + 1 /\ q = ScopeEnd(g, p)
  OBVIOUS
<1>4. /\ b \in Nat \ {0} /\ m \in Nat /\ TopScope(g.stack, m) /\ Shape(g.stack, c.what, b, m)
      /\ Pending(g.code, g.stack, W, c, b, m) /\ g.stack[b].kind # "CATCH" /\ m <= Len(g.stack)
  BY <1>3, InnermostLayer
<1>5. /\ m = b + 4 /\ g.stack[b + 1].kind = "SCOPEMARKER" /\ g.stack[b + 2].kind = "RETHROWSCOPE"
      /\ g.stack[b + 3].kind = "DESTROYEXCEPTION" /\ IsPoint(g.code, c.end)
  BY <1>4 DEF Shape, Pending, TryOpenIn
<1>6. m1 = b + 3 /\ m1 \in Nat /\ b \in Nat /\ b <= m1 /\ b1 - 1 = b
  BY <1>3, <1>4, <1>5
<1>7. PICK g1 : g1 = EndScope(g, p)
  OBVIOUS
<1>8. PICK W1 : Dropped(g, W, plans, m1, g1, W1) /\ Place(g1.code, q)
  BY <1>1, <1>3, <1>4, <1>7, EndScopeDrops
<1>9. TopScope(g1.stack, b1)
  <2>1. Len(g1.stack) = m1 /\ \A i \in 1 .. m1 : g.stack[i].kind = g1.stack[i].kind
    BY <1>8 DEF Dropped, CutTo, SameAs
  <2>2. b1 \in 2 .. m1 /\ g1.stack[b1].kind = "SCOPEMARKER"
    <3>1. b1 = b + 1 /\ b1 \in 2 .. m1 /\ b1 \in 1 .. m1
      BY <1>3, <1>4, <1>6
    <3>2. g.stack[b1].kind = "SCOPEMARKER"
      BY <1>5, <3>1
    <3> QED
      BY <2>1, <3>1, <3>2
  <2>3. ASSUME NEW i \in b1 + 1 .. m1 PROVE g1.stack[i].kind # "SCOPEMARKER"
    <3>1. (i = b + 2 \/ i = b + 3) /\ i \in 1 .. m1
      BY <1>3, <1>6
    <3> QED
      BY <1>5, <2>1, <3>1
  <2> QED
    BY <2>1, <2>2, <2>3 DEF TopScope
<1>10. Sound(g1, W1, plans)
  BY <1>8 DEF Dropped
<1>11. PICK q2 : q2 = ScopeEnd(g1, q)
  OBVIOUS
<1>12. PICK g2 : g2 = EndScope(g1, q)
  OBVIOUS
<1>13. PICK W2 : Dropped(g1, W1, plans, b1 - 1, g2, W2) /\ Place(g2.code, q2)
  BY <1>8, <1>9, <1>10, <1>11, <1>12, EndScopeDrops
<1>14. Dropped(g, W, plans, b, g2, W2)
  <2>1. Dropped(g1, W1, plans, b, g2, W2)
    BY <1>6, <1>13
  <2> QED
    BY <1>1, <1>6, <1>8, <2>1, DropsTwice
<1>15. h = Flow(g2, q2, c.end)
  BY <1>3, <1>7, <1>11, <1>12 DEF CatchEnd
<1>16. Dropped(g, W, plans, b, h, W2)
  BY <1>1, <1>5, <1>13, <1>14, <1>15, DropFlows
<1> QED
  BY <1>16

LEMMA TurnsMore ==
    ASSUME NEW g, NEW W, NEW h, NEW W2, NEW D, Turns(g, W, h, W2, D), NEW E, D \subseteq E
    PROVE  Turns(g, W, h, W2, E)
BY DEF Turns

\* The comparison of the innermost construct, when its catch ends.
CatchIs(g, W, c, b) ==
    /\ c.dispatch \in 1 .. Len(g.code) /\ g.code[c.dispatch].op = "dispatch" /\ DispatchOK(g.code, g.code[c.dispatch])
    /\ g.code[c.dispatch].handler # 0 /\ IsPoint(g.code, c.end) /\ PassesOn(g.code, g.stack, W, c.dispatch, b)
    /\ \A s, t, r : <<c.dispatch, s, t, r>> \in W =>
            r \in Routes /\ DispatchWay(g.code, W, g.code[c.dispatch], s, t, r)

LEMMA CatchKnown ==
    ASSUME NEW g, NEW W, NEW plans, NEW cs, NEW H, NEW M, Nested(g, W, plans, cs, H, M),
           NEW c, NEW k, NEW cs1, InnermostIs(cs, c, k, cs1), c.what = "catch", NEW b, b = H[k + 1]
    PROVE  CatchIs(g, W, c, b)
<1>1. CodeOK(g.code, W, plans)
  BY DEF Nested, Sound
<1>2. PICK m : m = M[k + 1]
  OBVIOUS
<1>3. Pending(g.code, g.stack, W, c, b, m)
  BY <1>2, InnermostLayer
<1>4. /\ c.dispatch \in 1 .. Len(g.code) /\ g.code[c.dispatch].op = "dispatch"
      /\ g.code[c.dispatch].handler # 0 /\ IsPoint(g.code, c.end) /\ PassesOn(g.code, g.stack, W, c.dispatch, b)
  BY <1>3 DEF Pending, TryOpenIn
<1>5. DispatchOK(g.code, g.code[c.dispatch])
  BY <1>1, <1>4 DEF CodeOK, BlockOK
<1>6. ASSUME NEW s, NEW t, NEW r, <<c.dispatch, s, t, r>> \in W
      PROVE  r \in Routes /\ DispatchWay(g.code, W, g.code[c.dispatch], s, t, r)
  <2>1. WayOK(g.code, W, g.code[c.dispatch], s, t, r)
    BY <1>1, <1>6 DEF CodeOK
  <2> QED
    BY <1>4, <2>1 DEF WayOK
<1> QED
  BY <1>4, <1>5, <1>6 DEF CatchIs

\* The stack was cut: its comparison is as it was.
LEMMA CatchDropped ==
    ASSUME NEW g, NEW W, NEW plans, Sound(g, W, plans), NEW c, NEW b \in 1 .. Len(g.stack), CatchIs(g, W, c, b),
           NEW h, NEW W2, Dropped(g, W, plans, b, h, W2)
    PROVE  CatchIs(h, W2, c, b) /\ h.code[c.dispatch] = g.code[c.dispatch] /\ Agree(g.stack, h.stack, b)
<1>1. Sound(h, W2, plans) /\ Later(g, W, h, W2) /\ CutTo(g.stack, b, h.stack) /\ Len(h.code) \in Nat
      /\ IsStack(g.stack) /\ IsStack(h.stack) /\ Len(g.code) \in Nat /\ b \in Nat \ {0}
  BY SoundIs DEF Dropped
<1>2. PICK d : d = c.dispatch
  OBVIOUS
<1>3. d \in 1 .. Len(g.code) /\ g.code[d].op = "dispatch" /\ g.code[d].handler # 0 /\ IsPoint(g.code, c.end)
      /\ PassesOn(g.code, g.stack, W, d, b)
  BY <1>2 DEF CatchIs
<1>4. h.code[d] = g.code[d] /\ \A s, t, r : <<d, s, t, r>> \in W2 => <<d, s, t, r>> \in W
  BY <1>1, <1>3 DEF Later
<1>5. Len(g.code) <= Len(h.code) /\ d \in 1 .. Len(h.code)
  BY <1>1, <1>3 DEF Later, Keeps
<1>6. Agree(g.stack, h.stack, b)
  BY <1>1 DEF CutTo, Agree
<1>7. PassesOn(h.code, h.stack, W2, d, b)
  BY <1>1, <1>3, <1>4, <1>6, PassesMore
<1>8. IsPoint(h.code, c.end)
  BY <1>3, DropPlaces
<1>9. CodeOK(h.code, W2, plans)
  BY <1>1 DEF Sound
<1>10. DispatchOK(h.code, h.code[d])
  BY <1>3, <1>4, <1>5, <1>9 DEF CodeOK, BlockOK
<1>11. ASSUME NEW s, NEW t, NEW r, <<d, s, t, r>> \in W2 PROVE r \in Routes /\ DispatchWay(h.code, W2, h.code[d], s, t, r)
  <2>1. WayOK(h.code, W2, h.code[d], s, t, r)
    BY <1>9, <1>11 DEF CodeOK
  <2> QED
    BY <1>3, <1>4, <2>1 DEF WayOK
<1> QED
  BY <1>2, <1>3, <1>4, <1>5, <1>6, <1>7, <1>8, <1>10, <1>11 DEF CatchIs

\* What the clause with this id does not catch goes from block d to block e.
NextWays(W, d, e, id) ==
    W \cup {w \in {e} \X {"Throw"} \X Types \X Routes : <<d, "Throw", w[3], w[4]>> \in W /\ w[4].selector # id}

IsNextWay(W, d, e, id, b, s, t, r) ==
    b = e /\ s = "Throw" /\ t \in Types /\ r \in Routes /\ <<d, "Throw", t, r>> \in W /\ r.selector # id

LEMMA NextWaysAre ==
    ASSUME NEW W, NEW d, NEW e, NEW id, NEW W2, W2 = NextWays(W, d, e, id)
    PROVE  /\ W \subseteq W2
           /\ \A b, s, t, r : <<b, s, t, r>> \in W2 /\ <<b, s, t, r>> \notin W => IsNextWay(W, d, e, id, b, s, t, r)
           /\ \A t, r : IsNextWay(W, d, e, id, e, "Throw", t, r) => <<e, "Throw", t, r>> \in W2
<1>1. W \subseteq W2
  BY DEF NextWays
<1>2. ASSUME NEW b, NEW s, NEW t, NEW r, <<b, s, t, r>> \in W2, <<b, s, t, r>> \notin W
      PROVE  IsNextWay(W, d, e, id, b, s, t, r)
  <2>1. <<b, s, t, r>> \in {e} \X {"Throw"} \X Types \X Routes /\ <<d, "Throw", t, r>> \in W /\ r.selector # id
    BY <1>2 DEF NextWays
  <2> QED
    BY <2>1 DEF IsNextWay
<1>3. ASSUME NEW t, NEW r, IsNextWay(W, d, e, id, e, "Throw", t, r) PROVE <<e, "Throw", t, r>> \in W2
  <2>1. <<e, "Throw", t, r>> \in {e} \X {"Throw"} \X Types \X Routes
    BY <1>3 DEF IsNextWay
  <2> QED
    BY <1>3, <2>1 DEF NextWays, IsNextWay
<1> QED
  BY <1>1, <1>2, <1>3

\* The clause after the one that x compares.
NextClause(x) == Dispatch(x.start, x.id + 1, x.types, x.nth + 1)

LEMMA NextCompared ==
    ASSUME NEW code, NEW W, NEW x, DispatchOK(code, x), NEW t \in Types, NEW r \in Routes,
           DispatchWay(code, W, x, "Throw", t, r), r.selector # x.id, x.nth < Len(x.types),
           NEW y, y.types = x.types, y.start = x.start, y.id = x.id + 1, y.nth = x.nth + 1
    PROVE  Compared(y, t, r)
<1>1. PICK k, base, n, l : k = FirstFor(x.types, t) /\ base = x.id - x.nth /\ n = x.nth /\ l = Len(x.types)
  OBVIOUS
<1>2. x.id \in Nat /\ n \in Nat /\ base \in Int /\ n <= x.id
  <2>1. x.id \in Nat /\ x.nth \in 1 .. Len(x.types) /\ x.nth <= x.id
    BY DEF DispatchOK
  <2>2. x.nth \in Int
    BY <2>1
  <2> QED
    BY <1>1, <2>1, <2>2
<1>3. y.id - y.nth = base
  BY <1>1, <1>2
<1>4. /\ k # 0 => k >= n /\ r.goal = x.start /\ r.todo = <<>> /\ r.selector = base + k
      /\ k = 0 => r.selector \notin base + 1 .. base + Len(x.types)
  BY <1>1 DEF DispatchWay
<1>5. k \in Nat
  <2>1. Clauses(x.types)
    BY DEF DispatchOK, Clauses
  <2> QED
    BY <1>1, <2>1, FirstForIs
<1>6. k # 0 => k >= n + 1
  <2>1. SUFFICES ASSUME k # 0, k = n PROVE FALSE
    BY <1>2, <1>4, <1>5
  <2>2. r.selector = base + n
    BY <1>4, <2>1
  <2>3. base + n = x.id
    BY <1>1, <1>2
  <2> QED
    BY <2>2, <2>3
<1> QED
  BY <1>1, <1>3, <1>4, <1>6 DEF Compared

LEMMA NextCompares ==
    ASSUME NEW g, NEW W, NEW plans, Sound(g, W, plans), NEW c, NEW b, CatchIs(g, W, c, b),
           NEW d, d = c.dispatch, NEW x, x = g.code[d], x.nth < Len(x.types), NEW y, y = NextClause(x),
           NEW e, e = Len(g.code) + 1, NEW W2, W2 = NextWays(W, d, e, x.id)
    PROVE  Comparable(e, y) /\ ComparedAt(W, W2, e, y)
<1>1. /\ d \in 1 .. Len(g.code) /\ x.op = "dispatch" /\ DispatchOK(g.code, x) /\ PassesOn(g.code, g.stack, W, d, b)
      /\ \A s, t, r : <<d, s, t, r>> \in W => r \in Routes /\ DispatchWay(g.code, W, x, s, t, r)
  BY DEF CatchIs
<1>2. Len(g.code) \in Nat
  BY SoundIs
<1>3. /\ DispatchForm(y) /\ y.op = "dispatch" /\ y.start = x.start /\ y.id = x.id + 1 /\ y.types = x.types
      /\ y.nth = x.nth + 1 /\ y.next = 0 /\ y.handler = 0
  BY DispatchIs DEF NextClause
<1>4. Comparable(e, y)
  <2>1. x.types \in Seq(Types) /\ x.nth \in 1 .. Len(x.types) /\ x.id \in Nat /\ x.nth <= x.id /\ x.start \in 1 .. Len(g.code)
    BY <1>1 DEF DispatchOK
  <2>2. Len(x.types) \in Nat /\ x.nth \in Nat
    BY <2>1, SMTT(30)
  <2>3. x.start \in 1 .. e
    BY <1>2, <2>1
  <2>4. x.nth + 1 \in 1 .. Len(x.types) /\ x.id + 1 \in Nat /\ x.nth + 1 <= x.id + 1
    <3>1. PICK n, l, i : n = x.nth /\ l = Len(x.types) /\ i = x.id
      OBVIOUS
    <3>2. n \in Nat /\ l \in Nat /\ i \in Nat /\ n < l /\ n <= i
      BY <2>1, <2>2, <3>1
    <3>3. n + 1 \in 1 .. l /\ i + 1 \in Nat /\ n + 1 <= i + 1
      BY <3>2
    <3> QED
      BY <3>1, <3>3
  <2> QED
    BY <1>3, <2>1, <2>2, <2>3, <2>4 DEF Comparable, Clauses
<1>5. ASSUME NEW b2, NEW s, NEW t, NEW r, <<b2, s, t, r>> \in W2, <<b2, s, t, r>> \notin W
      PROVE  b2 = e /\ s = "Throw" /\ Compared(y, t, r)
  <2>1. b2 = e /\ s = "Throw" /\ t \in Types /\ r \in Routes /\ <<d, "Throw", t, r>> \in W /\ r.selector # x.id
    BY <1>5, NextWaysAre DEF IsNextWay
  <2>2. DispatchWay(g.code, W, x, "Throw", t, r)
    BY <1>1, <2>1
  <2>3. Compared(y, t, r)
    BY <1>1, <1>3, <2>1, <2>2, NextCompared
  <2> QED
    BY <2>1, <2>3
<1>6. W \subseteq W2
  BY NextWaysAre
<1> QED
  BY <1>4, <1>5, <1>6 DEF ComparedAt

\* The next clause is compared when this one is not the one.
NextDone(g, W, plans, d, e, h, W2) ==
    /\ Sound(h, W2, plans) /\ Turns(g, W, h, W2, {d, e}) /\ h.stack = g.stack /\ Len(h.code) = e
    /\ h.code[d] = WithNext(g.code[d], e) /\ h.code[e] = NextClause(g.code[d])
    /\ \A s, t, r : <<e, s, t, r>> \in W2 => <<d, s, t, r>> \in W

LEMMA NextEmitted ==
    ASSUME NEW g, NEW W, NEW plans, Sound(g, W, plans), NEW c, NEW b, CatchIs(g, W, c, b),
           NEW d, d = c.dispatch, g.code[d].nth < Len(g.code[d].types), NEW e, e = Len(g.code) + 1,
           NEW h, h = NextAt(Emit(g, NextClause(g.code[d])), d, e)
    PROVE  \E W2 : NextDone(g, W, plans, d, e, h, W2)
<1>1. PICK x, y, g2, W2 : x = g.code[d] /\ y = NextClause(x) /\ g2 = Emit(g, y) /\ W2 = NextWays(W, d, e, x.id)
  OBVIOUS
<1>2. Len(g.code) \in Nat /\ CodeOK(g.code, W, plans)
  BY SoundIs DEF Sound
<1>3. /\ d \in 1 .. Len(g.code) /\ x.op = "dispatch" /\ DispatchOK(g.code, x) /\ PassesOn(g.code, g.stack, W, d, b)
      /\ \A s, t, r : <<d, s, t, r>> \in W => r \in Routes /\ DispatchWay(g.code, W, x, s, t, r)
  BY <1>1 DEF CatchIs
<1>4. d # e /\ \A s, t, r : <<e, s, t, r>> \notin W
  <2>1. e \notin 1 .. Len(g.code)
    BY <1>2
  <2> QED
    BY <1>2, <1>3, <2>1 DEF CodeOK
<1>20. ASSUME NEW b2, NEW s, NEW t, NEW r, <<b2, s, t, r>> \in W2, <<b2, s, t, r>> \notin W
       PROVE  IsNextWay(W, d, e, x.id, b2, s, t, r)
  BY <1>1, <1>20, NextWaysAre
<1>5. Comparable(e, y) /\ ComparedAt(W, W2, e, y)
  BY <1>1, NextCompares
<1>6. Sound(g2, W2, plans) /\ Turns(g, W, g2, W2, {e}) /\ Emitted(g, y, g2)
  BY <1>1, <1>5, DispatchLater
<1>7. g2.stack = g.stack /\ Len(g2.code) = e /\ g2.code[e] = y /\ g2.code[d] = x /\ d \in 1 .. Len(g2.code)
  <2>1. g2.stack = g.stack /\ Len(g2.code) = Len(g.code) + 1 /\ g2.code[Len(g.code) + 1] = y
        /\ \A i \in 1 .. Len(g.code) : g2.code[i] = g.code[i]
    BY <1>6 DEF Emitted
  <2>2. d \in 1 .. Len(g2.code)
    BY <1>2, <1>3, <2>1
  <2> QED
    BY <1>1, <1>3, <2>1, <2>2
<1>8. ASSUME NEW s, NEW t, NEW r, <<d, s, t, r>> \in W2, r.selector # x.id
      PROVE  <<e, s, t, r>> \in W2
  <2>1. <<d, s, t, r>> \in W
    BY <1>4, <1>8, <1>20 DEF IsNextWay
  <2>2. r \in Routes /\ s = "Throw" /\ t \in Types
    BY <1>3, <2>1 DEF DispatchWay, PassesOn
  <2>3. IsNextWay(W, d, e, x.id, e, "Throw", t, r)
    BY <1>8, <2>1, <2>2 DEF IsNextWay
  <2> QED
    BY <1>1, <2>2, <2>3, NextWaysAre
<1>9. \A s, t, r : <<d, s, t, r>> \in W2 /\ r.selector # g2.code[d].id => Reaches(g2.code, W2, e, s, t, r)
  BY <1>7, <1>8 DEF Reaches
<1>10. h = NextAt(g2, d, e)
  BY <1>1
<1>11. Turned(g2, W2, plans, d, WithNext(x, e), h)
  <2>1. g2.code[d].op = "dispatch"
    BY <1>3, <1>7
  <2>2. Turned(g2, W2, plans, d, WithNext(g2.code[d], e), h)
    BY <1>6, <1>7, <1>9, <1>10, <2>1, NextTurns
  <2> QED
    BY <1>7, <2>2
<1>12. /\ Sound(h, W2, plans) /\ Turns(g2, W2, h, W2, {d}) /\ h.code[d] = WithNext(x, e)
       /\ Len(h.code) = Len(g2.code) /\ h.stack = g2.stack
  BY <1>11 DEF Turned
<1>13. h.code[e] = y
  <2>1. e \in 1 .. Len(g2.code) /\ y.op = "dispatch" /\ e \notin {d}
    BY <1>2, <1>4, <1>5, <1>7 DEF Comparable
  <2>2. g2.code[e].op = "dispatch"
    BY <1>7, <2>1
  <2>3. h.code[e] = g2.code[e]
    BY <1>12, <2>1, <2>2 DEF Turns
  <2> QED
    BY <1>7, <2>3
<1>14. Turns(g, W, h, W2, {d, e})
  <2>1. PICK D, E, F : D = {d} /\ E = {e} /\ F = {d, e}
    OBVIOUS
  <2>2. D \subseteq F /\ E \subseteq F
    BY <2>1
  <2>3. Turns(g, W, g2, W2, F) /\ Turns(g2, W2, h, W2, F)
    <3>1. Turns(g, W, g2, W2, E) /\ Turns(g2, W2, h, W2, D)
      BY <1>6, <1>12, <2>1
    <3> QED
      BY <2>2, <3>1, TurnsMore
  <2>4. Len(g2.code) \in Nat /\ Len(h.code) \in Nat
    BY <1>6, <1>12, SoundIs
  <2>5. Turns(g, W, h, W2, F)
    BY <1>2, <2>3, <2>4, TurnsTwice
  <2> QED
    BY <2>1, <2>5
<1>15. ASSUME NEW s, NEW t, NEW r, <<e, s, t, r>> \in W2 PROVE <<d, s, t, r>> \in W
  BY <1>4, <1>15, <1>20 DEF IsNextWay
<1> QED
  BY <1>1, <1>7, <1>12, <1>13, <1>14, <1>15 DEF NextDone

WithDispatch(c, e) == [c EXCEPT !.dispatch = e]

LEMMA CatchNextOf ==
    ASSUME NEW c, IsConstruct(c), NEW e, NEW c2, c2 = WithDispatch(c, e)
    PROVE  IsConstruct(c2) /\ c2.what = c.what /\ c2.start = c.start /\ c2.end = c.end /\ c2.dispatch = e
<1>1. PICK w, a, b, d : c = Construct(w, a, b, d)
  BY DEF IsConstruct
<1>2. c2 = Construct(w, a, b, e)
  BY <1>1 DEF Construct, WithDispatch
<1>3. IsConstruct(c2)
  BY <1>2 DEF IsConstruct
<1> QED
  BY <1>1, <1>2, <1>3 DEF Construct

\* The catch that begins next.
CatchStarted(g, W, plans, c, b, e, q, h, W2) ==
    /\ Sound(h, W2, plans) /\ Turns(g, W, h, W2, {c.dispatch, e}) /\ CatchShape(g.stack, h.stack)
    /\ IsPoint(h.code, q) /\ q # 0 /\ e = Len(g.code) + 1
    /\ h.code[c.dispatch].handler # 0 /\ h.code[c.dispatch].next # 0
    /\ e \in 1 .. Len(h.code) /\ h.code[e].op = "dispatch" /\ h.code[e].types = g.code[c.dispatch].types
    /\ h.code[e].handler # 0
    /\ \A s, t, r : <<e, s, t, r>> \in W2 => <<c.dispatch, s, t, r>> \in W

LEMMA CatchStarts ==
    ASSUME NEW g, NEW W, NEW plans, Sound(g, W, plans), NEW c, NEW b, CatchIs(g, W, c, b),
           g.code[c.dispatch].nth < Len(g.code[c.dispatch].types), NEW e, e = Len(g.code) + 1,
           NEW g2, g2 = Emit(g, NextClause(g.code[c.dispatch])),
           NEW h, h = BeginCatch(NextAt(g2, c.dispatch, e), e), NEW q, q = e + 1
    PROVE  \E W2 : CatchStarted(g, W, plans, c, b, e, q, h, W2)
<1>1. PICK d, x, g3 : d = c.dispatch /\ x = g.code[d] /\ g3 = NextAt(g2, d, e)
  OBVIOUS
<1>2. PICK W2 : NextDone(g, W, plans, d, e, g3, W2)
  BY <1>1, NextEmitted
<1>3. /\ Sound(g3, W2, plans) /\ Turns(g, W, g3, W2, {d, e}) /\ g3.stack = g.stack /\ Len(g3.code) = e
      /\ g3.code[d] = WithNext(x, e) /\ g3.code[e] = NextClause(x)
      /\ \A s, t, r : <<e, s, t, r>> \in W2 => <<d, s, t, r>> \in W
  BY <1>1, <1>2 DEF NextDone
<1>4. /\ d \in 1 .. Len(g.code) /\ x.op = "dispatch" /\ DispatchForm(x) /\ x.handler # 0
  BY <1>1 DEF CatchIs, DispatchOK
<1>5. Len(g.code) \in Nat /\ e \in Nat /\ e # 0 /\ q # 0 /\ d # e /\ e \in 1 .. Len(g3.code) /\ d \in 1 .. Len(g3.code)
  <2>1. Len(g.code) \in Nat
    BY SoundIs
  <2> QED
    BY <1>3, <1>4, <2>1
<1>6. /\ g3.code[e].op = "dispatch" /\ DispatchForm(g3.code[e]) /\ g3.code[e].types = x.types
  <2>1. PICK y : y = g3.code[e]
    OBVIOUS
  <2>2. y = Dispatch(x.start, x.id + 1, x.types, x.nth + 1)
    BY <1>3, <2>1 DEF NextClause
  <2>3. DispatchForm(y) /\ y.op = "dispatch" /\ y.types = x.types
    BY <2>2, DispatchIs
  <2> QED
    BY <2>1, <2>3
<1>7. CatchBegun(g3, W2, plans, e, q, h)
  BY <1>1, <1>3, <1>5, <1>6, CatchBegins
<1>8. /\ Sound(h, W2, plans) /\ Turns(g3, W2, h, W2, {e}) /\ CatchShape(g.stack, h.stack)
      /\ h.code[e] = WithHandler(g3.code[e], q) /\ IsPoint(h.code, q)
  BY <1>3, <1>7 DEF CatchBegun
<1>9. h.code[e].op = "dispatch" /\ h.code[e].types = x.types /\ h.code[e].handler = q
  <2>1. PICK y, z : y = g3.code[e] /\ z = h.code[e]
    OBVIOUS
  <2>2. SameComparison(y, z) /\ z.handler = q
    <3>1. DispatchForm(y) /\ z = WithHandler(y, q)
      BY <1>6, <1>8, <2>1
    <3>2. SameComparison(y, z) /\ z.handler = q /\ z.next = y.next
      BY <3>1, HandlerField
    <3> QED
      BY <3>2
  <2>3. z.op = "dispatch" /\ z.types = y.types
    BY <2>2 DEF SameComparison
  <2> QED
    BY <1>6, <2>1, <2>2, <2>3
<1>10. h.code[d].handler # 0 /\ h.code[d].next # 0
  <2>1. PICK y : y = g3.code[d]
    OBVIOUS
  <2>2. SameComparison(x, y) /\ y.next = e /\ y.handler = x.handler
    <3>1. DispatchForm(x) /\ y = WithNext(x, e)
      BY <1>3, <1>4, <2>1
    <3>2. SameComparison(x, y) /\ y.next = e /\ y.handler = x.handler
      BY <3>1, NextField
    <3> QED
      BY <3>2
  <2>3. y.op = "dispatch"
    BY <2>2 DEF SameComparison
  <2>4. d \notin {e}
    BY <1>5
  <2>5. h.code[d] = g3.code[d]
    BY <1>5, <1>8, <2>1, <2>3, <2>4 DEF Turns
  <2> QED
    BY <1>4, <1>5, <2>1, <2>2, <2>5
<1>11. Turns(g, W, h, W2, {d, e})
  <2>1. PICK E, F : E = {e} /\ F = {d, e}
    OBVIOUS
  <2>2. E \subseteq F
    BY <2>1
  <2>3. Turns(g, W, g3, W2, F) /\ Turns(g3, W2, h, W2, E)
    BY <1>3, <1>8, <2>1
  <2>4. Turns(g3, W2, h, W2, F)
    BY <2>2, <2>3, TurnsMore
  <2>5. Len(g3.code) \in Nat /\ Len(h.code) \in Nat
    BY <1>3, <1>8, SoundIs
  <2>6. Turns(g, W, h, W2, F)
    BY <1>5, <2>3, <2>4, <2>5, TurnsTwice
  <2> QED
    BY <2>1, <2>6
<1>12. e \in 1 .. Len(h.code)
  <2>1. Len(g3.code) <= Len(h.code) /\ Len(h.code) \in Nat
    BY <1>8, SoundIs DEF Turns, Keeps
  <2> QED
    BY <1>3, <1>5, <2>1
<1> QED
  BY <1>1, <1>3, <1>5, <1>8, <1>9, <1>10, <1>11, <1>12 DEF CatchStarted

\* What follows the clause that is compared in block d.
More(code, d) == code[d].nth < Len(code[d].types)
CatchNext(g, x, d, e) == BeginCatch(NextAt(Emit(g, NextClause(x)), d, e), e)

\* Where the next clause is compared, and its catch starts.
LEMMA NextCloses ==
    ASSUME NEW g, NEW W, NEW plans, NEW cs, NEW H, NEW M, NEW exits, NEW n \in Nat, NEW p,
           Emitting(g, W, plans, cs, H, M, exits, n, p),
           NEW c, NEW k, NEW cs1, InnermostIs(cs, c, k, cs1), c.what = "catch",
           More(g.code, c.dispatch), NEW g1, g1 = CatchEnd(g, p, c.end), NEW e, e = Nth(g1, 1), NEW h,
           h = CatchNext(g1, g.code[c.dispatch], c.dispatch, e),
           NEW q, q = Nth(g1, 2),
           NEW cs2, cs2 = Append(cs1, WithDispatch(c, e))
    PROVE  CanGoOn(h, plans, cs2, exits, n, q)
<1>1. Sound(g, W, plans) /\ Nested(g, W, plans, cs, H, M) /\ Place(g.code, p) /\ Len(g.code) \in Nat
      /\ IsStack(g.stack) /\ IsOpen(cs)
  BY EmittingIs
<1>2. PICK b, m, d, c2 : b = H[k + 1] /\ m = M[k + 1] /\ d = c.dispatch /\ c2 = WithDispatch(c, e)
  OBVIOUS
<1>3. b \in Nat \ {0} /\ b \in 1 .. Len(g.stack)
  BY <1>1, <1>2, InnermostLayer
<1>4. CatchIs(g, W, c, b)
  BY <1>1, <1>2, CatchKnown
<1>5. PICK W1 : Dropped(g, W, plans, b, g1, W1)
  BY <1>1, <1>2, CatchEnds
<1>6. Sound(g1, W1, plans) /\ Later(g, W, g1, W1) /\ CutTo(g.stack, b, g1.stack) /\ Len(g1.code) \in Nat
  BY <1>5 DEF Dropped
<1>7. CatchIs(g1, W1, c, b) /\ g1.code[d] = g.code[d]
  <2>1. CatchIs(g1, W1, c, b) /\ g1.code[c.dispatch] = g.code[c.dispatch] /\ Agree(g.stack, g1.stack, b)
    BY <1>1, <1>3, <1>4, <1>5, CatchDropped
  <2> QED
    BY <1>2, <2>1
<1>8. PICK W2 : CatchStarted(g1, W1, plans, c, b, e, q, h, W2)
  <2>1. PICK g2 : g2 = Emit(g1, NextClause(g1.code[c.dispatch]))
    OBVIOUS
  <2>2. g1.code[c.dispatch].nth < Len(g1.code[c.dispatch].types) /\ e = Len(g1.code) + 1
    BY <1>2, <1>7 DEF More, Nth
  <2>3. q = e + 1
    BY <1>6, <2>2 DEF Nth
  <2>4. h = BeginCatch(NextAt(g2, c.dispatch, e), e)
    BY <1>2, <1>7, <2>1 DEF CatchNext
  <2> QED
    BY <1>6, <1>7, <2>1, <2>2, <2>3, <2>4, CatchStarts
<1>9. PICK D : D = {d, e}
  OBVIOUS
<1>10. /\ Sound(h, W2, plans) /\ Turns(g1, W1, h, W2, D) /\ CatchShape(g1.stack, h.stack)
       /\ IsPoint(h.code, q) /\ h.code[d].handler # 0 /\ h.code[d].next # 0
       /\ e \in 1 .. Len(h.code) /\ h.code[e].op = "dispatch" /\ h.code[e].types = g1.code[d].types
       /\ h.code[e].handler # 0
       /\ \A s, t, r : <<e, s, t, r>> \in W2 => <<d, s, t, r>> \in W1
  BY <1>2, <1>8, <1>9 DEF CatchStarted
<1>11. IsConstruct(c2) /\ c2.what = "catch" /\ c2.start = c.start /\ c2.end = c.end /\ c2.dispatch = e
  <2>1. IsConstruct(c)
    BY <1>1 DEF InnermostIs, IsOpen
  <2> QED
    <3>1. IsConstruct(c2) /\ c2.what = c.what /\ c2.start = c.start /\ c2.end = c.end /\ c2.dispatch = e
      <4>1. c2 = WithDispatch(c, e)
        BY <1>2
      <4> QED
        BY <2>1, <4>1, CatchNextOf
    <3> QED
      BY <3>1
<1>12. Len(h.code) \in Nat /\ IsStack(h.stack) /\ IsStack(g1.stack) /\ Len(g1.stack) = b /\ Len(h.stack) \in Nat
  BY <1>6, <1>10, SoundIs DEF CutTo
<1>13. IsOpening(g1.stack, c2, h.stack) /\ NewContents(h.stack, Len(g1.stack), exits, n)
  BY <1>3, <1>10, <1>11, <1>12, CatchOpens
<1>14. d \in 1 .. Len(g.code) /\ d # 0 /\ e # 0 /\ e \notin 0 .. Len(g.code)
  <2>1. d \in 1 .. Len(g.code)
    BY <1>2, <1>4 DEF CatchIs
  <2>2. Len(g.code) <= Len(g1.code)
    BY <1>6 DEF Later, Keeps
  <2> QED
    BY <1>1, <1>6, <2>1, <2>2 DEF Nth
<1>15. Agree(g1.stack, h.stack, b)
  <2>1. Len(h.stack) = b + 4 /\ \A i \in 1 .. b : h.stack[i] = g1.stack[i]
    BY <1>10, <1>12 DEF CatchShape
  <2>2. b <= Len(h.stack) /\ b \in 1 .. Len(g1.stack)
    BY <1>3, <1>12, <2>1
  <2>3. \A i \in 1 .. b : SameAs(g1.stack[i], h.stack[i])
    BY <2>1 DEF SameAs
  <2> QED
    BY <1>12, <2>2, <2>3 DEF Agree
<1>16. PassesOn(h.code, h.stack, W2, e, b)
  <2>1. PassesOn(g1.code, g1.stack, W1, d, b)
    BY <1>2, <1>7 DEF CatchIs
  <2> QED
    BY <1>3, <1>10, <1>15, <2>1, PassesMore
<1>17. IsPoint(h.code, c.end)
  <2>1. IsPoint(g1.code, c.end)
    BY <1>7 DEF CatchIs
  <2>2. Turns(g1, W1, h, W2, D)
    BY <1>10
  <2>3. IsPoint(g1.code, c.end) => IsPoint(h.code, c.end)
    BY <1>6, <1>12, <2>2, PointTurns
  <2> QED
    BY <2>1, <2>3
<1>18. Pending(h.code, h.stack, W2, c2, Len(g1.stack), Len(h.stack))
  <2>1. TryOpenIn(h.code, h.stack, W2, c2, b, Len(h.stack))
    BY <1>10, <1>11, <1>16, <1>17 DEF TryOpenIn
  <2> QED
    BY <1>11, <1>12, <2>1 DEF Pending
<1>20. Turns(g, W, g1, W1, D)
  BY <1>6, LaterTurns
<1>21. Touches(g, c, D) /\ Touches(g, c, {c2.dispatch})
  BY <1>2, <1>9, <1>11, <1>14 DEF Touches
<1>22. DoneBut(h.code, c, D, c2.dispatch)
  BY <1>2, <1>9, <1>10, <1>11 DEF DoneBut
<1>23. Place(h.code, q) /\ cs2 = Append(cs1, c2) /\ CutTo(g.stack, H[k + 1], g1.stack)
  BY <1>2, <1>6, <1>10 DEF Place
<1> QED
  BY <1>6, <1>10, <1>11, <1>13, <1>18, <1>20, <1>21, <1>22, <1>23, ReopenGoesOn

\* What the last clause of a try does not catch is unwound from below the try.
LastDone(g, W, plans, d, h, W2) ==
    /\ Sound(h, W2, plans) /\ Turns(g, W, h, W2, {d}) /\ Similar(g.stack, h.stack)
    /\ h.code[d].handler # 0 /\ h.code[d].next # 0 /\ Len(h.code) \in Nat

LEMMA LastClause ==
    ASSUME NEW code, NEW W, NEW x, DispatchOK(code, x), NEW t \in Types, NEW r,
           DispatchWay(code, W, x, "Throw", t, r), r.selector # x.id, x.nth = Len(x.types)
    PROVE  FirstFor(x.types, t) = 0
<1>1. PICK k, l, i : k = FirstFor(x.types, t) /\ l = Len(x.types) /\ i = x.id
  OBVIOUS
<1>2. x.nth = l /\ l \in Nat /\ i \in Nat /\ Clauses(x.types)
  BY <1>1 DEF DispatchOK, Clauses
<1>3. k = 0 \/ k \in 1 .. l
  BY <1>1, <1>2, FirstForIs
<1>4. SUFFICES ASSUME k # 0 PROVE FALSE
  BY <1>1
<1>5. k >= l /\ r.selector = (i - l) + k
  BY <1>1, <1>2, <1>4 DEF DispatchWay
<1>6. k = l
  BY <1>2, <1>3, <1>4, <1>5
<1>7. r.selector = i
  BY <1>2, <1>5, <1>6
<1> QED
  BY <1>1, <1>7

LEMMA LastLater ==
    ASSUME NEW g, NEW W, NEW plans, Sound(g, W, plans), NEW c, NEW b, b = Len(g.stack), CatchIs(g, W, c, b),
           NEW d, d = c.dispatch, g.code[d].nth = Len(g.code[d].types),
           NEW u, u = GenUnwindBlock(g, "Throw"), NEW h, h = NextAt(u, d, u.made)
    PROVE  \E W2 : LastDone(g, W, plans, d, h, W2)
<1>1. PICK x : x = g.code[d]
  OBVIOUS
<1>2. /\ d \in 1 .. Len(g.code) /\ x.op = "dispatch" /\ DispatchOK(g.code, x) /\ PassesOn(g.code, g.stack, W, d, b)
      /\ x.handler # 0
      /\ \A s, t, r : <<d, s, t, r>> \in W => r \in Routes /\ DispatchWay(g.code, W, x, s, t, r)
  BY <1>1 DEF CatchIs
<1>3. IsStack(g.stack) /\ Len(g.stack) \in Nat \ {0} /\ Len(g.code) \in Nat
  BY SoundIs
<1>4. "Throw" \in Modes
  BY DEF Modes, States
<1>5. \E i \in 1 .. Len(g.stack) : IsTerminator(g.stack[i]) /\ IsActiveForState(g.stack[i], "Throw")
  <2>1. 1 \in 1 .. Len(g.stack) /\ g.stack[1].kind = "FUNCTIONMARKER"
    BY <1>3 DEF IsStack
  <2>2. IsTerminator(g.stack[1]) /\ IsActiveForState(g.stack[1], "Throw")
    BY <2>1 DEF IsTerminator, IsActiveForState, Terminators, ActiveStates
  <2> QED
    BY <2>1, <2>2
<1>6. \A i \in 1 .. Len(g.stack) : Calm(g.stack[i], "Throw")
  BY CalmThrow
<1>7. PICK W2 : Grows(g, W, u, W2, plans) /\ Goes(u, W2, "Throw", b)
  BY <1>4, <1>5, <1>6, UnwindBlock
<1>8. Sound(u, W2, plans) /\ Later(g, W, u, W2) /\ Similar(g.stack, u.stack)
  BY <1>7, LaterGrows
<1>9. IsStack(u.stack) /\ Len(u.code) \in Nat /\ Len(g.code) <= Len(u.code) /\ d \in 1 .. Len(u.code)
  <2>1. IsStack(u.stack) /\ Len(u.code) \in Nat /\ Len(g.code) <= Len(u.code)
    BY <1>8, SoundIs DEF Later, Keeps
  <2> QED
    BY <1>2, <1>3, <2>1
<1>10. u.code[d] = x /\ \A s, t, r : <<d, s, t, r>> \in W2 => <<d, s, t, r>> \in W
  BY <1>1, <1>2, <1>8 DEF Later
<1>11. PICK n : n = u.made
  OBVIOUS
<1>12. n \in 1 .. Len(u.code) /\ \A t \in Types : <<n, "Throw", t, RouteAt(u.stack, b, "Throw", t)>> \in W2
  BY <1>7, <1>11 DEF Goes, Keys
<1>13. ASSUME NEW s, NEW t, NEW r, <<d, s, t, r>> \in W2, r.selector # x.id
       PROVE  <<n, s, t, r>> \in W2
  <2>1. <<d, s, t, r>> \in W
    BY <1>10, <1>13
  <2>2. s = "Throw" /\ t \in Types /\ DispatchWay(g.code, W, x, s, t, r)
    BY <1>2, <2>1 DEF DispatchWay, PassesOn
  <2>3. FirstFor(x.types, t) = 0
    BY <1>1, <1>2, <1>13, <2>2, LastClause
  <2>4. r = RouteAt(g.stack, b, "Throw", t)
    BY <1>1, <1>2, <2>1, <2>3 DEF PassesOn
  <2>5. RouteAt(g.stack, b, "Throw", t) = RouteAt(u.stack, b, "Throw", t)
    <3>1. Agree(g.stack, u.stack, b)
      BY <1>3, <1>8, <1>9 DEF Agree, Similar
    <3>2. b \in 1 .. b
      BY <1>3
    <3> QED
      BY <2>2, <3>1, <3>2, ThrowAgrees
  <2> QED
    BY <1>12, <2>2, <2>4, <2>5
<1>14. \A s, t, r : <<d, s, t, r>> \in W2 /\ r.selector # u.code[d].id => Reaches(u.code, W2, n, s, t, r)
  BY <1>10, <1>13 DEF Reaches
<1>15. Turned(u, W2, plans, d, WithNext(u.code[d], n), h)
  <2>1. u.code[d].op = "dispatch" /\ h = NextAt(u, d, n)
    BY <1>2, <1>10, <1>11
  <2> QED
    BY <1>8, <1>9, <1>14, <2>1, NextTurns
<1>16. /\ Sound(h, W2, plans) /\ Turns(u, W2, h, W2, {d}) /\ h.code[d] = WithNext(x, n)
       /\ Len(h.code) = Len(u.code) /\ h.stack = u.stack
  BY <1>10, <1>15 DEF Turned
<1>17. h.code[d].handler # 0 /\ h.code[d].next # 0
  <2>1. PICK y : y = h.code[d]
    OBVIOUS
  <2>2. DispatchForm(x) /\ y = WithNext(x, n)
    BY <1>2, <1>16, <2>1 DEF DispatchOK
  <2>3. SameComparison(x, y) /\ y.next = n /\ y.handler = x.handler
    BY <2>2, NextField
  <2>4. n # 0
    BY <1>12
  <2> QED
    BY <1>2, <2>1, <2>3, <2>4
<1>18. Turns(g, W, h, W2, {d})
  <2>1. PICK D : D = {d}
    OBVIOUS
  <2>2. Turns(g, W, u, W2, D)
    BY <1>8, LaterTurns
  <2>3. Turns(u, W2, h, W2, D)
    BY <1>16, <2>1
  <2>4. Len(h.code) \in Nat
    BY <1>9, <1>16
  <2>5. Turns(g, W, h, W2, D)
    BY <1>3, <1>9, <2>2, <2>3, <2>4, TurnsTwice
  <2> QED
    BY <2>1, <2>5
<1> QED
  BY <1>8, <1>9, <1>16, <1>17, <1>18 DEF LastDone

\* The end of the last catch of a try.
LEMMA CatchCloses ==
    ASSUME NEW g, NEW W, NEW plans, NEW cs, NEW H, NEW M, NEW exits, NEW n \in Nat, NEW p,
           Emitting(g, W, plans, cs, H, M, exits, n, p),
           NEW c, NEW k, NEW cs1, InnermostIs(cs, c, k, cs1), c.what = "catch",
           g.code[c.dispatch].nth = Len(g.code[c.dispatch].types),
           NEW g1, g1 = CatchEnd(g, p, c.end), NEW u, u = GenUnwindBlock(g1, "Throw"),
           NEW h, h = NextAt(u, c.dispatch, u.made), NEW q \in {c.end, 0}
    PROVE  CanGoOn(h, plans, cs1, exits, n, q)
<1>1. Sound(g, W, plans) /\ Nested(g, W, plans, cs, H, M) /\ Place(g.code, p) /\ Len(g.code) \in Nat
      /\ IsStack(g.stack)
  BY EmittingIs
<1>2. PICK b, d, D : b = H[k + 1] /\ d = c.dispatch /\ D = {d}
  OBVIOUS
<1>3. b \in Nat \ {0} /\ b \in 1 .. Len(g.stack)
  BY <1>1, <1>2, InnermostLayer
<1>4. CatchIs(g, W, c, b)
  BY <1>1, <1>2, CatchKnown
<1>5. PICK W1 : Dropped(g, W, plans, b, g1, W1)
  BY <1>1, <1>2, CatchEnds
<1>6. Sound(g1, W1, plans) /\ Later(g, W, g1, W1) /\ CutTo(g.stack, b, g1.stack) /\ Len(g1.code) \in Nat
  BY <1>5 DEF Dropped
<1>7. CatchIs(g1, W1, c, b) /\ g1.code[d] = g.code[d]
  <2>1. CatchIs(g1, W1, c, b) /\ g1.code[c.dispatch] = g.code[c.dispatch] /\ Agree(g.stack, g1.stack, b)
    BY <1>1, <1>3, <1>4, <1>5, CatchDropped
  <2> QED
    BY <1>2, <2>1
<1>8. b = Len(g1.stack)
  BY <1>6 DEF CutTo
<1>9. PICK W2 : LastDone(g1, W1, plans, d, h, W2)
  <2>1. g1.code[d].nth = Len(g1.code[d].types) /\ h = NextAt(u, d, u.made)
    BY <1>2, <1>7
  <2> QED
    BY <1>2, <1>6, <1>7, <1>8, <2>1, LastLater
<1>10. /\ Sound(h, W2, plans) /\ Turns(g1, W1, h, W2, D) /\ Similar(g1.stack, h.stack)
       /\ h.code[d].handler # 0 /\ h.code[d].next # 0 /\ Len(h.code) \in Nat
  BY <1>2, <1>9 DEF LastDone
<1>11. Turns(g, W, h, W2, D)
  <2>1. Turns(g, W, g1, W1, D)
    BY <1>6, LaterTurns
  <2> QED
    BY <1>1, <1>6, <1>10, <2>1, TurnsTwice
<1>12. Touches(g, c, D) /\ DoneBut(h.code, c, D, 0)
  <2>1. d # 0
    BY <1>2, <1>4 DEF CatchIs
  <2> QED
    BY <1>2, <1>10, <2>1 DEF Touches, DoneBut
<1>13. CutTo(g.stack, H[k + 1], h.stack)
  <2>1. CutTo(g1.stack, b, h.stack)
    BY <1>8, <1>10 DEF CutTo, Similar
  <2>2. b <= b /\ b \in Nat
    BY <1>3
  <2>3. CutTo(g.stack, b, h.stack)
    BY <1>6, <2>1, <2>2, CutSame
  <2> QED
    BY <1>2, <2>3
<1>14. Place(h.code, q)
  <2>1. IsPoint(g1.code, c.end)
    BY <1>7 DEF CatchIs
  <2>2. IsPoint(h.code, c.end)
    BY <1>6, <1>10, <2>1, PointTurns
  <2> QED
    BY <2>2 DEF Place
<1> QED
  BY <1>10, <1>11, <1>12, <1>13, <1>14, CloseGoesOn

-----------------------------------------------------------------------------
(***************************************************************************)
(* The function begins and ends.                                           *)
(***************************************************************************)
\* The code of a function that can be run.
RunsRight(code, W, plans) == CodeOK(code, W, plans) /\ Finished(code, <<>>) /\ Ground(code)
CanRun(code, plans) == \E W : RunsRight(code, W, plans)

\* The end of the function's body, and of the function.
BodyEnd(g, p) ==
    Flow(EndScope(EndScope(g, p), ScopeEnd(g, p)), ScopeEnd(EndScope(g, p), ScopeEnd(g, p)), Returned)

LEMMA BodyEnds ==
    ASSUME NEW g, NEW W, NEW plans, NEW H, NEW M, NEW exits, NEW n, NEW p,
           Emitting(g, W, plans, <<>>, H, M, exits, n, p), NEW h, h = BodyEnd(g, p)
    PROVE  CanRun(h.code, plans) /\ IsEmitter(h)
<1>1. PICK cs : cs = <<>>
  OBVIOUS
<1>2. Emitting(g, W, plans, cs, H, M, exits, n, p) /\ Len(cs) = 0
  BY <1>1
<1>3. /\ Sound(g, W, plans) /\ Layered(g.stack, cs, H, M) /\ Finished(g.code, cs) /\ Place(g.code, p)
      /\ Len(g.stack) \in Nat \ {0} /\ Len(g.code) \in Nat
  BY <1>2, EmittingIs
<1>4. M[0] = 3 /\ g.stack[2].kind = "SCOPEMARKER" /\ M[Len(cs)] = 3
  BY <1>2, <1>3 DEF Layered
<1>5. TopScope(g.stack, 3)
  <2>1. TopScope(g.stack, M[Len(cs)])
    BY <1>3, LayeredTop
  <2> QED
    BY <1>4, <2>1
<1>6. PICK g1, q : g1 = EndScope(g, p) /\ q = ScopeEnd(g, p)
  OBVIOUS
<1>7. PICK W1 : Dropped(g, W, plans, 2, g1, W1) /\ Place(g1.code, q)
  <2>1. PICK W1 : Dropped(g, W, plans, 3 - 1, g1, W1) /\ Place(g1.code, q)
    BY <1>3, <1>5, <1>6, EndScopeDrops
  <2>2. 3 - 1 = 2
    OBVIOUS
  <2> QED
    BY <2>1, <2>2
<1>8. Sound(g1, W1, plans) /\ Later(g, W, g1, W1) /\ CutTo(g.stack, 2, g1.stack) /\ Len(g1.code) \in Nat
  BY <1>7 DEF Dropped
<1>9. TopScope(g1.stack, 2)
  BY <1>4, <1>8 DEF CutTo, SameAs, TopScope
<1>10. PICK g2, q2 : g2 = EndScope(g1, q) /\ q2 = ScopeEnd(g1, q)
  OBVIOUS
<1>11. PICK W2 : Dropped(g1, W1, plans, 2 - 1, g2, W2) /\ Place(g2.code, q2)
  BY <1>7, <1>8, <1>9, <1>10, EndScopeDrops
<1>12. Sound(g2, W2, plans) /\ Later(g1, W1, g2, W2) /\ Len(g2.code) \in Nat
  BY <1>11 DEF Dropped
<1>13. h = Flow(g2, q2, Returned)
  BY <1>6, <1>10 DEF BodyEnd
<1>14. Returned \in 1 .. Len(g2.code) /\ g2.code[Returned].op \in Ordinary
  <2>1. Ground(g2.code)
    BY <1>12 DEF Sound, StackOK
  <2> QED
    BY <1>12, <2>1 DEF Ground, Returned, Ordinary
<1>15. Sound(h, W2, plans) /\ Later(g2, W2, h, W2)
  BY <1>11, <1>12, <1>13, <1>14, FlowLater DEF Place
<1>16. Len(h.code) \in Nat
  BY <1>15, SoundIs
<1>17. Later(g, W, h, W2)
  <2>1. Later(g, W, g2, W2)
    BY <1>3, <1>8, <1>12, LaterTwice
  <2> QED
    BY <1>3, <1>12, <1>15, <1>16, <2>1, LaterTwice
<1>18. Finished(h.code, cs)
  BY <1>3, <1>16, <1>17, FinishedLater
<1>19. CodeOK(h.code, W2, plans) /\ Ground(h.code) /\ IsEmitter(h)
  BY <1>15 DEF Sound, StackOK
<1>20. RunsRight(h.code, W2, plans)
  BY <1>1, <1>18, <1>19 DEF RunsRight
<1> QED
  BY <1>19, <1>20 DEF CanRun

\* A function of which nothing was emitted.
FirstStack == <<FunctionMarker(Returned, Resumed), ScopeMarker(5), ScopeMarker(4)>>
FirstCode == <<Point, Point, Point, Point, Point>>

LEMMA FirstPoints ==
    ASSUME NEW code, code = FirstCode
    PROVE  IsCode(code) /\ Len(code) = 5 /\ \A b \in 1 .. 5 : code[b] = Point
<1>1. code \in Seq({Point})
  BY DEF FirstCode
<1>2. Len(code) = 5 /\ code[1] = Point /\ code[2] = Point /\ code[3] = Point /\ code[4] = Point /\ code[5] = Point
  BY DEF FirstCode
<1> QED
  BY <1>1, <1>2 DEF IsCode

LEMMA FirstCodeOK ==
    ASSUME NEW code, code = FirstCode, NEW plans
    PROVE  CodeOK(code, {}, plans) /\ Finished(code, <<>>) /\ Ground(code) /\ \A b \in 3 .. 5 : IsPoint(code, b)
<1>1. IsCode(code) /\ Len(code) = 5 /\ \A b \in 1 .. 5 : code[b] = Point
  BY FirstPoints
<1>2. Point.op = "point" /\ Point.succ = {} /\ PointForm(Point)
  BY DEF Point, PointForm
<1>3. ASSUME NEW b \in 1 .. 5 PROVE BlockOK(code, {}, plans, b, code[b]) /\ code[b].op = "point"
  <2>1. code[b] = Point
    BY <1>1
  <2>2. BlockOK(code, {}, plans, b, Point)
    BY <1>2 DEF BlockOK, PointOK, Ops
  <2> QED
    BY <1>2, <2>1, <2>2
<1>4. CodeOK(code, {}, plans)
  BY <1>1, <1>3 DEF CodeOK
<1> QED
  BY <1>1, <1>3, <1>4 DEF Finished, Ground, IsPoint

LEMMA FirstActs ==
    ASSUME NEW stack, stack = FirstStack
    PROVE  /\ IsStack(stack) /\ Len(stack) = 3
           /\ stack[1] = FunctionMarker(Returned, Resumed) /\ stack[2] = ScopeMarker(5) /\ stack[3] = ScopeMarker(4)
           /\ \A i \in 1 .. 3 : IsNew(stack[i]) /\ stack[i].body = "plain"
           /\ \A i \in 1 .. 3 : stack[i].kind = IF i = 1 THEN "FUNCTIONMARKER" ELSE "SCOPEMARKER"
<1>1. PICK a, b, c : a = FunctionMarker(Returned, Resumed) /\ b = ScopeMarker(5) /\ c = ScopeMarker(4)
  OBVIOUS
<1>2. Returned \in Nat /\ Resumed \in Nat
  BY DEF Returned, Resumed
<1>3. /\ a \in Acts /\ IsNew(a) /\ a.kind = "FUNCTIONMARKER" /\ a.body = "plain"
  BY <1>1, <1>2, FunctionMarkerIs
<1>4. b \in Acts /\ IsNew(b) /\ b.kind = "SCOPEMARKER" /\ b.body = "plain"
  BY <1>1, ScopeMarkerIs
<1>5. c \in Acts /\ IsNew(c) /\ c.kind = "SCOPEMARKER" /\ c.body = "plain"
  BY <1>1, ScopeMarkerIs
<1>6. stack = <<a, b, c>>
  BY <1>1 DEF FirstStack
<1>7. stack \in Seq(Acts) /\ Len(stack) = 3 /\ stack[1] = a /\ stack[2] = b /\ stack[3] = c
  BY <1>3, <1>4, <1>5, <1>6
<1>8. ASSUME NEW i \in 1 .. 3
      PROVE  /\ IsNew(stack[i]) /\ stack[i].body = "plain"
             /\ stack[i].kind = IF i = 1 THEN "FUNCTIONMARKER" ELSE "SCOPEMARKER"
  <2>1. i = 1 \/ i = 2 \/ i = 3
    OBVIOUS
  <2> QED
    BY <1>3, <1>4, <1>5, <1>7, <2>1
<1>9. IsStack(stack)
  BY <1>7, <1>8 DEF IsStack
<1> QED
  BY <1>1, <1>7, <1>8, <1>9

LEMMA FirstSound ==
    ASSUME NEW plans, NEW g, g = Emitter(FirstStack, FirstCode, 0)
    PROVE  Sound(g, {}, plans)
<1>1. PICK stack, code : stack = FirstStack /\ code = FirstCode
  OBVIOUS
<1>2. IsEmitter(g) /\ g.stack = stack /\ g.code = code
  BY <1>1, EmitterIs
<1>3. /\ IsStack(stack) /\ Len(stack) = 3
      /\ stack[1] = FunctionMarker(Returned, Resumed) /\ stack[2] = ScopeMarker(5) /\ stack[3] = ScopeMarker(4)
      /\ \A i \in 1 .. 3 : IsNew(stack[i]) /\ stack[i].body = "plain"
      /\ \A i \in 1 .. 3 : stack[i].kind = IF i = 1 THEN "FUNCTIONMARKER" ELSE "SCOPEMARKER"
  BY <1>1, FirstActs
<1>4. CodeOK(code, {}, plans) /\ Ground(code) /\ IsPoint(code, 4) /\ IsPoint(code, 5) /\ Len(code) \in Nat
  <2>1. CodeOK(code, {}, plans) /\ Finished(code, <<>>) /\ Ground(code) /\ \A b \in 3 .. 5 : IsPoint(code, b)
    BY <1>1, FirstCodeOK
  <2>2. Len(code) = 5
    BY <1>1, FirstPoints
  <2> QED
    BY <2>1, <2>2
<1>5. ASSUME NEW i \in 1 .. Len(stack)
      PROVE  MarkOK(code, stack[i]) /\ BodyOK(stack, plans, i) /\ CatchOK(stack, {}, i) /\ PadOK(stack, code, {}, i)
  <2>1. i \in 1 .. 3 /\ (i = 1 \/ i = 2 \/ i = 3)
    BY <1>3
  <2>2. MarkOK(code, stack[1])
    <3>1. stack[1].to["Return"] = Returned /\ stack[1].to["Throw"] = Resumed
      BY <1>3, FunctionMarkerIs DEF Returned, Resumed
    <3>2. stack[1].kind = "FUNCTIONMARKER"
      BY <1>3
    <3> QED
      BY <3>1, <3>2 DEF MarkOK
  <2>3. MarkOK(code, stack[2])
    <3>1. stack[2].kind = "SCOPEMARKER" /\ stack[2].to["Normal"] = 5
      BY <1>3, ScopeMarkerIs
    <3> QED
      BY <1>4, <3>1 DEF MarkOK
  <2>4. MarkOK(code, stack[3])
    <3>1. stack[3].kind = "SCOPEMARKER" /\ stack[3].to["Normal"] = 4
      BY <1>3, ScopeMarkerIs
    <3> QED
      BY <1>4, <3>1 DEF MarkOK
  <2>5. BodyOK(stack, plans, i)
    BY <1>3, <2>1 DEF BodyOK
  <2>6. CatchOK(stack, {}, i)
    <3>1. stack[i].kind # "CATCH"
      BY <1>3, <2>1
    <3> QED
      BY <3>1 DEF CatchOK
  <2>7. PadOK(stack, code, {}, i)
    <3>1. stack[i].pad["Throw"] = 0
      BY <1>3, <2>1 DEF IsNew, ExceptionStates
    <3> QED
      BY <3>1 DEF PadOK
  <2> QED
    BY <2>1, <2>2, <2>3, <2>4, <2>5, <2>6, <2>7
<1>6. ASSUME NEW i \in 1 .. Len(stack), NEW s \in Modes PROVE stack[i].block[s] = 0
  BY <1>3, <1>6 DEF IsNew, Modes
<1>7. Apart(stack)
  BY <1>6 DEF Apart, Made
<1>8. StackOK(stack, code, {}, plans)
  BY <1>3, <1>4, <1>5, <1>6, <1>7 DEF StackOK, Made
<1> QED
  BY <1>2, <1>4, <1>8 DEF Sound

LEMMA FirstGoesOn ==
    ASSUME NEW plans, NEW g, g = Emitter(FirstStack, FirstCode, 0), NEW exits
    PROVE  CanGoOn(g, plans, <<>>, exits, 0, 3)
<1>1. PICK cs : cs = <<>>
  OBVIOUS
<1>2. IsCode(cs) /\ Len(cs) = 0
  BY <1>1 DEF IsCode
<1>3. PICK H, M : M[0] = 3 /\ H = 0
  <2>1. [i \in {0} |-> 3][0] = 3
    OBVIOUS
  <2> QED
    BY <2>1
<1>4. g.stack = FirstStack /\ g.code = FirstCode
  BY EmitterIs
<1>5. Sound(g, {}, plans)
  BY FirstSound
<1>6. /\ Len(g.stack) = 3
      /\ \A i \in 1 .. 3 : g.stack[i].kind = IF i = 1 THEN "FUNCTIONMARKER" ELSE "SCOPEMARKER"
  BY <1>4, FirstActs
<1>7. Layered(g.stack, cs, H, M)
  <2>1. g.stack[2].kind = "SCOPEMARKER" /\ g.stack[3].kind = "SCOPEMARKER"
    BY <1>6
  <2> QED
    BY <1>1, <1>3, <1>6, <2>1, LayeredBase
<1>8. Nested(g, {}, plans, cs, H, M)
  BY <1>2, <1>5, <1>7 DEF Nested, Opened, Distinct
<1>9. Finished(g.code, cs) /\ Place(g.code, 3)
  BY <1>1, <1>4, FirstCodeOK DEF Place
<1>10. IsOpen(cs)
  BY <1>2 DEF IsOpen
<1>11. Contents(g.stack, exits, 0)
  <2>1. ASSUME NEW i \in 1 .. 3 PROVE ContentOK(g.stack[i], exits, 0)
    BY <1>6, MarkerContent, <2>1
  <2> QED
    BY <1>6, <2>1 DEF Contents
<1>12. Emitting(g, {}, plans, cs, H, M, exits, 0, 3)
  BY <1>8, <1>9, <1>10, <1>11 DEF Emitting
<1> QED
  BY <1>1, <1>12 DEF CanGoOn

-----------------------------------------------------------------------------
(***************************************************************************)
(* The steps of the emitter.                                               *)
(***************************************************************************)
GoingOn == CanGoOn(gen, bodyPlans, open, profile.scopeExits, statements, at)

NothingRun ==
    /\ pc = Entry /\ unwindState = "Normal" /\ exceptionInfo = NoException /\ held = <<>>
    /\ todo = <<>> /\ goal = 0

EmitInv ==
    /\ phase = "emit" /\ profile \in Profiles /\ Covered(profile)
    /\ statements \in Nat /\ DOMAIN bodyPlans \subseteq 1 .. statements
    /\ NothingRun /\ GoingOn

\* What is left to show when the emitter goes on emitting.
LEMMA EmitStep ==
    ASSUME EmitInv, UNCHANGED <<profile, phase, runVars>>, statements' \in Nat, statements <= statements',
           bodyPlans' = bodyPlans, GoingOn'
    PROVE  EmitInv'
<1>1. Covered(profile)' /\ NothingRun' /\ phase' = "emit" /\ profile' \in Profiles
  BY DEF EmitInv, NothingRun, runVars, Covered
<1>2. DOMAIN bodyPlans' \subseteq 1 .. statements'
  BY DEF EmitInv
<1> QED
  BY <1>1, <1>2 DEF EmitInv

LEMMA GoingIs ==
    ASSUME EmitInv
    PROVE  \E W, H, M : Emitting(gen, W, bodyPlans, open, H, M, profile.scopeExits, statements, at)
BY DEF EmitInv, GoingOn, CanGoOn

LEMMA ProfileIs ==
    ASSUME NEW p \in Profiles
    PROVE  /\ \A x \in p.scopeExits : x \in ScopeExitStates \X Bodies
           /\ \A types \in p.tries : Clauses(types) /\ types # <<>>
<1>1. p.scopeExits \subseteq ScopeExitStates \X Bodies /\ p.tries \subseteq Seq(Types) \ {<<>>}
  BY UnwindCodeAssumption
<1> QED
  BY <1>1 DEF Clauses

LEMMA NewIdIs ==
    ASSUME EmitInv
    PROVE  statements \in Nat /\ statements + 1 \in Nat /\ statements <= statements + 1 /\ NewId = statements + 1
           /\ NewId \notin DOMAIN bodyPlans
BY DEF EmitInv, NewId

LEMMA StepVar ==
    ASSUME EmitInv, EmitVar
    PROVE  EmitInv'
<1>1. PICK W, H, M : Emitting(gen, W, bodyPlans, open, H, M, profile.scopeExits, statements, at)
  BY GoingIs
<1>2. /\ gen' = Push(gen, Destructor(statements + 1)) /\ at' = at /\ statements' = statements + 1 /\ open' = open
      /\ bodyPlans' = bodyPlans /\ UNCHANGED <<profile, phase, runVars>>
  BY DEF EmitVar, Statement, NewId
<1>3. CanGoOn(gen', bodyPlans, open, profile.scopeExits, statements + 1, at)
  BY <1>1, <1>2, NewIdIs, VarGoesOn
<1> QED
  BY <1>2, <1>3, NewIdIs, EmitStep DEF GoingOn

LEMMA StepScopeExit ==
    ASSUME EmitInv, NEW x \in profile.scopeExits, EmitScopeExit(x)
    PROVE  EmitInv'
<1>1. PICK W, H, M : Emitting(gen, W, bodyPlans, open, H, M, profile.scopeExits, statements, at)
  BY GoingIs
<1>2. /\ gen' = Push(gen, ScopeExit(statements + 1, x[1], x[2])) /\ at' = at /\ statements' = statements + 1 /\ open' = open
      /\ bodyPlans' = Extend(bodyPlans, statements + 1, ExceptionPlans(gen.stack, "Throw"))
      /\ UNCHANGED <<profile, phase, runVars>>
  BY DEF EmitScopeExit, Statement, NewId
<1>3. CanGoOn(gen', bodyPlans', open, profile.scopeExits, statements + 1, at)
  <2>1. statements + 1 \notin DOMAIN bodyPlans /\ statements \in Nat
    BY NewIdIs
  <2>2. profile \in Profiles /\ Covered(profile)
    BY DEF EmitInv
  <2> QED
    BY <1>1, <1>2, <2>1, <2>2, ScopeExitGoesOn
<1>4. GoingOn'
  BY <1>2, <1>3 DEF GoingOn
<1>5. Covered(profile)' /\ NothingRun' /\ phase' = "emit" /\ profile' \in Profiles
  BY <1>2 DEF EmitInv, NothingRun, runVars, Covered
<1>6. DOMAIN bodyPlans' = DOMAIN bodyPlans \cup {statements + 1}
  BY <1>2 DEF Extend
<1>7. DOMAIN bodyPlans' \subseteq 1 .. statements' /\ statements' \in Nat
  BY <1>2, <1>6 DEF EmitInv
<1> QED
  BY <1>4, <1>5, <1>7 DEF EmitInv

LEMMA StepScope ==
    ASSUME EmitInv, EmitScope
    PROVE  EmitInv'
<1>1. PICK W, H, M : Emitting(gen, W, bodyPlans, open, H, M, profile.scopeExits, statements, at)
  BY GoingIs
<1>2. /\ gen' = OpenScopeOf(gen) /\ at' = at /\ statements' = statements + 1
      /\ open' = Append(open, Construct("scope", 0, 0, 0))
      /\ bodyPlans' = bodyPlans /\ UNCHANGED <<profile, phase, runVars>>
  BY DEF EmitScope, Statement
<1>3. CanGoOn(gen', bodyPlans, open', profile.scopeExits, statements + 1, at)
  BY <1>1, <1>2, NewIdIs, ScopeGoesOn
<1> QED
  BY <1>2, <1>3, NewIdIs, EmitStep DEF GoingOn

LEMMA StepLoop ==
    ASSUME EmitInv, EmitLoop
    PROVE  EmitInv'
<1>1. PICK W, H, M : Emitting(gen, W, bodyPlans, open, H, M, profile.scopeExits, statements, at)
  BY GoingIs
<1>2. PICK c : c = Len(gen.code) + 1
  OBVIOUS
<1>3. /\ gen' = OpenScopeOf(Push(LoopFlow(gen, at, c), ControlFlow(c + 3, c + 2)))
      /\ at' = c + 1 /\ statements' = statements + 1 /\ open' = Append(open, Construct("loop", c, c + 3, 0))
      /\ bodyPlans' = bodyPlans /\ UNCHANGED <<profile, phase, runVars>>
  BY <1>2 DEF EmitLoop, Statement, LoopFlow, Nth
<1>4. CanGoOn(gen', bodyPlans, open', profile.scopeExits, statements + 1, c + 1)
  BY <1>1, <1>2, <1>3, NewIdIs, LoopGoesOn
<1> QED
  BY <1>3, <1>4, NewIdIs, EmitStep DEF GoingOn

LEMMA StepTry ==
    ASSUME EmitInv, NEW types \in profile.tries, EmitTry(types)
    PROVE  EmitInv'
<1>1. PICK W, H, M : Emitting(gen, W, bodyPlans, open, H, M, profile.scopeExits, statements, at)
  BY GoingIs
<1>2. PICK d : d = Len(gen.code) + 1
  OBVIOUS
<1>3. Clauses(types) /\ types # <<>> /\ profile \in Profiles
  BY ProfileIs DEF EmitInv
<1>4. IsEmitter(gen)
  BY <1>1, EmittingIs DEF Sound
<1>5. /\ gen' = OpenScopeOf(PushCatches(TryPoints(gen, statements, types), d, types))
      /\ at' = at /\ statements' = statements + Len(types)
      /\ open' = Append(open, Construct("try", d, d + 1, d))
      /\ bodyPlans' = bodyPlans /\ UNCHANGED <<profile, phase, runVars>>
  BY <1>2 DEF EmitTry, TryPoints, TryDispatch, Nth, NewId
<1>6. gen' = OpenScopeOf(TryOpen(gen, statements, types))
  <2>1. d = Nth(gen, 1)
    BY <1>2 DEF Nth
  <2> QED
    BY <1>3, <1>4, <1>5, <2>1, TryOpenIs
<1>7. CanGoOn(gen', bodyPlans, open', profile.scopeExits, statements + Len(types), at)
  BY <1>1, <1>2, <1>3, <1>5, <1>6, NewIdIs, TryGoesOn
<1>8. statements + Len(types) \in Nat /\ statements <= statements + Len(types)
  BY <1>3, NewIdIs DEF Clauses
<1> QED
  BY <1>5, <1>7, <1>8, EmitStep DEF GoingOn

LEMMA StepLeave ==
    ASSUME EmitInv, NEW k, NEW s, <<k, s>> \in {<<"break", "Break">>, <<"continue", "Continue">>, <<"return", "Return">>},
           NEW last \in BOOLEAN, EmitLeave(k, s, last)
    PROVE  EmitInv'
<1>1. PICK W, H, M : Emitting(gen, W, bodyPlans, open, H, M, profile.scopeExits, statements, at)
  BY GoingIs
<1>2. PICK q : q = IF last THEN 0 ELSE at
  OBVIOUS
<1>3. /\ gen' = EmitUnwind(gen, at, s) /\ at' = q /\ statements' = statements + 1
      /\ open' = open /\ bodyPlans' = bodyPlans /\ UNCHANGED <<profile, phase, runVars>>
      /\ k \in profile.statements
      /\ s \in {"Break", "Continue"} => \E i \in DOMAIN gen.stack : gen.stack[i].kind = "CONTROLFLOW"
  BY <1>2 DEF EmitLeave, Statement
<1>4. \/ s = "Break" /\ "break" \in profile.statements
      \/ s = "Continue" /\ "continue" \in profile.statements
      \/ s = "Return" /\ "return" \in profile.statements
  BY <1>3
<1>5. q \in {0, at} /\ Covered(profile)
  BY <1>2 DEF EmitInv
<1>6. CanGoOn(gen', bodyPlans, open, profile.scopeExits, statements + 1, q)
  BY <1>1, <1>3, <1>4, <1>5, NewIdIs, LeaveGoesOn
<1> QED
  BY <1>3, <1>6, NewIdIs, EmitStep DEF GoingOn

LEMMA StepThrow ==
    ASSUME EmitInv, NEW last \in BOOLEAN, EmitThrowStatement(last)
    PROVE  EmitInv'
<1>1. PICK W, H, M : Emitting(gen, W, bodyPlans, open, H, M, profile.scopeExits, statements, at)
  BY GoingIs
<1>2. PICK q : q = IF last THEN 0 ELSE at
  OBVIOUS
<1>3. /\ gen' = EmitThrow(gen, at) /\ at' = q /\ statements' = statements + 1
      /\ open' = open /\ bodyPlans' = bodyPlans /\ UNCHANGED <<profile, phase, runVars>>
  BY <1>2 DEF EmitThrowStatement, Statement
<1>4. q \in {0, at}
  BY <1>2
<1>5. CanGoOn(gen', bodyPlans, open, profile.scopeExits, statements + 1, q)
  BY <1>1, <1>3, <1>4, NewIdIs, ThrowGoesOn
<1> QED
  BY <1>3, <1>5, NewIdIs, EmitStep DEF GoingOn

\* The innermost construct is closed.
LEMMA ClosingIs ==
    ASSUME EmitInv, open # <<>>, NEW c, c = Last(open), NEW cs1, cs1 = Front(open)
    PROVE  \E W, H, M, k : /\ Emitting(gen, W, bodyPlans, open, H, M, profile.scopeExits, statements, at)
                           /\ InnermostIs(open, c, k, cs1)
<1>1. PICK W, H, M : Emitting(gen, W, bodyPlans, open, H, M, profile.scopeExits, statements, at)
  BY GoingIs
<1>2. IsCode(open)
  BY <1>1, EmittingIs
<1>3. PICK k : k = Len(open) - 1
  OBVIOUS
<1>4. InnermostIs(open, c, k, cs1)
  BY <1>2, <1>3, LastIs
<1> QED
  BY <1>1, <1>4

LEMMA ReplacedIs ==
    ASSUME EmitInv, open # <<>>, NEW x
    PROVE  Front(open) \o <<x>> = Append(Front(open), x)
<1>1. IsCode(open)
  BY GoingIs, EmittingIs
<1> QED
  BY <1>1, FrontIs

LEMMA StatementsStay ==
    ASSUME EmitInv, statements' = statements
    PROVE  statements' \in Nat /\ statements <= statements'
BY DEF EmitInv

LEMMA StepCloseScope ==
    ASSUME EmitInv, CloseScope
    PROVE  EmitInv'
<1>1. PICK c, cs1 : c = Last(open) /\ cs1 = Front(open)
  OBVIOUS
<1>2. /\ open # <<>> /\ c.what = "scope" /\ gen' = EndScope(gen, at) /\ at' = ScopeEnd(gen, at) /\ open' = cs1
      /\ statements' = statements /\ bodyPlans' = bodyPlans /\ UNCHANGED <<profile, phase, runVars>>
  BY <1>1 DEF CloseScope, Innermost, Close
<1>3. PICK W, H, M, k : /\ Emitting(gen, W, bodyPlans, open, H, M, profile.scopeExits, statements, at)
                        /\ InnermostIs(open, c, k, cs1)
  BY <1>1, <1>2, ClosingIs
<1>4. CanGoOn(gen', bodyPlans, cs1, profile.scopeExits, statements, at')
  BY <1>2, <1>3, NewIdIs, ScopeCloses
<1> QED
  BY <1>2, <1>4, StatementsStay, EmitStep DEF GoingOn

LEMMA StepCloseLoop ==
    ASSUME EmitInv, CloseLoop
    PROVE  EmitInv'
<1>1. PICK c, cs1, e : c = Last(open) /\ cs1 = Front(open) /\ e = c.start
  OBVIOUS
<1>2. /\ open # <<>> /\ c.what = "loop"
      /\ gen' = Flow(Flow(Pop(EndScope(gen, at)), ScopeEnd(gen, at), e + 2), e + 2, e)
      /\ at' = c.end /\ open' = cs1
      /\ statements' = statements /\ bodyPlans' = bodyPlans /\ UNCHANGED <<profile, phase, runVars>>
  BY <1>1 DEF CloseLoop, Innermost, Close
<1>3. PICK W, H, M, k : /\ Emitting(gen, W, bodyPlans, open, H, M, profile.scopeExits, statements, at)
                        /\ InnermostIs(open, c, k, cs1)
  BY <1>1, <1>2, ClosingIs
<1>4. CanGoOn(gen', bodyPlans, cs1, profile.scopeExits, statements, c.end)
  BY <1>1, <1>2, <1>3, NewIdIs, LoopCloses
<1> QED
  BY <1>2, <1>4, StatementsStay, EmitStep DEF GoingOn

LEMMA StepCloseTry ==
    ASSUME EmitInv, CloseTry
    PROVE  EmitInv'
<1>1. PICK c, cs1 : c = Last(open) /\ cs1 = Front(open)
  OBVIOUS
<1>2. PICK g1, c2 : g1 = TryEnd(gen, at, gen.code[c.start].types, c.end) /\ c2 = [c EXCEPT !.what = "catch"]
  OBVIOUS
<1>3. /\ open # <<>> /\ c.what = "try"
      /\ gen' = BeginCatch(g1, c.start) /\ at' = Nth(g1, 1)
      /\ open' = cs1 \o <<c2>>
      /\ statements' = statements /\ bodyPlans' = bodyPlans /\ UNCHANGED <<profile, phase, runVars>>
  BY <1>1, <1>2 DEF CloseTry, Innermost, TryEnd
<1>4. PICK W, H, M, k : /\ Emitting(gen, W, bodyPlans, open, H, M, profile.scopeExits, statements, at)
                        /\ InnermostIs(open, c, k, cs1)
  BY <1>1, <1>3, ClosingIs
<1>5. open' = Append(cs1, [c EXCEPT !.what = "catch"])
  BY <1>1, <1>2, <1>3, ReplacedIs
<1>6. CanGoOn(gen', bodyPlans, open', profile.scopeExits, statements, at')
  BY <1>2, <1>3, <1>4, <1>5, NewIdIs, TryCloses
<1> QED
  BY <1>3, <1>6, StatementsStay, EmitStep DEF GoingOn

LEMMA EndCatchIs ==
    ASSUME NEW c, c = Last(open)
    PROVE  EndCatch = CatchEnd(gen, at, c.end)
BY DEF EndCatch, CatchEnd

LEMMA StepNextCatch ==
    ASSUME EmitInv, NextCatch
    PROVE  EmitInv'
<1>1. PICK c, cs1, g1, x : c = Last(open) /\ cs1 = Front(open) /\ g1 = CatchEnd(gen, at, c.end) /\ x = gen.code[c.dispatch]
  OBVIOUS
<1>2. PICK g2, e : g2 = Emit(g1, NextClause(x)) /\ e = Nth(g1, 1)
  OBVIOUS
<1>3. /\ open # <<>> /\ c.what = "catch" /\ More(gen.code, c.dispatch)
      /\ gen' = BeginCatch(NextAt(g2, c.dispatch, g2.made), g2.made)
      /\ at' = Nth(g2, 1)
      /\ open' = cs1 \o <<WithDispatch(c, g2.made)>>
      /\ statements' = statements /\ bodyPlans' = bodyPlans /\ UNCHANGED <<profile, phase, runVars>>
  <2>1. EndCatch = g1
    BY <1>1, EndCatchIs
  <2> QED
    BY <1>1, <1>2, <2>1 DEF NextCatch, Innermost, Clause, NextClause, NextAt, WithDispatch, More
<1>4. PICK W, H, M, k : /\ Emitting(gen, W, bodyPlans, open, H, M, profile.scopeExits, statements, at)
                        /\ InnermostIs(open, c, k, cs1)
  BY <1>1, <1>3, ClosingIs
<1>5. g2.made = e /\ Nth(g2, 1) = Nth(g1, 2)
  <2>1. \E b : \E W2 : Dropped(gen, W, bodyPlans, b, g1, W2)
    <3>1. Nested(gen, W, bodyPlans, open, H, M) /\ Place(gen.code, at)
      BY <1>4, EmittingIs
    <3>2. PICK b : b = H[k + 1]
      OBVIOUS
    <3>3. \E W2 : Dropped(gen, W, bodyPlans, b, g1, W2)
      BY <1>1, <1>3, <1>4, <3>1, <3>2, CatchEnds
    <3> QED
      BY <3>3
  <2>2. IsEmitter(g1) /\ IsCode(g1.code) /\ Len(g1.code) \in Nat
    BY <2>1 DEF Dropped, Sound, CodeOK
  <2>3. g2.made = Len(g1.code) + 1 /\ g2.code = Append(g1.code, NextClause(x))
    BY <1>2, <2>2 DEF Emit, IsEmitter, Emitter
  <2>4. Len(g2.code) = Len(g1.code) + 1
    BY <2>2, <2>3 DEF IsCode
  <2> QED
    BY <1>2, <2>2, <2>3, <2>4 DEF Nth
<1>6. open' = Append(cs1, WithDispatch(c, e))
  BY <1>1, <1>3, <1>5, ReplacedIs
<1>7. gen' = CatchNext(g1, gen.code[c.dispatch], c.dispatch, e) /\ at' = Nth(g1, 2)
  BY <1>1, <1>2, <1>3, <1>5 DEF CatchNext
<1>8. CanGoOn(gen', bodyPlans, open', profile.scopeExits, statements, at')
  <2>1. PICK h, q, cs2, n, exits : h = gen' /\ q = Nth(g1, 2) /\ cs2 = open' /\ n = statements /\ exits = profile.scopeExits
    OBVIOUS
  <2>2. n \in Nat
    BY <2>1, NewIdIs
  <2>3. Emitting(gen, W, bodyPlans, open, H, M, exits, n, at)
    BY <1>4, <2>1
  <2>4. InnermostIs(open, c, k, cs1) /\ c.what = "catch" /\ More(gen.code, c.dispatch)
    BY <1>3, <1>4
  <2>5. g1 = CatchEnd(gen, at, c.end) /\ e = Nth(g1, 1)
    BY <1>1, <1>2
  <2>6. h = CatchNext(g1, gen.code[c.dispatch], c.dispatch, e)
    BY <1>7, <2>1
  <2>7. cs2 = Append(cs1, WithDispatch(c, e))
    BY <1>6, <2>1
  <2>8. CanGoOn(h, bodyPlans, cs2, exits, n, q)
    BY <2>1, <2>2, <2>3, <2>4, <2>5, <2>6, <2>7, NextCloses
  <2> QED
    BY <1>7, <2>1, <2>8
<1> QED
  BY <1>3, <1>8, StatementsStay, EmitStep DEF GoingOn

LEMMA StepCloseCatch ==
    ASSUME EmitInv, CloseCatch
    PROVE  EmitInv'
<1>1. PICK c, cs1, g1, u : /\ c = Last(open) /\ cs1 = Front(open) /\ g1 = CatchEnd(gen, at, c.end)
                           /\ u = GenUnwindBlock(g1, "Throw")
  OBVIOUS
<1>2. /\ open # <<>> /\ c.what = "catch" /\ gen.code[c.dispatch].nth = Len(gen.code[c.dispatch].types)
      /\ gen' = NextAt(u, c.dispatch, u.made) /\ at' \in {c.end, 0} /\ open' = cs1
      /\ statements' = statements /\ bodyPlans' = bodyPlans /\ UNCHANGED <<profile, phase, runVars>>
  <2>1. EndCatch = g1
    BY <1>1, EndCatchIs
  <2> QED
    BY <1>1, <2>1 DEF CloseCatch, Innermost, Clause, NextAt, Close
<1>3. PICK W, H, M, k : /\ Emitting(gen, W, bodyPlans, open, H, M, profile.scopeExits, statements, at)
                        /\ InnermostIs(open, c, k, cs1)
  BY <1>1, <1>2, ClosingIs
<1>4. CanGoOn(gen', bodyPlans, cs1, profile.scopeExits, statements, at')
  BY <1>1, <1>2, <1>3, NewIdIs, CatchCloses
<1> QED
  BY <1>2, <1>4, StatementsStay, EmitStep DEF GoingOn

-----------------------------------------------------------------------------
(***************************************************************************)
(* The steps of the code.                                                  *)
(***************************************************************************)
\* Control is at block n: in ordinary code, or on a way.
AtPoint(code, n, u, td, gl) ==
    code[n].op = "point" /\ td = <<>> /\ gl \in {0, n} /\ (n \in {Returned, Resumed} \/ u = "Normal")
AtLeaving(code, n, u) == code[n].op \in {"exit", "throw"} /\ u = "Normal"
OnWay(W, n, u, e, td, gl) ==
    \E s, t, r : /\ <<n, s, t, r>> \in W /\ r.todo = td /\ r.goal = gl /\ u = Stored(s)
                 /\ s = "Throw" => e.type = t /\ e.selector = r.selector
Underway(code, W, n, u, e, td, gl) ==
    n \in 1 .. Len(code) /\ (AtPoint(code, n, u, td, gl) \/ AtLeaving(code, n, u) \/ OnWay(W, n, u, e, td, gl))

RunInv ==
    /\ phase = "run" /\ profile \in Profiles
    /\ \E W : /\ RunsRight(gen.code, W, bodyPlans)
              /\ Underway(gen.code, W, pc, unwindState, exceptionInfo, todo, goal)

LEMMA WayKnown ==
    ASSUME NEW code, NEW W, NEW plans, RunsRight(code, W, plans), NEW n, NEW s, NEW t, NEW r, <<n, s, t, r>> \in W
    PROVE  n \in 1 .. Len(code) /\ WayOK(code, W, code[n], s, t, r)
BY DEF RunsRight, CodeOK

\* What reaches a block is there.
LEMMA ReachesUnderway ==
    ASSUME NEW code, NEW W, NEW plans, RunsRight(code, W, plans), NEW n, NEW s, NEW t, NEW r,
           Reaches(code, W, n, s, t, r), NEW u, u = Stored(s), NEW e,
           s = "Throw" => e.type = t /\ e.selector = r.selector
    PROVE  Underway(code, W, n, u, e, r.todo, r.goal)
<1>1. CASE <<n, s, t, r>> \in W
  <2>1. OnWay(W, n, u, e, r.todo, r.goal)
    BY <1>1 DEF OnWay
  <2>2. n \in 1 .. Len(code)
    BY <1>1, WayKnown
  <2> QED
    BY <2>1, <2>2 DEF Underway
<1>2. CASE Arrived(code, n, r) /\ (n \in {Returned, Resumed} \/ Stored(s) = "Normal")
  <2>1. AtPoint(code, n, u, r.todo, r.goal) /\ n \in 1 .. Len(code)
    BY <1>2 DEF Arrived, AtPoint
  <2> QED
    BY <2>1 DEF Underway
<1> QED
  BY <1>1, <1>2 DEF Reaches

\* Where an exception of type t goes that is thrown at the pad.
Caught(code, pad, t, n, e) ==
    IF pad = 0 THEN n = Resumed
    ELSE n = pad /\ e = [type |-> t, selector |-> HandleAction(code[pad].clauses, t)]

LEMMA ThrownUnderway ==
    ASSUME NEW code, NEW W, NEW plans, RunsRight(code, W, plans), NEW pad, NEW ps, Thrown(code, W, pad, ps),
           NEW t \in Types, NEW n, NEW e, Caught(code, pad, t, n, e)
    PROVE  Underway(code, W, n, "Normal", e, ps[t].todo, ps[t].goal)
<1>1. CASE pad = 0
  <2>1. n = Resumed /\ ps[t].todo = <<>> /\ ps[t].goal = Resumed
    BY <1>1 DEF Caught, Thrown
  <2>2. Resumed \in 1 .. Len(code) /\ code[Resumed].op = "point"
    <3>1. Ground(code) /\ Len(code) \in Nat
      BY CodeIs DEF RunsRight, CodeOK
    <3> QED
      BY <3>1 DEF Ground, Resumed
  <2>3. AtPoint(code, n, "Normal", ps[t].todo, ps[t].goal)
    BY <2>1, <2>2 DEF AtPoint
  <2> QED
    BY <2>1, <2>2, <2>3 DEF Underway
<1>2. CASE pad # 0
  <2>1. n = pad /\ e.type = t /\ e.selector = HandleAction(code[pad].clauses, t) /\ code[pad].op = "pad"
    BY <1>2 DEF Caught, Thrown
  <2>2. PICK r : r.todo = ps[t].todo /\ r.goal = ps[t].goal /\ <<pad, "Throw", t, r>> \in W
    BY <1>2 DEF Thrown
  <2>3. pad \in 1 .. Len(code) /\ WayOK(code, W, code[pad], "Throw", t, r)
    BY <2>2, WayKnown
  <2>4. HandleAction(code[pad].clauses, t) = r.selector
    BY <2>1, <2>3 DEF WayOK, PadWay
  <2>5. OnWay(W, n, "Normal", e, ps[t].todo, ps[t].goal)
    BY <2>1, <2>2, <2>4 DEF OnWay, Stored
  <2> QED
    BY <2>1, <2>3, <2>5 DEF Underway
<1> QED
  BY <1>1, <1>2

\* What kind of block control is at.
LEMMA BlockIs ==
    ASSUME NEW code, NEW W, NEW plans, RunsRight(code, W, plans), NEW n, NEW u, NEW e, NEW td, NEW gl,
           Underway(code, W, n, u, e, td, gl)
    PROVE  /\ n \in 1 .. Len(code) /\ BlockOK(code, W, plans, n, code[n])
           /\ code[n].op = "point" => AtPoint(code, n, u, td, gl)
           /\ code[n].op \in {"exit", "throw"} => u = "Normal"
           /\ code[n].op \in {"act", "jump", "pad", "dispatch"} => OnWay(W, n, u, e, td, gl)
<1>1. n \in 1 .. Len(code) /\ BlockOK(code, W, plans, n, code[n])
  BY DEF Underway, RunsRight, CodeOK
<1>2. OnWay(W, n, u, e, td, gl) => code[n].op \in {"act", "jump", "pad", "dispatch"}
  BY WayKnown DEF OnWay, WayOK
<1> QED
  BY <1>1, <1>2 DEF Underway, AtPoint, AtLeaving

LEMMA RunStep ==
    ASSUME RunInv, UNCHANGED emitVars, NEW W, RunsRight(gen.code, W, bodyPlans),
           Underway(gen.code, W, pc', unwindState', exceptionInfo', todo', goal')
    PROVE  RunInv'
BY DEF RunInv, emitVars

LEMMA RunIs ==
    ASSUME RunInv
    PROVE  \E W : /\ RunsRight(gen.code, W, bodyPlans)
                  /\ Underway(gen.code, W, pc, unwindState, exceptionInfo, todo, goal)
BY DEF RunInv

LEMMA StepPoint ==
    ASSUME RunInv, RunPoint
    PROVE  RunInv'
<1>1. PICK W : RunsRight(gen.code, W, bodyPlans) /\ Underway(gen.code, W, pc, unwindState, exceptionInfo, todo, goal)
  BY RunIs
<1>2. PICK c, n : c = gen.code[pc] /\ n = pc'
  OBVIOUS
<1>3. c.op = "point" /\ n \in c.succ /\ todo' = <<>> /\ goal' = 0 /\ unwindState' = unwindState /\ UNCHANGED emitVars
  BY <1>2 DEF RunPoint, At, Block
<1>4. BlockOK(gen.code, W, bodyPlans, pc, c) /\ AtPoint(gen.code, pc, unwindState, todo, goal)
  BY <1>1, <1>2, <1>3, BlockIs
<1>5. n \in 1 .. Len(gen.code) /\ gen.code[n].op \in Ordinary /\ unwindState = "Normal"
  <2>1. PointOK(gen.code, pc, c)
    BY <1>3, <1>4 DEF BlockOK
  <2> QED
    BY <1>3, <1>4, <2>1 DEF PointOK, AtPoint
<1>6. Underway(gen.code, W, n, unwindState', exceptionInfo', todo', goal')
  BY <1>3, <1>5 DEF Underway, AtPoint, AtLeaving, Ordinary
<1> QED
  BY <1>1, <1>2, <1>3, <1>6, RunStep

LEMMA StepExit ==
    ASSUME RunInv, RunExit
    PROVE  RunInv'
<1>1. PICK W : RunsRight(gen.code, W, bodyPlans) /\ Underway(gen.code, W, pc, unwindState, exceptionInfo, todo, goal)
  BY RunIs
<1>2. PICK c, n, s, r : /\ c = gen.code[pc] /\ n = pc' /\ s = IF c.store = Keep THEN "Normal" ELSE c.store
                        /\ r = [todo |-> c.plan.todo, goal |-> c.plan.goal, selector |-> 0]
  OBVIOUS
<1>3. /\ c.op = "exit" /\ n = c.next /\ unwindState' = (IF c.store = Keep THEN unwindState ELSE c.store)
      /\ todo' = r.todo /\ goal' = r.goal /\ UNCHANGED emitVars
  BY <1>2 DEF RunExit, At, Block, Store, Follow
<1>4. BlockOK(gen.code, W, bodyPlans, pc, c) /\ unwindState = "Normal"
  BY <1>1, <1>2, <1>3, BlockIs
<1>5. c.store \in {Keep} \cup NormalStates /\ Reaches(gen.code, W, n, s, NoType, r)
  BY <1>2, <1>3, <1>4 DEF BlockOK, ExitOK
<1>6. s # "Throw" /\ unwindState' = Stored(s)
  <2>1. c.store = Keep \/ c.store \in NormalStates
    BY <1>5
  <2>2. "Throw" \notin NormalStates
    BY NormalModes
  <2> QED
    BY <1>2, <1>3, <1>4, <2>1, <2>2 DEF Stored
<1>7. Underway(gen.code, W, n, unwindState', exceptionInfo', r.todo, r.goal)
  BY <1>1, <1>5, <1>6, ReachesUnderway
<1> QED
  BY <1>1, <1>2, <1>3, <1>7, RunStep

LEMMA StepJump ==
    ASSUME RunInv, RunJump
    PROVE  RunInv'
<1>1. PICK W : RunsRight(gen.code, W, bodyPlans) /\ Underway(gen.code, W, pc, unwindState, exceptionInfo, todo, goal)
  BY RunIs
<1>2. PICK c, n, e : c = gen.code[pc] /\ n = pc' /\ e = exceptionInfo
  OBVIOUS
<1>3. /\ c.op \in {"jump", "pad"} /\ n = c.next /\ unwindState' = (IF c.store = Keep THEN unwindState ELSE c.store)
      /\ todo' = todo /\ goal' = goal /\ exceptionInfo' = e /\ UNCHANGED emitVars
  BY <1>2 DEF RunJump, At, Block, Store
<1>4. OnWay(W, pc, unwindState, e, todo, goal)
  BY <1>1, <1>2, <1>3, BlockIs
<1>5. PICK s, t, r : /\ <<pc, s, t, r>> \in W /\ r.todo = todo /\ r.goal = goal /\ unwindState = Stored(s)
                     /\ s = "Throw" => e.type = t /\ e.selector = r.selector
  BY <1>4 DEF OnWay
<1>6. WayOK(gen.code, W, c, s, t, r)
  BY <1>1, <1>2, <1>5, WayKnown
<1>7. CASE c.store = Keep
  <2>1. Reaches(gen.code, W, n, s, t, r)
    BY <1>3, <1>6, <1>7 DEF WayOK, JumpWay, PadWay
  <2>2. unwindState' = Stored(s)
    BY <1>3, <1>5, <1>7
  <2>3. Underway(gen.code, W, n, unwindState', exceptionInfo', r.todo, r.goal)
    BY <1>1, <1>3, <1>5, <2>1, <2>2, ReachesUnderway
  <2> QED
    BY <1>1, <1>2, <1>3, <1>5, <2>3, RunStep
<1>8. CASE c.store # Keep
  <2>1. c.store = "Normal" /\ Arrived(gen.code, n, r)
    BY <1>3, <1>6, <1>8 DEF WayOK, JumpWay, PadWay
  <2>2. AtPoint(gen.code, n, unwindState', r.todo, r.goal) /\ n \in 1 .. Len(gen.code)
    BY <1>3, <1>8, <2>1 DEF AtPoint, Arrived
  <2>3. Underway(gen.code, W, n, unwindState', exceptionInfo', r.todo, r.goal)
    BY <2>2 DEF Underway
  <2> QED
    BY <1>1, <1>2, <1>3, <1>5, <2>3, RunStep
<1> QED
  BY <1>7, <1>8

LEMMA RaiseIs ==
    ASSUME NEW t, NEW pad, Raise(t, pad)
    PROVE  Caught(gen.code, pad, t, pc', exceptionInfo')
BY DEF Raise, Caught

LEMMA StepThrows ==
    ASSUME RunInv, NEW t \in Types, RunThrow(t)
    PROVE  RunInv'
<1>1. PICK W : RunsRight(gen.code, W, bodyPlans) /\ Underway(gen.code, W, pc, unwindState, exceptionInfo, todo, goal)
  BY RunIs
<1>2. PICK c, ps : c = gen.code[pc] /\ ps = c.plans
  OBVIOUS
<1>3. /\ c.op = "throw" /\ Raise(t, c.pad) /\ todo' = ps[t].todo /\ goal' = ps[t].goal
      /\ unwindState' = unwindState /\ UNCHANGED emitVars
  BY <1>2 DEF RunThrow, At, Block, Follow
<1>4. BlockOK(gen.code, W, bodyPlans, pc, c) /\ unwindState = "Normal"
  BY <1>1, <1>2, <1>3, BlockIs
<1>5. Thrown(gen.code, W, c.pad, ps)
  BY <1>2, <1>3, <1>4 DEF BlockOK
<1>6. Caught(gen.code, c.pad, t, pc', exceptionInfo')
  BY <1>3, RaiseIs
<1>7. Underway(gen.code, W, pc', "Normal", exceptionInfo', ps[t].todo, ps[t].goal)
  BY <1>1, <1>5, <1>6, ThrownUnderway
<1> QED
  BY <1>1, <1>3, <1>4, <1>7, RunStep

LEMMA StepBodyThrows ==
    ASSUME RunInv, NEW t \in Types, RunBodyThrows(t)
    PROVE  RunInv'
<1>1. PICK W : RunsRight(gen.code, W, bodyPlans) /\ Underway(gen.code, W, pc, unwindState, exceptionInfo, todo, goal)
  BY RunIs
<1>2. PICK c, ps : c = gen.code[pc] /\ ps = bodyPlans[c.id]
  OBVIOUS
<1>3. /\ c.op = "act" /\ c.body = "mayThrow" /\ Raise(t, c.pad) /\ todo' = ps[t].todo /\ goal' = ps[t].goal
      /\ unwindState' = unwindState /\ UNCHANGED emitVars
  BY <1>2 DEF RunBodyThrows, At, Block, Follow
<1>4. BlockOK(gen.code, W, bodyPlans, pc, c) /\ OnWay(W, pc, unwindState, exceptionInfo, todo, goal)
  BY <1>1, <1>2, <1>3, BlockIs
<1>5. PICK s, t2, r : <<pc, s, t2, r>> \in W /\ unwindState = Stored(s)
  BY <1>4 DEF OnWay
<1>6. unwindState = "Normal"
  <2>1. WayOK(gen.code, W, c, s, t2, r)
    BY <1>1, <1>2, <1>5, WayKnown
  <2> QED
    BY <1>3, <1>5, <2>1 DEF WayOK, ActWay
<1>7. Thrown(gen.code, W, c.pad, ps)
  BY <1>2, <1>3, <1>4 DEF BlockOK, ActOK
<1>8. Caught(gen.code, c.pad, t, pc', exceptionInfo')
  BY <1>3, RaiseIs
<1>9. Underway(gen.code, W, pc', "Normal", exceptionInfo', ps[t].todo, ps[t].goal)
  BY <1>1, <1>7, <1>8, ThrownUnderway
<1> QED
  BY <1>1, <1>3, <1>6, <1>9, RunStep

LEMMA StepAct ==
    ASSUME RunInv, RunAct
    PROVE  RunInv'
<1>1. PICK W : RunsRight(gen.code, W, bodyPlans) /\ Underway(gen.code, W, pc, unwindState, exceptionInfo, todo, goal)
  BY RunIs
<1>2. PICK c, e, e2, u : c = gen.code[pc] /\ e = exceptionInfo /\ e2 = exceptionInfo' /\ u = unwindState'
  OBVIOUS
<1>3. /\ c.op = "act" /\ pc' = Successor(c, u) /\ UNCHANGED emitVars /\ goal' = goal
      /\ u = unwindState \/ (c.body = "loop" /\ u = "Normal")
      /\ e2 = e \/ c.body = "try"
      /\ todo' = IF todo = <<>> THEN todo ELSE Tail(todo)
  BY <1>2 DEF RunAct, At, Block
<1>4. OnWay(W, pc, unwindState, e, todo, goal)
  BY <1>1, <1>2, <1>3, BlockIs
<1>5. PICK s, t, r : /\ <<pc, s, t, r>> \in W /\ r.todo = todo /\ r.goal = goal /\ unwindState = Stored(s)
                     /\ s = "Throw" => e.type = t /\ e.selector = r.selector
  BY <1>4 DEF OnWay
<1>6. WayOK(gen.code, W, c, s, t, r)
  BY <1>1, <1>2, <1>5, WayKnown
<1>7. ActWay(gen.code, W, c, s, t, r) /\ r \in Routes
  BY <1>3, <1>6 DEF WayOK
<1>8. u = Stored(s) /\ (s = "Throw" => e2 = e) /\ todo # <<>>
  BY <1>3, <1>5, <1>7 DEF ActWay
<1>9. PICK r2 : r2 = Rest(r)
  OBVIOUS
<1>10. r2.todo = Tail(todo) /\ r2.goal = goal /\ r2.selector = r.selector
  BY <1>5, <1>7, <1>9 DEF Rest, Routes
<1>11. Reaches(gen.code, W, pc', s, t, r2)
  BY <1>3, <1>7, <1>8, <1>9 DEF ActWay
<1>12. Underway(gen.code, W, pc', u, e2, r2.todo, r2.goal)
  <2>1. s = "Throw" => e2.type = t /\ e2.selector = r2.selector
    BY <1>5, <1>8, <1>10
  <2> QED
    BY <1>1, <1>8, <1>11, <2>1, ReachesUnderway
<1>13. todo' = r2.todo /\ goal' = r2.goal
  BY <1>3, <1>8, <1>10
<1> QED
  BY <1>1, <1>2, <1>3, <1>12, <1>13, RunStep

LEMMA StepNoRethrow ==
    ASSUME RunInv
    PROVE  ~RunRethrow
<1>1. PICK W : RunsRight(gen.code, W, bodyPlans) /\ Underway(gen.code, W, pc, unwindState, exceptionInfo, todo, goal)
  BY RunIs
<1>2. BlockOK(gen.code, W, bodyPlans, pc, gen.code[pc])
  BY <1>1, BlockIs
<1>3. gen.code[pc].op # "rethrow"
  BY <1>2 DEF BlockOK, Ops
<1> QED
  BY <1>3 DEF RunRethrow, At, Block

\* Where the clauses of a try are compared.
LEMMA DispatchAt ==
    ASSUME RunInv, At("dispatch"), NEW c, c = gen.code[pc]
    PROVE  \E W, t, r : /\ RunsRight(gen.code, W, bodyPlans)
                        /\ <<pc, "Throw", t, r>> \in W /\ r.todo = todo /\ r.goal = goal /\ unwindState = "Normal"
                        /\ exceptionInfo.type = t /\ exceptionInfo.selector = r.selector /\ t \in Types
                        /\ DispatchWay(gen.code, W, c, "Throw", t, r) /\ DispatchOK(gen.code, c)
                        /\ c.handler # 0 /\ c.next # 0
<1>1. PICK W : RunsRight(gen.code, W, bodyPlans) /\ Underway(gen.code, W, pc, unwindState, exceptionInfo, todo, goal)
  BY RunIs
<1>2. c.op = "dispatch" /\ pc \in 1 .. Len(gen.code)
  BY <1>1, BlockIs DEF At, Block
<1>3. OnWay(W, pc, unwindState, exceptionInfo, todo, goal) /\ BlockOK(gen.code, W, bodyPlans, pc, c)
  BY <1>1, <1>2, BlockIs
<1>4. PICK s, t, r : /\ <<pc, s, t, r>> \in W /\ r.todo = todo /\ r.goal = goal /\ unwindState = Stored(s)
                     /\ s = "Throw" => exceptionInfo.type = t /\ exceptionInfo.selector = r.selector
  BY <1>3 DEF OnWay
<1>5. WayOK(gen.code, W, c, s, t, r)
  BY <1>1, <1>4, WayKnown
<1>6. DispatchWay(gen.code, W, c, s, t, r) /\ s = "Throw" /\ t \in Types /\ unwindState = "Normal"
  BY <1>2, <1>4, <1>5 DEF WayOK, DispatchWay, Keys, Stored
<1>7. DispatchOK(gen.code, c)
  BY <1>2, <1>3 DEF BlockOK
<1>8. c.handler # 0 /\ c.next # 0
  <2>1. Finished(gen.code, <<>>)
    BY <1>1 DEF RunsRight
  <2>2. ~\E k \in 1 .. Len(<<>>) : <<>>[k].dispatch = pc
    OBVIOUS
  <2> QED
    BY <1>2, <2>1, <2>2 DEF Finished
<1> QED
  BY <1>1, <1>4, <1>6, <1>7, <1>8

LEMMA StepCatch ==
    ASSUME RunInv, RunCatch
    PROVE  RunInv'
<1>1. PICK c : c = gen.code[pc]
  OBVIOUS
<1>2. /\ At("dispatch") /\ pc' = c.handler /\ todo' = <<>> /\ goal' = 0 /\ unwindState' = unwindState /\ UNCHANGED emitVars
  BY <1>1 DEF RunCatch, Block
<1>3. PICK W : RunsRight(gen.code, W, bodyPlans) /\ unwindState = "Normal" /\ DispatchOK(gen.code, c) /\ c.handler # 0
  BY <1>1, <1>2, DispatchAt
<1>4. pc' \in 1 .. Len(gen.code) /\ gen.code[pc'].op = "point"
  BY <1>2, <1>3 DEF DispatchOK
<1>5. Underway(gen.code, W, pc', unwindState', exceptionInfo', todo', goal')
  BY <1>2, <1>3, <1>4 DEF Underway, AtPoint
<1> QED
  BY <1>2, <1>3, <1>5, RunStep

LEMMA StepNoCatch ==
    ASSUME RunInv, RunNoCatch
    PROVE  RunInv'
<1>1. PICK c : c = gen.code[pc]
  OBVIOUS
<1>2. /\ At("dispatch") /\ pc' = c.next /\ exceptionInfo.selector # c.id /\ unwindState' = unwindState /\ UNCHANGED emitVars
      /\ exceptionInfo' = exceptionInfo /\ todo' = todo /\ goal' = goal
  BY <1>1 DEF RunNoCatch, Block, Selected
<1>3. PICK W, t, r : /\ RunsRight(gen.code, W, bodyPlans)
                     /\ <<pc, "Throw", t, r>> \in W /\ r.todo = todo /\ r.goal = goal /\ unwindState = "Normal"
                     /\ exceptionInfo.type = t /\ exceptionInfo.selector = r.selector
                     /\ DispatchWay(gen.code, W, c, "Throw", t, r) /\ c.next # 0
  BY <1>1, <1>2, DispatchAt
<1>4. Reaches(gen.code, W, pc', "Throw", t, r)
  BY <1>2, <1>3 DEF DispatchWay
<1>5. Underway(gen.code, W, pc', unwindState', exceptionInfo', r.todo, r.goal)
  BY <1>2, <1>3, <1>4, ReachesUnderway DEF Stored
<1> QED
  BY <1>2, <1>3, <1>5, RunStep

\* The end of the function.
LEMMA StepFinish ==
    ASSUME EmitInv, Finish
    PROVE  RunInv'
<1>1. PICK h : h = BodyEnd(gen, at)
  OBVIOUS
<1>2. /\ open = <<>> /\ phase' = "run" /\ profile' = profile /\ bodyPlans' = bodyPlans
      /\ gen' = [h EXCEPT !.stack = <<>>, !.made = 0] /\ UNCHANGED runVars
  BY <1>1 DEF Finish, BodyEnd
<1>3. PICK W, H, M : Emitting(gen, W, bodyPlans, open, H, M, profile.scopeExits, statements, at)
  BY GoingIs
<1>4. CanRun(h.code, bodyPlans) /\ IsEmitter(h)
  BY <1>1, <1>2, <1>3, BodyEnds
<1>5. gen'.code = h.code
  BY <1>2, <1>4 DEF IsEmitter, Emitter
<1>6. PICK W2 : RunsRight(h.code, W2, bodyPlans)
  BY <1>4 DEF CanRun
<1>7. pc \in 1 .. Len(h.code) /\ h.code[pc].op = "point"
  <2>1. Ground(h.code) /\ IsCode(h.code)
    BY <1>6 DEF RunsRight, CodeOK
  <2>2. Len(h.code) \in Nat /\ pc = 3
    BY <2>1, CodeIs DEF EmitInv, NothingRun, Entry
  <2> QED
    BY <2>1, <2>2 DEF Ground
<1>8. Underway(h.code, W2, pc, unwindState, exceptionInfo, todo, goal)
  BY <1>7 DEF Underway, AtPoint, EmitInv, NothingRun
<1>9. profile' \in Profiles
  BY <1>2 DEF EmitInv
<1>10. Underway(gen'.code, W2, pc', unwindState', exceptionInfo', todo', goal')
  BY <1>2, <1>5, <1>8 DEF runVars
<1> QED
  BY <1>2, <1>5, <1>6, <1>9, <1>10 DEF RunInv

-----------------------------------------------------------------------------
\* The inductive invariant.
CoveredInv == Covered(profile) => EmitInv \/ RunInv

LEMMA CoveredInit == Init => CoveredInv
<1>1. SUFFICES ASSUME Init, Covered(profile) PROVE EmitInv
  BY DEF CoveredInv
<1>2. gen = Emitter(FirstStack, FirstCode, 0) /\ at = 3
  BY <1>1 DEF Init, Emitter, FirstStack, FirstCode, Entry
<1>3. GoingOn
  <2>1. open = <<>> /\ statements = 0
    BY <1>1 DEF Init
  <2> QED
    BY <1>2, <2>1, FirstGoesOn DEF GoingOn
<1>4. DOMAIN bodyPlans \subseteq 1 .. statements /\ statements \in Nat
  BY <1>1 DEF Init
<1>5. NothingRun /\ phase = "emit" /\ profile \in Profiles
  BY <1>1 DEF Init, NothingRun
<1> QED
  BY <1>1, <1>3, <1>4, <1>5 DEF EmitInv

LEMMA EmissionPhase ==
    ASSUME Emission
    PROVE  phase = "emit"
BY DEF Emission, EmitVar, EmitScopeExit, EmitScope, EmitLoop, EmitTry, EmitLeave, EmitThrowStatement,
       EmitRethrowStatement, CanEmit, CloseScope, CloseLoop, CloseTry, NextCatch, CloseCatch, Innermost, Finish

LEMMA ExecutionPhase ==
    ASSUME Execution
    PROVE  phase = "run"
BY DEF Execution, RunPoint, RunExit, RunJump, RunAct, RunRethrow, RunCatch, RunNoCatch, RunThrow, RunBodyThrows,
       RunEnded, At

LEMMA NoRethrowStatement ==
    ASSUME EmitInv, NEW last \in BOOLEAN
    PROVE  ~EmitRethrowStatement(last)
BY DEF EmitInv, Covered, EmitRethrowStatement

LEMMA EmissionKeeps ==
    ASSUME EmitInv, Emission
    PROVE  EmitInv' \/ RunInv'
<1>1. CASE EmitVar
  BY <1>1, StepVar
<1>2. CASE EmitScope
  BY <1>2, StepScope
<1>3. CASE EmitLoop
  BY <1>3, StepLoop
<1>4. CASE \E x \in profile.scopeExits : EmitScopeExit(x)
  BY <1>4, StepScopeExit
<1>5. CASE \E types \in profile.tries : EmitTry(types)
  BY <1>5, StepTry
<1>6. ASSUME NEW last \in BOOLEAN, EmitLeave("break", "Break", last)
      PROVE  EmitInv'
  BY <1>6, StepLeave
<1>7. ASSUME NEW last \in BOOLEAN, EmitLeave("continue", "Continue", last)
      PROVE  EmitInv'
  BY <1>7, StepLeave
<1>8. ASSUME NEW last \in BOOLEAN, EmitLeave("return", "Return", last)
      PROVE  EmitInv'
  BY <1>8, StepLeave
<1>9. CASE \E last \in BOOLEAN : EmitThrowStatement(last)
  BY <1>9, StepThrow
<1>10. CASE CloseScope
  BY <1>10, StepCloseScope
<1>11. CASE CloseLoop
  BY <1>11, StepCloseLoop
<1>12. CASE CloseTry
  BY <1>12, StepCloseTry
<1>13. CASE NextCatch
  BY <1>13, StepNextCatch
<1>14. CASE CloseCatch
  BY <1>14, StepCloseCatch
<1>15. CASE Finish
  BY <1>15, StepFinish
<1> QED
  BY <1>1, <1>2, <1>3, <1>4, <1>5, <1>6, <1>7, <1>8, <1>9, <1>10, <1>11, <1>12, <1>13, <1>14, <1>15,
     NoRethrowStatement DEF Emission

LEMMA EndedKeeps ==
    ASSUME RunInv, UNCHANGED vars
    PROVE  RunInv'
<1>1. PICK W : RunsRight(gen.code, W, bodyPlans) /\ Underway(gen.code, W, pc, unwindState, exceptionInfo, todo, goal)
  BY RunIs
<1>2. UNCHANGED emitVars /\ pc' = pc /\ unwindState' = unwindState /\ exceptionInfo' = exceptionInfo
      /\ todo' = todo /\ goal' = goal
  BY DEF vars, emitVars
<1> QED
  BY <1>1, <1>2, RunStep

LEMMA ExecutionKeeps ==
    ASSUME RunInv, Execution
    PROVE  RunInv'
<1>1. CASE RunPoint
  BY <1>1, StepPoint
<1>2. CASE RunExit
  BY <1>2, StepExit
<1>3. CASE RunJump
  BY <1>3, StepJump
<1>4. CASE RunAct
  BY <1>4, StepAct
<1>5. CASE RunCatch
  BY <1>5, StepCatch
<1>6. CASE RunNoCatch
  BY <1>6, StepNoCatch
<1>7. CASE \E t \in Types : RunThrow(t)
  BY <1>7, StepThrows
<1>8. CASE \E t \in Types : RunBodyThrows(t)
  BY <1>8, StepBodyThrows
<1>9. CASE RunEnded
  BY <1>9, EndedKeeps DEF RunEnded
<1> QED
  BY <1>1, <1>2, <1>3, <1>4, <1>5, <1>6, <1>7, <1>8, <1>9, StepNoRethrow DEF Execution

LEMMA StutterKeeps ==
    ASSUME EmitInv, UNCHANGED vars
    PROVE  EmitInv'
BY EmitStep, StatementsStay DEF vars, runVars, EmitInv, GoingOn

LEMMA CoveredStep == CoveredInv /\ [Next]_vars => CoveredInv'
<1>1. SUFFICES ASSUME CoveredInv, [Next]_vars, Covered(profile') PROVE EmitInv' \/ RunInv'
  BY DEF CoveredInv, Covered
<1>2. profile' = profile
  BY <1>1 DEF Next, Emission, Execution, EmitVar, EmitScopeExit, EmitScope, EmitLoop, EmitTry, EmitLeave,
       EmitThrowStatement, EmitRethrowStatement, CloseScope, CloseLoop, CloseTry, NextCatch, CloseCatch, Finish,
       RunPoint, RunExit, RunJump, RunAct, RunRethrow, RunCatch, RunNoCatch, RunThrow, RunBodyThrows, RunEnded,
       emitVars, vars
<1>3. EmitInv \/ RunInv
  BY <1>1, <1>2 DEF CoveredInv
<1>4. EmitInv => phase = "emit"
  BY DEF EmitInv
<1>5. RunInv => phase = "run"
  BY DEF RunInv
<1>6. CASE Emission
  BY <1>3, <1>5, <1>6, EmissionPhase, EmissionKeeps
<1>7. CASE Execution
  BY <1>3, <1>4, <1>7, ExecutionPhase, ExecutionKeeps
<1>8. CASE UNCHANGED vars
  BY <1>3, <1>8, StutterKeeps, EndedKeeps
<1> QED
  BY <1>1, <1>6, <1>7, <1>8 DEF Next

\* While the statements of a covered function are emitted, and while its code runs, there is a
\* set of ways for which the code is right, and what happens follows one of them.
THEOREM CoveredAlways == Spec => []CoveredInv
<1> QED
  BY CoveredInit, CoveredStep, PTL DEF Spec

LEMMA InTurn ==
    ASSUME RunInv
    PROVE  ActionsInTurn
<1>1. SUFFICES ASSUME At("act") PROVE todo # <<>> /\ Head(todo) = Block.id
  BY DEF ActionsInTurn
<1>2. PICK W : RunsRight(gen.code, W, bodyPlans) /\ Underway(gen.code, W, pc, unwindState, exceptionInfo, todo, goal)
  BY RunIs
<1>3. PICK c : c = gen.code[pc]
  OBVIOUS
<1>4. c.op = "act" /\ Block = c
  BY <1>1, <1>3 DEF At, Block
<1>5. OnWay(W, pc, unwindState, exceptionInfo, todo, goal)
  BY <1>2, <1>3, <1>4, BlockIs
<1>6. PICK s, t, r : <<pc, s, t, r>> \in W /\ r.todo = todo
  BY <1>5 DEF OnWay
<1>7. WayOK(gen.code, W, c, s, t, r)
  BY <1>2, <1>3, <1>6, WayKnown
<1> QED
  BY <1>4, <1>6, <1>7 DEF WayOK, ActWay

LEMMA AtGoal ==
    ASSUME RunInv
    PROVE  ArrivesAtGoal
<1>1. PICK W : RunsRight(gen.code, W, bodyPlans) /\ Underway(gen.code, W, pc, unwindState, exceptionInfo, todo, goal)
  BY RunIs
<1>2. PICK c : c = gen.code[pc]
  OBVIOUS
<1>3. ASSUME At("point"), goal # 0 PROVE pc = goal /\ todo = <<>>
  <2>1. c.op = "point"
    BY <1>2, <1>3 DEF At, Block
  <2>2. AtPoint(gen.code, pc, unwindState, todo, goal)
    BY <1>1, <1>2, <2>1, BlockIs
  <2> QED
    BY <1>3, <2>2 DEF AtPoint
<1>4. ASSUME At("dispatch")
      PROVE  /\ Selected <=> /\ c.start = goal /\ c.nth = FirstFor(c.types, exceptionInfo.type)
             /\ Selected => todo = <<>>
  <2>1. PICK W2, t, r : /\ r.todo = todo /\ r.goal = goal /\ exceptionInfo.type = t
                        /\ exceptionInfo.selector = r.selector
                        /\ DispatchWay(gen.code, W2, c, "Throw", t, r) /\ DispatchOK(gen.code, c)
    BY <1>2, <1>4, DispatchAt
  <2>2. PICK k, n, i, base, l : k = FirstFor(c.types, t) /\ n = c.nth /\ i = c.id /\ base = c.id - c.nth /\ l = Len(c.types)
    OBVIOUS
  <2>3. n \in 1 .. l /\ l \in Nat /\ i \in Nat /\ Clauses(c.types)
    BY <2>1, <2>2 DEF DispatchOK, Clauses
  <2>4. k \in Nat /\ base \in Int /\ base + n = i /\ n # 0
    <3>1. k = 0 \/ k \in 1 .. l
      BY <2>2, <2>3, FirstForIs
    <3> QED
      BY <2>2, <2>3, <3>1
  <2>5. /\ k # 0 => goal = c.start /\ todo = <<>> /\ exceptionInfo.selector = base + k
        /\ k = 0 => exceptionInfo.selector \notin base + 1 .. base + l
    BY <2>1, <2>2 DEF DispatchWay
  <2>6. Selected <=> exceptionInfo.selector = i
    BY <1>2, <2>2 DEF Selected, Block
  <2>7. CASE k = 0
    <3>1. i \in base + 1 .. base + l
      BY <2>3, <2>4
    <3>2. ~Selected /\ c.nth # FirstFor(c.types, exceptionInfo.type)
      BY <2>1, <2>2, <2>4, <2>5, <2>6, <2>7, <3>1
    <3> QED
      BY <3>2
  <2>8. CASE k # 0
    <3>1. base + k = i <=> k = n
      BY <2>3, <2>4
    <3>2. exceptionInfo.selector = base + k
      BY <2>5, <2>8
    <3>3. Selected <=> c.nth = FirstFor(c.types, exceptionInfo.type)
      BY <2>1, <2>2, <2>6, <3>1, <3>2
    <3> QED
      BY <2>5, <2>8, <3>3
  <2> QED
    BY <2>7, <2>8
<1> QED
  BY <1>2, <1>3, <1>4 DEF ArrivesAtGoal, Block

LEMMA InNormalState ==
    ASSUME RunInv
    PROVE  RunsInNormalState
<1>1. PICK W : RunsRight(gen.code, W, bodyPlans) /\ Underway(gen.code, W, pc, unwindState, exceptionInfo, todo, goal)
  BY RunIs
<1>2. PICK c : c = gen.code[pc]
  OBVIOUS
<1>3. ASSUME At("point"), pc \notin {Returned, Resumed} PROVE unwindState = "Normal"
  <2>1. c.op = "point"
    BY <1>2, <1>3 DEF At, Block
  <2>2. AtPoint(gen.code, pc, unwindState, todo, goal)
    BY <1>1, <1>2, <2>1, BlockIs
  <2> QED
    BY <1>3, <2>2 DEF AtPoint
<1> QED
  BY <1>3 DEF RunsInNormalState, UnwindStateReset

LEMMA WellFormed ==
    ASSUME EmitInv \/ RunInv
    PROVE  PadsWellFormed
<1>1. \E W : CodeOK(gen.code, W, bodyPlans)
  <2>1. CASE EmitInv
    <3>1. PICK W, H, M : Emitting(gen, W, bodyPlans, open, H, M, profile.scopeExits, statements, at)
      BY <2>1, GoingIs
    <3> QED
      BY <3>1, EmittingIs DEF Sound
  <2>2. CASE RunInv
    BY <2>2, RunIs DEF RunsRight
  <2> QED
    BY <2>1, <2>2
<1>2. PICK W : CodeOK(gen.code, W, bodyPlans)
  BY <1>1
<1>3. DOMAIN gen.code = 1 .. Len(gen.code)
  BY <1>2, CodeIs DEF CodeOK
<1>4. ASSUME NEW n \in DOMAIN gen.code, gen.code[n].op = "pad"
      PROVE  gen.code[n].clauses # <<>> \/ gen.code[n].cleanup
  <2>1. BlockOK(gen.code, W, bodyPlans, n, gen.code[n])
    BY <1>2, <1>3 DEF CodeOK
  <2> QED
    BY <1>4, <2>1 DEF BlockOK
<1> QED
  BY <1>4 DEF PadsWellFormed

LEMMA EmitQuiet ==
    ASSUME EmitInv
    PROVE  ActionsInTurn /\ ArrivesAtGoal /\ RunsInNormalState
<1>1. phase # "run"
  BY DEF EmitInv
<1>2. \A op : ~At(op)
  BY <1>1 DEF At
<1> QED
  BY <1>2 DEF ActionsInTurn, ArrivesAtGoal, RunsInNormalState, UnwindStateReset

LEMMA CoveredImplies ==
    CoveredInv => (Covered(profile) => ActionsInTurn /\ ArrivesAtGoal /\ RunsInNormalState /\ PadsWellFormed)
<1>1. SUFFICES ASSUME CoveredInv, Covered(profile)
               PROVE  ActionsInTurn /\ ArrivesAtGoal /\ RunsInNormalState /\ PadsWellFormed
  OBVIOUS
<1>2. EmitInv \/ RunInv
  BY <1>1 DEF CoveredInv
<1>3. PadsWellFormed
  BY <1>2, WellFormed
<1>4. CASE EmitInv
  BY <1>3, <1>4, EmitQuiet
<1>5. CASE RunInv
  BY <1>3, <1>5, InTurn, AtGoal, InNormalState
<1> QED
  BY <1>2, <1>4, <1>5

\* Whatever its statements are, the code of a function that is covered runs, on every way
\* out of a place, the actions that the language asks for, in their order, and none twice:
\* the block of an action is entered only when its turn has come, though it is shared by
\* exits that go on to different places (ScopeExitActions.cpp, genUnwindBlock).
THEOREM CoveredActionsInTurn == Spec => [](Covered(profile) => ActionsInTurn)
<1>1. CoveredInv => (Covered(profile) => ActionsInTurn)
  BY CoveredImplies
<1> QED
  BY <1>1, CoveredAlways, PTL

\* It arrives where the exit was to lead, and only when nothing is left to be run: at the end of
\* the scope, at the loop's exit, at the return, or at the catch clause that is for the exception,
\* be it thrown by a statement or by the block of a scope exit (Exception.cpp, genLandingPad).
THEOREM CoveredArrivesAtGoal == Spec => [](Covered(profile) => ArrivesAtGoal)
<1>1. CoveredInv => (Covered(profile) => ArrivesAtGoal)
  BY CoveredImplies
<1> QED
  BY <1>1, CoveredAlways, PTL

\* unwindState is normal again whenever ordinary code runs, so that no switch of a shared block
\* follows an exit that is over (ScopeExitActions.cpp:106, and genUnwind).
THEOREM CoveredRunsInNormalState == Spec => [](Covered(profile) => RunsInNormalState)
<1>1. CoveredInv => (Covered(profile) => RunsInNormalState)
  BY CoveredImplies
<1> QED
  BY <1>1, CoveredAlways, PTL

\* Every landing pad that is generated has a clause or is a cleanup (Exception.cpp:163).
THEOREM CoveredPadsWellFormed == Spec => [](Covered(profile) => PadsWellFormed)
<1>1. CoveredInv => (Covered(profile) => PadsWellFormed)
  BY CoveredImplies
<1> QED
  BY <1>1, CoveredAlways, PTL
=============================================================================
