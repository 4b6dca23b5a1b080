------------------------ MODULE EventGenerator_proof ------------------------
(***************************************************************************)
(* Proofs about EventGenerator, for any number of callers, generators and  *)
(* wait sets and any pipe that holds a byte per caller.                    *)
(***************************************************************************)
EXTENDS EventGenerator, FiniteSetTheorems, TLAPS

\* What the steps of a wait set's thread leave alone: everything that the
\* callers of notify() and reset() look at.
LEMMA WaiterStepEffect ==
    ASSUME NEW w \in WaitSets, WaiterStep(w), TypeOK
    PROVE  /\ UNCHANGED <<bytes, pc, target, outstanding>>
           /\ inserted' \subseteq WaitSets \X Generators
           /\ ready' \subseteq inserted'
           /\ waiting' \subseteq WaitSets
<1>1. ASSUME NEW g \in Generators, InsertSource(w, g)
      PROVE  /\ UNCHANGED <<bytes, pc, target, outstanding>>
             /\ inserted' \subseteq WaitSets \X Generators
             /\ ready' \subseteq inserted'
             /\ waiting' \subseteq WaitSets
  BY <1>1 DEF InsertSource, Insert, TypeOK, EventTypeOK
<1>2. ASSUME NEW T \in SUBSET OnReadyList(w), TakeReady(w, T)
      PROVE  UNCHANGED <<bytes, inserted>> /\ ready' \subseteq inserted
  BY <1>2 DEF TakeReady, TypeOK, EventTypeOK
<1>3. WaitReturns(w) => UNCHANGED <<bytes, inserted>> /\ ready' \subseteq inserted
  BY <1>2 DEF WaitReturns
<1>4. WaitFindsNothing(w) => UNCHANGED <<bytes, inserted>> /\ ready' \subseteq inserted
  BY <1>2 DEF WaitFindsNothing
<1>5. CASE CallWait(w)
  BY <1>5 DEF CallWait, TypeOK, EventTypeOK, eventVars
<1>6. CASE ReturnFromWait(w)
  BY <1>6, <1>3 DEF ReturnFromWait, TypeOK, EventTypeOK
<1>7. CASE WaitOn(w) \/ Poll(w)
  BY <1>7, <1>3, <1>4 DEF WaitOn, Poll, TypeOK, EventTypeOK
<1> QED
  BY <1>1, <1>5, <1>6, <1>7 DEF WaiterStep

\* Every variable keeps its type.
LEMMA TypeStep == TypeOK /\ [Next]_vars => TypeOK'
<1> SUFFICES ASSUME TypeOK, [Next]_vars PROVE TypeOK'
  OBVIOUS
<1>1. ASSUME NEW c \in Callers, CallerStep(c) PROVE TypeOK'
  <2>1. ASSUME NEW g \in Generators, CallNotify(c, g) \/ CallReset(c, g) PROVE TypeOK'
    BY <2>1 DEF CallNotify, CallReset, Call, GoTo, eventVars, TypeOK, EventTypeOK
  <2>2. CASE NotifyRead(c)
    BY <2>2 DEF NotifyRead, ReadByte, TypeOK, EventTypeOK
  <2>3. CASE NotifyDrained(c)
    BY <2>3 DEF NotifyDrained, ReadWouldBlock, GoTo, eventVars, TypeOK, EventTypeOK
  <2>4. CASE NotifyWrite(c)
    BY <2>4 DEF NotifyWrite, WriteByte, Watching, GoTo, TypeOK, EventTypeOK
  <2>5. CASE ResetRead(c)
    BY <2>5 DEF ResetRead, ReadByte, TypeOK, EventTypeOK
  <2>6. CASE ResetDone(c)
    BY <2>6 DEF ResetDone, ReadWouldBlock, GoTo, eventVars, TypeOK, EventTypeOK
  <2> QED
    BY <1>1, <2>1, <2>2, <2>3, <2>4, <2>5, <2>6 DEF CallerStep, NotifyStep, ResetStep
<1>2. ASSUME NEW w \in WaitSets, WaiterStep(w) PROVE TypeOK'
  BY <1>2, WaiterStepEffect DEF TypeOK, EventTypeOK
<1>3. CASE UNCHANGED vars
  BY <1>3 DEF vars, TypeOK, EventTypeOK
<1> QED
  BY <1>1, <1>2, <1>3 DEF Next

-----------------------------------------------------------------------------
\* The set of callers about to write is finite, and no larger than Callers.
LEMMA WritersFinite ==
    ASSUME NEW g
    PROVE  /\ IsFiniteSet(Writers(g))
           /\ Cardinality(Writers(g)) \in Nat
           /\ Cardinality(Callers) \in Nat
           /\ Cardinality(Writers(g)) <= Cardinality(Callers)
  BY CallersAssumption, FS_Subset, FS_CardinalityType DEF Writers

\* The number of bytes in a pipe and of callers about to write to it is kept
\* within bounds by every step: only a caller that finds the pipe empty joins
\* the writers, and a byte written is a writer less.
LEMMA PipeBoundedStep == TypeOK /\ PipeBounded /\ [Next]_vars => PipeBounded'
<1> SUFFICES ASSUME TypeOK, PipeBounded, [Next]_vars, NEW g \in Generators
             PROVE  bytes'[g] + Cardinality(Writers(g)') <= Cardinality(Callers)
  BY DEF PipeBounded
<1>0. /\ bytes[g] \in Nat
      /\ bytes[g] + Cardinality(Writers(g)) <= Cardinality(Callers)
      /\ Cardinality(Writers(g)) \in Nat
      /\ Cardinality(Callers) \in Nat
      /\ IsFiniteSet(Writers(g))
  BY WritersFinite DEF PipeBounded, TypeOK, EventTypeOK
<1>1. ASSUME NEW c \in Callers, CallerStep(c)
      PROVE  bytes'[g] + Cardinality(Writers(g)') <= Cardinality(Callers)
  <2>1. ASSUME NEW h \in Generators, CallNotify(c, h) \/ CallReset(c, h)
        PROVE  bytes' = bytes /\ Writers(g)' = Writers(g)
    BY <2>1 DEF CallNotify, CallReset, Call, GoTo, eventVars, Writers, TypeOK
  <2>2. CASE NotifyRead(c) \/ ResetRead(c)
    <3>1. bytes'[g] \in Nat /\ bytes'[g] <= bytes[g] /\ Writers(g)' = Writers(g)
      BY <2>2 DEF NotifyRead, ResetRead, ReadByte, Writers, TypeOK, EventTypeOK
    <3> QED
      BY <1>0, <3>1
  <2>3. CASE NotifyDrained(c)
    <3>1. /\ bytes' = bytes
          /\ bytes[target[c]] = 0
          /\ pc' = [pc EXCEPT ![c] = "write"]
          /\ target' = target
      BY <2>3 DEF NotifyDrained, ReadWouldBlock, GoTo, eventVars
    <3>2. CASE target[c] = g
      <4>1. Writers(g)' \subseteq Callers
        BY DEF Writers
      <4>2. Cardinality(Writers(g)') <= Cardinality(Callers)
        BY <4>1, CallersAssumption, FS_Subset
      <4>3. Cardinality(Writers(g)') \in Nat
        BY <4>1, CallersAssumption, FS_Subset, FS_CardinalityType
      <4> QED
        BY <3>1, <3>2, <4>2, <4>3, <1>0
    <3>3. CASE target[c] # g
      <4>1. Writers(g)' = Writers(g)
        BY <3>1, <3>3 DEF Writers, TypeOK
      <4> QED
        BY <3>1, <4>1, <1>0
    <3> QED
      BY <3>2, <3>3
  <2>4. CASE NotifyWrite(c)
    <3>1. /\ bytes' = [bytes EXCEPT ![target[c]] = @ + 1]
          /\ pc[c] = "write"
          /\ pc' = [pc EXCEPT ![c] = "idle"]
          /\ target' = target
      BY <2>4 DEF NotifyWrite, WriteByte, GoTo
    <3>2. CASE target[c] = g
      <4>1. Writers(g)' = Writers(g) \ {c} /\ c \in Writers(g)
        BY <3>1, <3>2 DEF Writers, TypeOK
      <4>2. Cardinality(Writers(g)') = Cardinality(Writers(g)) - 1
        BY <4>1, <1>0, FS_RemoveElement
      <4>3. bytes'[g] = bytes[g] + 1
        BY <3>1, <3>2 DEF TypeOK, EventTypeOK
      <4> QED
        BY <4>2, <4>3, <1>0
    <3>3. CASE target[c] # g
      <4>1. Writers(g)' = Writers(g) /\ bytes'[g] = bytes[g]
        BY <3>1, <3>3 DEF Writers, TypeOK, EventTypeOK
      <4> QED
        BY <4>1, <1>0
    <3> QED
      BY <3>2, <3>3
  <2>5. CASE ResetDone(c)
    <3>1. bytes' = bytes /\ Writers(g)' = Writers(g)
      BY <2>5 DEF ResetDone, ReadWouldBlock, GoTo, eventVars, Writers, TypeOK
    <3> QED
      BY <3>1, <1>0
  <2> QED
    BY <1>0, <1>1, <2>1, <2>2, <2>3, <2>4, <2>5 DEF CallerStep, NotifyStep, ResetStep
<1>2. ASSUME NEW w \in WaitSets, WaiterStep(w)
      PROVE  bytes' = bytes /\ Writers(g)' = Writers(g)
  BY <1>2, WaiterStepEffect DEF Writers
<1>3. CASE UNCHANGED vars
  BY <1>3, <1>0 DEF vars, Writers
<1> QED
  BY <1>0, <1>1, <1>2, <1>3 DEF Next

\* An event taken out of the pipe by notify() is put back by the same call.
LEMMA EventNotLostStep == TypeOK /\ EventNotLost /\ [Next]_vars => EventNotLost'
<1> SUFFICES ASSUME TypeOK, EventNotLost, [Next]_vars, NEW g \in outstanding'
             PROVE  bytes'[g] > 0 \/ Notifying(g)' # {}
  BY DEF EventNotLost
<1>1. ASSUME NEW c \in Callers, CallerStep(c)
      PROVE  bytes'[g] > 0 \/ Notifying(g)' # {}
  <2>1. ASSUME NEW h \in Generators, CallNotify(c, h) \/ CallReset(c, h)
        PROVE  bytes'[g] > 0 \/ Notifying(g)' # {}
    <3>1. Notifying(g) \subseteq Notifying(g)' /\ bytes' = bytes /\ outstanding' = outstanding
      BY <2>1 DEF CallNotify, CallReset, Call, GoTo, eventVars, Notifying, TypeOK
    <3> QED
      BY <3>1 DEF EventNotLost
  <2>2. CASE NotifyRead(c)
    <3>1. CASE target[c] = g
      <4>1. c \in Notifying(g)'
        BY <2>2, <3>1 DEF NotifyRead, Notifying
      <4> QED
        BY <4>1
    <3>2. CASE target[c] # g
      BY <2>2, <3>2 DEF NotifyRead, ReadByte, Notifying, EventNotLost, TypeOK, EventTypeOK
    <3> QED
      BY <3>1, <3>2
  <2>3. CASE NotifyDrained(c)
    <3>1. Notifying(g)' = Notifying(g) /\ bytes' = bytes /\ outstanding' = outstanding
      BY <2>3 DEF NotifyDrained, ReadWouldBlock, GoTo, eventVars, Notifying, TypeOK
    <3> QED
      BY <3>1 DEF EventNotLost
  <2>4. CASE NotifyWrite(c)
    <3>1. CASE target[c] = g
      BY <2>4, <3>1 DEF NotifyWrite, WriteByte, TypeOK, EventTypeOK
    <3>2. CASE target[c] # g
      <4>1. Notifying(g)' = Notifying(g) /\ bytes'[g] = bytes[g] /\ g \in outstanding
        BY <2>4, <3>2 DEF NotifyWrite, WriteByte, GoTo, Notifying, TypeOK, EventTypeOK
      <4> QED
        BY <4>1 DEF EventNotLost
    <3> QED
      BY <3>1, <3>2
  <2>5. CASE ResetRead(c)
    <3>1. target[c] # g /\ g \in outstanding
      BY <2>5 DEF ResetRead
    <3>2. Notifying(g)' = Notifying(g) /\ bytes'[g] = bytes[g]
      BY <2>5, <3>1 DEF ResetRead, ReadByte, Notifying, TypeOK, EventTypeOK
    <3> QED
      BY <3>1, <3>2 DEF EventNotLost
  <2>6. CASE ResetDone(c)
    <3>1. Notifying(g)' = Notifying(g) /\ bytes' = bytes /\ outstanding' = outstanding
      BY <2>6 DEF ResetDone, ReadWouldBlock, GoTo, eventVars, Notifying, TypeOK
    <3> QED
      BY <3>1 DEF EventNotLost
  <2> QED
    BY <1>1, <2>1, <2>2, <2>3, <2>4, <2>5, <2>6 DEF CallerStep, NotifyStep, ResetStep
<1>2. ASSUME NEW w \in WaitSets, WaiterStep(w)
      PROVE  bytes'[g] > 0 \/ Notifying(g)' # {}
  BY <1>2, WaiterStepEffect DEF EventNotLost, Notifying
<1>3. CASE UNCHANGED vars
  BY <1>3 DEF vars, EventNotLost, Notifying
<1> QED
  BY <1>1, <1>2, <1>3 DEF Next

-----------------------------------------------------------------------------
LEMMA InitInvariant == Init => TypeOK /\ PipeBounded /\ EventNotLost
<1> SUFFICES ASSUME Init PROVE TypeOK /\ PipeBounded /\ EventNotLost
  OBVIOUS
<1>1. TypeOK /\ EventNotLost
  BY DEF Init, EventInit, TypeOK, EventTypeOK, EventNotLost
<1>2. ASSUME NEW g \in Generators
      PROVE  bytes[g] + Cardinality(Writers(g)) <= Cardinality(Callers)
  <2>1. bytes[g] = 0
    BY DEF Init, EventInit
  <2> QED
    BY <2>1, WritersFinite
<1> QED
  BY <1>1, <1>2 DEF PipeBounded

\* Every variable always has its type.
THEOREM TypeCorrect == Spec => []TypeOK
  BY InitInvariant, TypeStep, PTL DEF Spec

\* The pipe never holds more than one byte per caller, however many calls of
\* notify() are made (internal_generator.c, std_event_generator_notify).
THEOREM PipeStaysBounded == Spec => []PipeBounded
  BY InitInvariant, TypeStep, PipeBoundedStep, PTL DEF Spec

\* So the write of notify() finds room, and notify() does not block although
\* the write end of the pipe is a blocking one.
THEOREM NotifyDoesNotBlock == Spec => []NotifyNeverBlocks
<1>1. TypeOK /\ PipeBounded => NotifyNeverBlocks
  <2> SUFFICES ASSUME TypeOK, PipeBounded, NEW c \in Callers, pc[c] = "write"
               PROVE  bytes[target[c]] < PipeCapacity
    BY DEF NotifyNeverBlocks
  <2> DEFINE g == target[c]
  <2>1. g \in Generators /\ bytes[g] \in Nat
    BY DEF TypeOK, EventTypeOK
  <2>2. Cardinality(Writers(g)) # 0
    <3>1. c \in Writers(g)
      BY DEF Writers
    <3> QED
      BY <3>1, WritersFinite, FS_EmptySet
  <2>3. bytes[g] + Cardinality(Writers(g)) <= Cardinality(Callers)
    BY <2>1 DEF PipeBounded
  <2>4. Cardinality(Callers) <= PipeCapacity /\ PipeCapacity \in Nat
    BY CallersAssumption, EventAssumption
  <2> QED
    BY <2>1, <2>2, <2>3, <2>4, WritersFinite
<1> QED
  BY <1>1, InitInvariant, TypeStep, PipeBoundedStep, PTL DEF Spec

\* notify() racing with notify() loses no event for good.
THEOREM EventsSurviveNotify == Spec => []EventNotLost
  BY InitInvariant, TypeStep, EventNotLostStep, PTL DEF Spec
=============================================================================
