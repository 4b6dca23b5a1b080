------------------------ MODULE ThreadsExample_proof ------------------------
(***************************************************************************)
(* Proofs about Thread, for any number of callers, threads and calls, and  *)
(* about ThreadsExample, for any number of threads.                        *)
(*   Thread          the inductive invariant ties the fields of each       *)
(*                   object to the stage of its thread, and to the callers *)
(*                   that are inside a call on it.                         *)
(*   ThreadsExample  takes the steps of Thread and two steps of its wait   *)
(*                   set, which leave that invariant as it is; to it the   *)
(*                   example adds which objects exist at each index of     *)
(*                   each loop, and what the polls of checkThreads leave   *)
(*                   on the ready list.                                    *)
(***************************************************************************)
EXTENDS ThreadsExample, TLAPS

-----------------------------------------------------------------------------
(***************************************************************************)
(* Thread.  Nothing in this part depends on ThreadsExample.                *)
(***************************************************************************)
\* What the fields of an object say about the stage of its thread.
ObjectInv ==
    \A t \in Threads :
        /\ thread[t].object = "absent" =>
               thread[t].stage = "none" /\ thread[t].runnable = "creator"
        /\ thread[t].object = "allocated" /\ thread[t].stage = "none" =>
               thread[t].runnable = "member"
        /\ thread[t].object \in {"shared", "dying"} => thread[t].stage # "none"
        /\ thread[t].object = "freed" =>
               thread[t].stage \in {"none", "exited"} /\ thread[t].runnable = "destroyed"
        /\ thread[t].mutex = IF thread[t].stage = "unlock" THEN t ELSE Nobody
        /\ thread[t].destroys = IF thread[t].runnable = "destroyed" THEN 1 ELSE 0
        /\ thread[t].joins = IF thread[t].has_joined THEN 1 ELSE 0
        /\ thread[t].has_joined => thread[t].stage = "exited"

\* Where the runnable is at each stage of run(), and what others can see of it.
StageInv ==
    \A t \in Threads :
        /\ thread[t].stage = "begin" => thread[t].runnable = "member"
        /\ thread[t].stage \in {"run", "finish", "unlock", "cleanup"} =>
               thread[t].runnable = "local"
        /\ thread[t].stage \in {"drain", "write", "return", "exited"} =>
               thread[t].runnable = "destroyed" /\ thread[t].is_finished
        /\ thread[t].stage \in {"unlock", "cleanup"} => thread[t].is_finished
        /\ bytes[t] > 0 => thread[t].stage \in {"return", "exited"}

\* What a caller inside a call knows of the object.
CallInv ==
    \A p \in Callers :
        LET th == thread[target[p]] IN
        /\ pc[p] = "start" => th.object = "allocated" /\ th.stage = "none"
        /\ pc[p] = "publish" => th.object = "allocated" /\ th.stage # "none"
        /\ pc[p] \in {"cancel", "joinLock", "joining", "joinUnlock"} =>
               th.object \in {"shared", "dying"}
        /\ pc[p] = "delete" => th.object = "dying"
        /\ pc[p] = "joining" => ~th.has_joined
        /\ pc[p] \in {"joinUnlock", "delete"} => th.has_joined

\* Who holds joinMutex, and who is alone with an object.
ExclusionInv ==
    /\ \A t \in Threads, p \in Callers :
           thread[t].joinMutex = p <=> target[p] = t /\ pc[p] \in {"joining", "joinUnlock"}
    /\ \A p, q \in Callers :
           InCall(p, target[q]) /\ pc[q] # "idle" /\ thread[target[q]].object # "shared" => p = q

IInv == TypeOK /\ ObjectInv /\ StageInv /\ CallInv /\ ExclusionInv

-----------------------------------------------------------------------------
LEMMA InitInvariant == Init => IInv
<1> SUFFICES ASSUME Init PROVE IInv
  OBVIOUS
<1> USE ThreadAssumption DEF Init, EventInit, Threads
<1>1. TypeOK
  BY DEF TypeOK, EventTypeOK, InternalThread
<1>2. ObjectInv
  BY DEF ObjectInv
<1>3. StageInv
  BY DEF StageInv
<1>4. CallInv
  BY DEF CallInv
<1>5. ExclusionInv
  BY DEF ExclusionInv, InCall
<1> QED
  BY <1>1, <1>2, <1>3, <1>4, <1>5 DEF IInv

\* Writing to a pipe and closing it keep the types of the kernel's objects.
LEMMA EventStep ==
    ASSUME EventTypeOK, NEW g \in Threads, WriteByte(g) \/ ClosePipe(g)
    PROVE  EventTypeOK'
<1> USE DEF EventTypeOK, Threads, Watching
<1>1. CASE WriteByte(g)
  BY <1>1 DEF WriteByte
<1>2. CASE ClosePipe(g)
  <2>1. bytes' \in [Generators -> Nat]
    BY <1>2 DEF ClosePipe
  <2>2. inserted' \subseteq WaitSets \X Generators /\ ready' \subseteq inserted'
    BY <1>2 DEF ClosePipe
  <2> QED
    BY <2>1, <2>2
<1> QED
  BY <1>1, <1>2

\* Changing a field of an object to a value of the field's type, one at a time.
LEMMA ObjectFields ==
    ASSUME NEW o \in InternalThread
    PROVE  /\ \A s \in {"run", "cleanup"} :
                  [o EXCEPT !.stage = s] \in InternalThread
           /\ \A r \in {"member", "local"} : [o EXCEPT !.runnable = r] \in InternalThread
           /\ [o EXCEPT !.mutex = Nobody] \in InternalThread
           /\ [o EXCEPT !.object = "allocated"] \in InternalThread
<1>1. \A s \in {"run", "cleanup"} : [o EXCEPT !.stage = s] \in InternalThread
  BY DEF InternalThread
<1>2. \A r \in {"member", "local"} : [o EXCEPT !.runnable = r] \in InternalThread
  BY DEF InternalThread
<1>3. [o EXCEPT !.mutex = Nobody] \in InternalThread
  BY DEF InternalThread
<1>4. [o EXCEPT !.object = "allocated"] \in InternalThread
  BY DEF InternalThread
<1> QED
  BY <1>1, <1>2, <1>3, <1>4

\* Every step keeps the types.
LEMMA TypeStep ==
    ASSUME IInv, [Next]_vars
    PROVE  TypeOK'
<1>0. TypeOK
  BY DEF IInv
<1>1. \A t \in Threads : thread[t].joins + 1 \in 0 .. 2 /\ thread[t].destroys + 1 \in 0 .. 2
  BY DEF IInv, ObjectInv
<1> USE <1>0, ThreadAssumption DEF TypeOK, InternalThread
<1>2. ASSUME NEW t \in Threads, RunStep(t) PROVE TypeOK'
  <2>1. CASE RunDrained(t) \/ RunWrite(t)
    <3>1. EventTypeOK'
      BY <2>1, EventStep DEF RunDrained, RunWrite, ReadWouldBlock, EventTypeOK, eventVars
    <3>2. thread' \in [Threads -> InternalThread]
      BY <2>1 DEF RunDrained, RunWrite
    <3>3. UNCHANGED callerVars
      BY <2>1 DEF RunDrained, RunWrite
    <3> QED
      BY <3>1, <3>2, <3>3 DEF callerVars
  <2>2. CASE ~(RunDrained(t) \/ RunWrite(t))
    <3>1. EventTypeOK'
      BY <1>2, <2>2 DEF RunStep, RunMove, RunReturns, RunFinish, RunUnlock, RunCleanup, RunExit,
                        EventTypeOK, eventVars
    <3>2. thread' \in [Threads -> InternalThread]
      <4>1. CASE RunMove(t)
        <5> DEFINE o == [thread[t] EXCEPT !.stage = "run"]
        <5> HIDE DEF InternalThread
        <5>1. o \in InternalThread
          BY ObjectFields
        <5>2. [o EXCEPT !.runnable = "local"] \in InternalThread
          BY <5>1, ObjectFields
        <5>3. thread' = [thread EXCEPT ![t] = [o EXCEPT !.runnable = "local"]]
          BY <4>1 DEF RunMove
        <5> QED
          BY <5>2, <5>3
      <4>2. CASE RunReturns(t)
        BY <4>2 DEF RunReturns
      <4>3. CASE RunFinish(t)
        BY <4>3 DEF RunFinish
      <4>4. CASE RunUnlock(t)
        <5> DEFINE o == [thread[t] EXCEPT !.stage = "cleanup"]
        <5> HIDE DEF InternalThread
        <5>1. o \in InternalThread
          BY ObjectFields
        <5>2. [o EXCEPT !.mutex = Nobody] \in InternalThread
          BY <5>1, ObjectFields
        <5>3. thread' = [thread EXCEPT ![t] = [o EXCEPT !.mutex = Nobody]]
          BY <4>4 DEF RunUnlock
        <5> QED
          BY <5>2, <5>3
      <4>5. CASE RunCleanup(t)
        BY <1>1, <4>5 DEF RunCleanup
      <4>6. CASE RunExit(t)
        BY <4>6 DEF RunExit
      <4> QED
        BY <1>2, <2>2, <4>1, <4>2, <4>3, <4>4, <4>5, <4>6 DEF RunStep
    <3>3. UNCHANGED callerVars
      BY <1>2, <2>2 DEF RunStep, RunMove, RunReturns, RunFinish, RunUnlock, RunCleanup, RunExit
    <3> QED
      BY <3>1, <3>2, <3>3 DEF callerVars
  <2> QED
    BY <2>1, <2>2
<1>3. ASSUME NEW p \in Callers, CallerStep(p) PROVE TypeOK'
  <2>1. CASE StartFails(p) \/ Delete(p)
    <3>1. EventTypeOK'
      BY <2>1, EventStep DEF StartFails, Delete, DestroyObject
    <3>2. thread' \in [Threads -> InternalThread]
      <4>1. DestroyObject(target[p])
        BY <2>1 DEF StartFails, Delete
      <4>2. CASE thread[target[p]].runnable = "member"
        BY <1>1, <4>1, <4>2 DEF DestroyObject
      <4>3. CASE thread[target[p]].runnable # "member"
        BY <4>1, <4>3 DEF DestroyObject
      <4> QED
        BY <4>2, <4>3
    <3> QED
      BY <2>1, <3>1, <3>2 DEF StartFails, Delete, GoTo
  <2>2. CASE ~(StartFails(p) \/ Delete(p))
    <3>1. EventTypeOK'
      BY <1>3, <2>2 DEF CallerStep, Start, Publish, JoinLock, PthreadJoin, JoinUnlock, Cancel,
                        EventTypeOK, eventVars
    <3>2. thread' \in [Threads -> InternalThread]
      <4>1. CASE Start(p)
        BY <4>1 DEF Start
      <4>2. CASE Publish(p)
        BY <4>2 DEF Publish
      <4>3. CASE JoinLock(p)
        BY <4>3 DEF JoinLock
      <4>4. CASE PthreadJoin(p)
        BY <1>1, <4>4 DEF PthreadJoin
      <4>5. CASE JoinUnlock(p)
        BY <4>5 DEF JoinUnlock
      <4>6. CASE Cancel(p)
        BY <4>6 DEF Cancel
      <4> QED
        BY <1>3, <2>2, <4>1, <4>2, <4>3, <4>4, <4>5, <4>6 DEF CallerStep
    <3>3. pc' \in [Callers -> {"idle", "start", "publish", "cancel", "joinLock", "joining",
                               "joinUnlock", "delete"}]
      BY <1>3, <2>2 DEF CallerStep, Start, Publish, JoinLock, PthreadJoin, JoinUnlock, Cancel,
                        GoTo
    <3>4. UNCHANGED <<target, calls>>
      BY <1>3, <2>2 DEF CallerStep, Start, Publish, JoinLock, PthreadJoin, JoinUnlock, Cancel,
                        GoTo
    <3> QED
      BY <3>1, <3>2, <3>3, <3>4
  <2> QED
    BY <2>1, <2>2
<1>4. ASSUME NEW p \in Callers, NEW t \in Threads, CallerEnters(p, t) PROVE TypeOK'
  <2>1. EventTypeOK'
    BY <1>4 DEF CallerEnters, Create, CreateFails, CallJoin, CallCancel, Call, Destroy, EventTypeOK,
                eventVars
  <2>2. thread' \in [Threads -> InternalThread]
    <3>1. CASE CreateFails(p, t)
      BY <1>1, <3>1 DEF CreateFails
    <3>2. CASE Create(p, t)
      <4> DEFINE o == [thread[t] EXCEPT !.object = "allocated"]
      <4> HIDE DEF InternalThread
      <4>1. o \in InternalThread
        BY ObjectFields
      <4>2. [o EXCEPT !.runnable = "member"] \in InternalThread
        BY <4>1, ObjectFields
      <4>3. thread' = [thread EXCEPT ![t] = [o EXCEPT !.runnable = "member"]]
        BY <3>2 DEF Create
      <4> QED
        BY <4>2, <4>3
    <3>3. CASE CallJoin(p, t) \/ CallCancel(p, t)
      BY <3>3 DEF CallJoin, CallCancel, Call
    <3>4. CASE Destroy(p, t)
      BY <3>4 DEF Destroy
    <3> QED
      BY <1>4, <3>1, <3>2, <3>3, <3>4 DEF CallerEnters
  <2>3. /\ pc' \in [Callers -> {"idle", "start", "publish", "cancel", "joinLock", "joining",
                                "joinUnlock", "delete"}]
        /\ target' \in [Callers -> Threads]
    BY <1>4 DEF CallerEnters, Create, CreateFails, CallJoin, CallCancel, Call, Destroy, callerVars
  <2>4. calls' \in [Callers -> 0 .. MaxCalls]
    BY <1>4 DEF CallerEnters, Create, CreateFails, CallJoin, CallCancel, Call, Destroy, callerVars
  <2> QED
    BY <2>1, <2>2, <2>3, <2>4
<1>5. CASE UNCHANGED vars
  BY <1>5 DEF EventTypeOK, vars
<1>6. ASSUME NEW p \in Callers, CallThrows(p) PROVE TypeOK'
  BY <1>6 DEF CallThrows, GoTo, EventTypeOK, eventVars
<1> QED
  BY <1>2, <1>3, <1>4, <1>5, <1>6 DEF Next

\* Each step of a thread preserves the invariant.
LEMMA RunInvariant ==
    ASSUME IInv, NEW t \in Threads, RunStep(t)
    PROVE  IInv'
<1>0. TypeOK'
  BY TypeStep DEF Next
<1>. TypeOK /\ ObjectInv /\ StageInv /\ CallInv /\ ExclusionInv
  BY DEF IInv
<1> USE ThreadAssumption
    DEF TypeOK, InternalThread, ObjectInv, StageInv, CallInv,
        ExclusionInv, InCall, Stage, Threads, eventVars, callerVars
<1>1. CASE RunMove(t)
  <2>1. ObjectInv'
    BY <1>1 DEF RunMove
  <2>2. StageInv'
    BY <1>1 DEF RunMove
  <2>3. CallInv'
    BY <1>1 DEF RunMove
  <2>4. ExclusionInv'
    BY <1>1 DEF RunMove
  <2> QED
    BY <1>0, <2>1, <2>2, <2>3, <2>4 DEF IInv
<1>2. CASE RunReturns(t)
  <2>1. ObjectInv'
    BY <1>2 DEF RunReturns
  <2>2. StageInv'
    BY <1>2 DEF RunReturns
  <2>3. CallInv'
    BY <1>2 DEF RunReturns
  <2>4. ExclusionInv'
    BY <1>2 DEF RunReturns
  <2> QED
    BY <1>0, <2>1, <2>2, <2>3, <2>4 DEF IInv
<1>3. CASE RunFinish(t)
  <2>1. ObjectInv'
    BY <1>3 DEF RunFinish
  <2>2. StageInv'
    BY <1>3 DEF RunFinish
  <2>3. CallInv'
    BY <1>3 DEF RunFinish
  <2>4. ExclusionInv'
    BY <1>3 DEF RunFinish
  <2> QED
    BY <1>0, <2>1, <2>2, <2>3, <2>4 DEF IInv
<1>4. CASE RunUnlock(t)
  <2>1. ObjectInv'
    BY <1>4 DEF RunUnlock
  <2>2. StageInv'
    BY <1>4 DEF RunUnlock
  <2>3. CallInv'
    BY <1>4 DEF RunUnlock
  <2>4. ExclusionInv'
    BY <1>4 DEF RunUnlock
  <2> QED
    BY <1>0, <2>1, <2>2, <2>3, <2>4 DEF IInv
<1>5. CASE RunCleanup(t)
  <2>1. ObjectInv'
    BY <1>5 DEF RunCleanup
  <2>2. StageInv'
    BY <1>5 DEF RunCleanup
  <2>3. CallInv'
    BY <1>5 DEF RunCleanup
  <2>4. ExclusionInv'
    BY <1>5 DEF RunCleanup
  <2> QED
    BY <1>0, <2>1, <2>2, <2>3, <2>4 DEF IInv
<1>6. CASE RunDrained(t)
  <2>1. ObjectInv'
    BY <1>6 DEF RunDrained, ReadWouldBlock
  <2>2. StageInv'
    BY <1>6 DEF RunDrained, ReadWouldBlock
  <2>3. CallInv'
    BY <1>6 DEF RunDrained, ReadWouldBlock
  <2>4. ExclusionInv'
    BY <1>6 DEF RunDrained, ReadWouldBlock
  <2> QED
    BY <1>0, <2>1, <2>2, <2>3, <2>4 DEF IInv
<1>7. CASE RunWrite(t)
  <2>1. ObjectInv'
    BY <1>7 DEF RunWrite, WriteByte, Watching
  <2>2. StageInv'
    BY <1>7 DEF RunWrite, WriteByte, Watching
  <2>3. CallInv'
    BY <1>7 DEF RunWrite, WriteByte, Watching
  <2>4. ExclusionInv'
    BY <1>7 DEF RunWrite, WriteByte, Watching
  <2> QED
    BY <1>0, <2>1, <2>2, <2>3, <2>4 DEF IInv
<1>8. CASE RunExit(t)
  <2>1. ObjectInv'
    BY <1>8 DEF RunExit
  <2>2. StageInv'
    BY <1>8 DEF RunExit
  <2>3. CallInv'
    BY <1>8 DEF RunExit
  <2>4. ExclusionInv'
    BY <1>8 DEF RunExit
  <2> QED
    BY <1>0, <2>1, <2>2, <2>3, <2>4 DEF IInv
<1> QED
  BY <1>1, <1>2, <1>3, <1>4, <1>5, <1>6, <1>7, <1>8 DEF RunStep

\* Each step of a caller preserves the invariant.
LEMMA CallerInvariant ==
    ASSUME IInv, NEW p \in Callers,
           CallerStep(p) \/ CallThrows(p) \/ \E t \in Threads : CallerEnters(p, t)
    PROVE  IInv'
<1>0. TypeOK'
  BY TypeStep DEF Next
<1>. TypeOK /\ ObjectInv /\ StageInv /\ CallInv /\ ExclusionInv
  BY DEF IInv
<1> USE ThreadAssumption
    DEF TypeOK, InternalThread, ObjectInv, StageInv, CallInv,
        ExclusionInv, InCall, Stage, Threads, eventVars, callerVars, GoTo
<1>1. CASE Start(p)
  <2>1. ObjectInv'
    BY <1>1 DEF Start
  <2>2. StageInv'
    BY <1>1 DEF Start
  <2>3. CallInv'
    BY <1>1 DEF Start
  <2>4. ExclusionInv'
    BY <1>1 DEF Start
  <2> QED
    BY <1>0, <2>1, <2>2, <2>3, <2>4 DEF IInv
<1>2. CASE StartFails(p)
  <2>1. ObjectInv'
    BY <1>2 DEF StartFails, DestroyObject, ClosePipe, Watching
  <2>2. StageInv'
    BY <1>2 DEF StartFails, DestroyObject, ClosePipe, Watching
  <2>3. CallInv'
    BY <1>2 DEF StartFails, DestroyObject, ClosePipe, Watching
  <2>4. ExclusionInv'
    BY <1>2 DEF StartFails, DestroyObject, ClosePipe, Watching
  <2> QED
    BY <1>0, <2>1, <2>2, <2>3, <2>4 DEF IInv
<1>3. CASE Publish(p)
  <2>1. ObjectInv'
    BY <1>3 DEF Publish
  <2>2. StageInv'
    BY <1>3 DEF Publish
  <2>3. CallInv'
    BY <1>3 DEF Publish
  <2>4. ExclusionInv'
    BY <1>3 DEF Publish
  <2> QED
    BY <1>0, <2>1, <2>2, <2>3, <2>4 DEF IInv
<1>4. CASE JoinLock(p)
  <2>1. ObjectInv'
    BY <1>4 DEF JoinLock
  <2>2. StageInv'
    BY <1>4 DEF JoinLock
  <2>3. CallInv'
    BY <1>4 DEF JoinLock
  <2>4. ExclusionInv'
    BY <1>4 DEF JoinLock
  <2> QED
    BY <1>0, <2>1, <2>2, <2>3, <2>4 DEF IInv
<1>5. CASE PthreadJoin(p)
  <2>1. ObjectInv'
    BY <1>5 DEF PthreadJoin
  <2>2. StageInv'
    BY <1>5 DEF PthreadJoin
  <2>3. CallInv'
    BY <1>5 DEF PthreadJoin
  <2>4. ExclusionInv'
    BY <1>5 DEF PthreadJoin
  <2> QED
    BY <1>0, <2>1, <2>2, <2>3, <2>4 DEF IInv
<1>6. CASE JoinUnlock(p)
  <2>1. ObjectInv'
    BY <1>6 DEF JoinUnlock
  <2>2. StageInv'
    BY <1>6 DEF JoinUnlock
  <2>3. CallInv'
    BY <1>6 DEF JoinUnlock
  <2>4. ExclusionInv'
    BY <1>6 DEF JoinUnlock
  <2> QED
    BY <1>0, <2>1, <2>2, <2>3, <2>4 DEF IInv
<1>7. CASE Cancel(p)
  <2>1. ObjectInv'
    BY <1>7 DEF Cancel
  <2>2. StageInv'
    BY <1>7 DEF Cancel
  <2>3. CallInv'
    BY <1>7 DEF Cancel
  <2>4. ExclusionInv'
    BY <1>7 DEF Cancel
  <2> QED
    BY <1>0, <2>1, <2>2, <2>3, <2>4 DEF IInv
<1>8. CASE Delete(p)
  <2>1. ObjectInv'
    BY <1>8 DEF Delete, DestroyObject, ClosePipe, Watching
  <2>2. StageInv'
    BY <1>8 DEF Delete, DestroyObject, ClosePipe, Watching
  <2>3. CallInv'
    BY <1>8 DEF Delete, DestroyObject, ClosePipe, Watching
  <2>4. ExclusionInv'
    BY <1>8 DEF Delete, DestroyObject, ClosePipe, Watching
  <2> QED
    BY <1>0, <2>1, <2>2, <2>3, <2>4 DEF IInv
<1>9. ASSUME NEW t \in Threads, Create(p, t) PROVE IInv'
  <2>1. ObjectInv'
    BY <1>9 DEF Create
  <2>2. StageInv'
    BY <1>9 DEF Create
  <2>3. CallInv'
    BY <1>9 DEF Create
  <2>4. ExclusionInv'
    BY <1>9 DEF Create
  <2> QED
    BY <1>0, <2>1, <2>2, <2>3, <2>4 DEF IInv
<1>10. ASSUME NEW t \in Threads, CreateFails(p, t) PROVE IInv'
  <2>1. ObjectInv'
    BY <1>10 DEF CreateFails
  <2>2. StageInv'
    BY <1>10 DEF CreateFails
  <2>3. CallInv'
    BY <1>10 DEF CreateFails
  <2>4. ExclusionInv'
    BY <1>10 DEF CreateFails
  <2> QED
    BY <1>0, <2>1, <2>2, <2>3, <2>4 DEF IInv
<1>11. ASSUME NEW t \in Threads, CallJoin(p, t) PROVE IInv'
  <2>1. ObjectInv'
    BY <1>11 DEF CallJoin, Call
  <2>2. StageInv'
    BY <1>11 DEF CallJoin, Call
  <2>3. CallInv'
    BY <1>11 DEF CallJoin, Call
  <2>4. ExclusionInv'
    BY <1>11 DEF CallJoin, Call
  <2> QED
    BY <1>0, <2>1, <2>2, <2>3, <2>4 DEF IInv
<1>12. ASSUME NEW t \in Threads, CallCancel(p, t) PROVE IInv'
  <2>1. ObjectInv'
    BY <1>12 DEF CallCancel, Call
  <2>2. StageInv'
    BY <1>12 DEF CallCancel, Call
  <2>3. CallInv'
    BY <1>12 DEF CallCancel, Call
  <2>4. ExclusionInv'
    BY <1>12 DEF CallCancel, Call
  <2> QED
    BY <1>0, <2>1, <2>2, <2>3, <2>4 DEF IInv
<1>13. ASSUME NEW t \in Threads, Destroy(p, t) PROVE IInv'
  <2>1. ObjectInv'
    BY <1>13 DEF Destroy
  <2>2. StageInv'
    BY <1>13 DEF Destroy
  <2>3. CallInv'
    BY <1>13 DEF Destroy
  <2>4. ExclusionInv'
    BY <1>13 DEF Destroy
  <2> QED
    BY <1>0, <2>1, <2>2, <2>3, <2>4 DEF IInv
<1>14. CASE CallThrows(p)
  <2>1. ObjectInv'
    BY <1>14 DEF CallThrows
  <2>2. StageInv'
    BY <1>14 DEF CallThrows
  <2>3. CallInv'
    BY <1>14 DEF CallThrows
  <2>4. ExclusionInv'
    BY <1>14 DEF CallThrows
  <2> QED
    BY <1>0, <2>1, <2>2, <2>3, <2>4 DEF IInv
<1> QED
  BY <1>1, <1>2, <1>3, <1>4, <1>5, <1>6, <1>7, <1>8, <1>9, <1>10, <1>11, <1>12, <1>13, <1>14 DEF CallerStep, CallerEnters

\* Every step preserves the invariant.
LEMMA InvariantStep == IInv /\ [Next]_vars => IInv'
<1> SUFFICES ASSUME IInv, [Next]_vars PROVE IInv'
  OBVIOUS
<1>1. ASSUME NEW t \in Threads, RunStep(t) PROVE IInv'
  BY <1>1, RunInvariant
<1>2. ASSUME NEW p \in Callers,
             CallerStep(p) \/ CallThrows(p) \/ \E t \in Threads : CallerEnters(p, t)
      PROVE  IInv'
  BY <1>2, CallerInvariant
<1>3. CASE UNCHANGED vars
  BY <1>3 DEF IInv, TypeOK, EventTypeOK, ObjectInv, StageInv, CallInv, ExclusionInv, InCall,
              vars
<1> QED
  BY <1>1, <1>2, <1>3 DEF Next

LEMMA Invariant == Spec => []IInv
  BY InitInvariant, InvariantStep, PTL DEF Spec

-----------------------------------------------------------------------------
\* The fields of the objects, the callers and the kernel's objects keep their
\* types: the run() and join() code never counts past what it declares.
THEOREM TypeCorrect == Spec => []TypeOK
<1>1. IInv => TypeOK
  BY DEF IInv
<1> QED
  BY <1>1, Invariant, PTL

\* destroy_self() never frees an object that its thread, or a call of join() or
\* cancel(), may still use.
THEOREM ObjectsOutliveTheirUse == Spec => []NoUseAfterFree
<1>1. IInv => NoUseAfterFree
  BY DEF IInv, TypeOK, ObjectInv, CallInv, NoUseAfterFree, InCall
<1> QED
  BY <1>1, Invariant, PTL

\* joinMutex and has_joined let one pthread_join through.
THEOREM ThreadsAreJoinedOnce == Spec => []JoinedOnce
<1>1. IInv => JoinedOnce
  BY DEF IInv, TypeOK, InternalThread, ObjectInv, CallInv, JoinedOnce
<1> QED
  BY <1>1, Invariant, PTL

\* Every join() that returns, returns after the thread has exited.
THEOREM JoinWaitsForExit == Spec => JoinMeansExited
<1>1. IInv /\ [Next]_vars =>
        [\A p \in Callers : JoinUnlock(p) => thread[target[p]].stage = "exited"]_vars
  BY DEF IInv, TypeOK, ObjectInv, CallInv, JoinUnlock
<1> QED
  BY <1>1, Invariant, PTL DEF Spec, JoinMeansExited

\* The terminate event comes after is_finished and after the runnable's
\* destructor.
THEOREM EventComesLast == Spec => []EventMeansDone
<1>1. IInv => EventMeansDone
  BY DEF IInv, StageInv, EventMeansDone
<1> QED
  BY <1>1, Invariant, PTL

\* However creation fails and however far run() gets, the runnable's destructor
\* runs once.
THEOREM RunnablesAreDestroyedOnce == Spec => []DestroyedOnce
<1>1. IInv => DestroyedOnce
  BY DEF IInv, TypeOK, InternalThread, ObjectInv, DestroyedOnce
<1> QED
  BY <1>1, Invariant, PTL

\* The destructors of mutex and joinMutex find them free.
THEOREM MutexesAreDestroyedFree == Spec => []MutexesFreeWhenDestroyed
<1>1. IInv => MutexesFreeWhenDestroyed
  <2> SUFFICES ASSUME IInv, NEW p \in Callers, pc[p] = "delete"
               PROVE  /\ thread[target[p]].mutex = Nobody
                      /\ thread[target[p]].joinMutex = Nobody
    BY DEF MutexesFreeWhenDestroyed
  <2> DEFINE t == target[p]
  <2>1. t \in Threads /\ thread[t].joinMutex \in Callers \cup {Nobody}
    BY DEF IInv, TypeOK, InternalThread
  <2>2. thread[t].stage = "exited" /\ thread[t].object = "dying"
    BY DEF IInv, TypeOK, ObjectInv, CallInv
  <2>3. thread[t].mutex = Nobody
    BY <2>1, <2>2 DEF IInv, ObjectInv
  <2>4. ASSUME NEW q \in Callers, thread[t].joinMutex = q PROVE FALSE
    BY <2>1, <2>2, <2>4 DEF IInv, ExclusionInv, InCall
  <2> QED
    BY <2>1, <2>3, <2>4
<1> QED
  BY <1>1, Invariant, PTL

-----------------------------------------------------------------------------
(***************************************************************************)
(* ThreadsExample.                                                         *)
(***************************************************************************)
ControlInv ==
    /\ phase \in {"create", "insert", "check", "wait", "join", "destroy", "done"}
    /\ i \in 0 .. NumThreads
    /\ phase # "done" => i \in Threads
    /\ pc[Main] # "idle" => phase \in {"create", "join", "destroy"} /\ target[Main] = i
    /\ phase = "create" => pc[Main] \in {"idle", "start", "publish"}
    /\ phase = "join" => pc[Main] \in {"idle", "joinLock", "joining", "joinUnlock"}
    /\ phase = "destroy" => pc[Main] \notin {"start", "publish"}

\* Which objects exist: the threads of the array, from the first one on.
ArrayInv ==
    \A t \in Threads :
        /\ phase = "create" =>
               /\ t < i => thread[t].object = "shared"
               /\ t = i /\ pc[Main] = "idle" => thread[t].object = "absent"
               /\ t > i => thread[t].object = "absent"
        /\ phase \in {"insert", "check", "wait", "join"} => thread[t].object = "shared"
        /\ phase = "destroy" =>
               /\ t < i => thread[t].object = "shared"
               /\ t = i => thread[t].object = IF pc[Main] = "idle" THEN "shared" ELSE "dying"
               /\ t > i => thread[t].object \in {"absent", "freed"}
        /\ phase = "done" => thread[t].object \in {"absent", "freed"}

\* An event that the polls so far have not seen.
Unseen(t) == bytes[t] = 0 \/ <<Main, t>> \in ready

\* The wait set has every source from the time it is used, and a poll that
\* found a thread running leaves that thread's event to the next wait.
PollInv ==
    /\ phase = "insert" => \A t \in Threads : t < i => <<Main, t>> \in inserted
    /\ phase \in {"check", "wait"} => \A t \in Threads : <<Main, t>> \in inserted
    /\ phase = "check" /\ i > 1 /\ anyRunning => \E t \in Threads : t < i /\ Unseen(t)
    /\ phase = "wait" => \E t \in Threads : Unseen(t)

ExampleInv == IInv /\ ControlInv /\ ArrayInv /\ PollInv

-----------------------------------------------------------------------------
\* The wait set's own steps change nothing that Thread's invariant speaks of.
LEMMA WaitSetStep ==
    ASSUME IInv, EventTypeOK', UNCHANGED <<bytes, thread, callerVars>>
    PROVE  IInv'
<1> USE DEF IInv, callerVars
<1>1. TypeOK'
  BY DEF TypeOK
<1>2. ObjectInv' /\ StageInv'
  BY DEF ObjectInv, StageInv
<1>3. CallInv' /\ ExclusionInv'
  BY DEF CallInv, ExclusionInv, InCall
<1> QED
  BY <1>1, <1>2, <1>3

\* What a wait that returns or sleeps on leaves of the ready list.
LEMMA WaitEffect ==
    ASSUME EventTypeOK, WaitReturns(Main) \/ WaitFindsNothing(Main)
    PROVE  EventTypeOK' /\ UNCHANGED <<bytes, inserted>>
BY DEF EventTypeOK, WaitReturns, WaitFindsNothing, TakeReady

\* A step of a thread changes no object's state, and no event that was not
\* seen is lost.
LEMMA RunEffect ==
    ASSUME TypeOK, NEW t \in Threads, RunStep(t)
    PROVE  /\ \A u \in Threads : thread'[u].object = thread[u].object
           /\ UNCHANGED <<pc, target, calls, inserted>>
           /\ \A u \in Threads : <<Main, u>> \in inserted /\ Unseen(u) => Unseen(u)'
<1> USE DEF TypeOK, InternalThread, Stage, callerVars, eventVars
<1>1. CASE RunWrite(t)
  <2>1. \A u \in Threads : thread'[u].object = thread[u].object
    BY <1>1 DEF RunWrite
  <2>2. UNCHANGED <<pc, target, calls, inserted>>
    BY <1>1 DEF RunWrite, WriteByte
  <2>3. ASSUME NEW u \in Threads, <<Main, u>> \in inserted, Unseen(u) PROVE Unseen(u)'
    <3>1. CASE u = t
      BY <1>1, <2>3, <3>1, ExampleAssumption DEF RunWrite, WriteByte, Watching, Unseen, Threads,
                                                 EventTypeOK
    <3>2. CASE u # t
      BY <1>1, <2>3, <3>2 DEF RunWrite, WriteByte, Unseen, Threads, EventTypeOK
    <3> QED
      BY <3>1, <3>2
  <2> QED
    BY <2>1, <2>2, <2>3
<1>2. CASE ~RunWrite(t)
  <2>1. \A u \in Threads : thread'[u].object = thread[u].object
    <3>1. CASE RunMove(t) \/ RunReturns(t) \/ RunFinish(t)
      BY <3>1 DEF RunMove, RunReturns, RunFinish
    <3>2. CASE RunUnlock(t) \/ RunCleanup(t)
      BY <3>2 DEF RunUnlock, RunCleanup
    <3>3. CASE RunDrained(t) \/ RunExit(t)
      BY <3>3 DEF RunDrained, RunExit
    <3> QED
      BY <1>2, <3>1, <3>2, <3>3 DEF RunStep
  <2>2. UNCHANGED <<pc, target, calls, inserted, bytes, ready>>
    BY <1>2 DEF RunStep, RunMove, RunReturns, RunFinish, RunUnlock, RunCleanup, RunDrained, RunExit,
                ReadWouldBlock
  <2> QED
    BY <2>1, <2>2 DEF Unseen
<1> QED
  BY <1>1, <1>2

-----------------------------------------------------------------------------
LEMMA ExampleInitInvariant == ExampleInit => ExampleInv
<1> SUFFICES ASSUME ExampleInit PROVE ExampleInv
  OBVIOUS
<1>1. IInv
  BY InitInvariant DEF ExampleInit
<1>2. phase = "create" /\ i = 1 /\ anyRunning = FALSE /\ pc[Main] = "idle"
  BY ExampleAssumption DEF ExampleInit, Init
<1>3. \A t \in Threads : thread[t].object = "absent"
  BY DEF ExampleInit, Init
<1>4. ControlInv
  BY <1>2, ExampleAssumption DEF ControlInv
<1>5. ArrayInv
  BY <1>2, <1>3, ExampleAssumption DEF ArrayInv
<1>6. PollInv
  BY <1>2, ExampleAssumption DEF PollInv
<1> QED
  BY <1>1, <1>4, <1>5, <1>6 DEF ExampleInv

\* The steps that the example takes of Thread keep Thread's invariant.
LEMMA ThreadPart ==
    ASSUME ExampleInv, [ExampleNext]_allVars
    PROVE  IInv'
<1> USE DEF ExampleInv
<1>0. Main \in Callers /\ EventTypeOK
  BY ExampleAssumption DEF IInv, TypeOK
<1>1. CASE MainCreate
  <2>1. i \in Threads
    BY <1>1 DEF ControlInv, MainCreate
  <2>2. Next
    BY <1>0, <1>1, <2>1 DEF MainCreate, Next, CallerStep, CallerEnters
  <2> QED
    BY <2>2, InvariantStep
<1>2. CASE MainInsert
  <2>1. i \in Threads
    BY <1>2 DEF ControlInv, MainInsert
  <2>2. EventTypeOK' /\ UNCHANGED <<bytes, thread, callerVars>>
    BY <1>0, <1>2, <2>1, ExampleAssumption DEF MainInsert, Insert, EventTypeOK, eventVars, Threads
  <2> QED
    BY <2>2, WaitSetStep
<1>3. CASE MainCheck
  BY <1>0, <1>3, WaitSetStep DEF MainCheck, eventVars, EventTypeOK
<1>4. CASE MainWait
  BY <1>0, <1>4, WaitEffect, WaitSetStep DEF MainWait
<1>5. CASE MainSleepOn
  BY <1>0, <1>5, WaitEffect, WaitSetStep DEF MainSleepOn
<1>6. CASE MainJoin
  <2>1. i \in Threads
    BY <1>6 DEF ControlInv, MainJoin
  <2>2. Next
    BY <1>0, <1>6, <2>1 DEF MainJoin, Next, CallerStep, CallerEnters
  <2> QED
    BY <2>2, InvariantStep
<1>7. CASE MainDestroy
  <2>1. i \in Threads
    BY <1>7 DEF ControlInv, MainDestroy
  <2>2. Next
    BY <1>0, <1>7, <2>1 DEF MainDestroy, Next, CallerStep, CallerEnters
  <2> QED
    BY <2>2, InvariantStep
<1>8. ASSUME NEW t \in Threads, ThreadStep(t) PROVE IInv'
  BY <1>8, InvariantStep DEF ThreadStep, Next
<1>9. CASE UNCHANGED allVars
  BY <1>9, InvariantStep DEF allVars, vars
<1>10. CASE MainThrows
  <2>1. CASE UNCHANGED <<eventVars, thread, callerVars>>
    BY <1>0, <2>1, WaitSetStep DEF eventVars, EventTypeOK
  <2>2. CASE CallThrows(Main)
    BY <1>0, <2>2, InvariantStep DEF Next
  <2> QED
    BY <1>10, <2>1, <2>2 DEF MainThrows
<1> QED
  BY <1>1, <1>2, <1>3, <1>4, <1>5, <1>6, <1>7, <1>8, <1>9, <1>10 DEF ExampleNext, MainStep

\* How the calls that the main thread makes change the state of one object.
LEMMA CallEffect ==
    ASSUME TypeOK, NEW t \in Threads
    PROVE  /\ Create(Main, t) =>
                  /\ thread[t].object = "absent" /\ thread'[t].object = "allocated"
                  /\ pc'[Main] = "start" /\ target'[Main] = t
           /\ CreateFails(Main, t) =>
                  pc[Main] = "idle" /\ thread'[t].object = "freed" /\ UNCHANGED <<pc, target>>
           /\ Destroy(Main, t) =>
                  /\ pc[Main] = "idle" /\ thread'[t].object = "dying"
                  /\ pc'[Main] = "cancel" /\ target'[Main] = t
           /\ Create(Main, t) \/ CreateFails(Main, t) \/ Destroy(Main, t) =>
                  \A u \in Threads : u # t => thread'[u] = thread[u]
           /\ CallJoin(Main, t) =>
                  UNCHANGED thread /\ pc'[Main] = "joinLock" /\ target'[Main] = t
<1>1. Main \in Callers
  BY ExampleAssumption
<1> USE <1>1 DEF TypeOK, InternalThread
<1>2. Create(Main, t) =>
          /\ thread[t].object = "absent" /\ thread'[t].object = "allocated"
          /\ pc'[Main] = "start" /\ target'[Main] = t
  BY DEF Create
<1>3. CreateFails(Main, t) =>
          pc[Main] = "idle" /\ thread'[t].object = "freed" /\ UNCHANGED <<pc, target>>
  BY DEF CreateFails, callerVars
<1>4. Destroy(Main, t) =>
          /\ pc[Main] = "idle" /\ thread'[t].object = "dying"
          /\ pc'[Main] = "cancel" /\ target'[Main] = t
  BY DEF Destroy
<1>5. Create(Main, t) \/ CreateFails(Main, t) \/ Destroy(Main, t) =>
          \A u \in Threads : u # t => thread'[u] = thread[u]
  BY DEF Create, CreateFails, Destroy
<1>6. CallJoin(Main, t) => UNCHANGED thread /\ pc'[Main] = "joinLock" /\ target'[Main] = t
  BY DEF CallJoin, Call
<1> QED
  BY <1>2, <1>3, <1>4, <1>5, <1>6

LEMMA CallStepEffect ==
    ASSUME TypeOK
    PROVE  /\ CallerStep(Main) => UNCHANGED target
           /\ Start(Main) =>
                  /\ pc[Main] = "start" /\ pc'[Main] = "publish"
                  /\ \A u \in Threads : thread'[u].object = thread[u].object
           /\ StartFails(Main) \/ Delete(Main) =>
                  /\ pc[Main] # "idle" /\ pc'[Main] = "idle"
                  /\ \A u \in Threads : thread'[u].object =
                         IF u = target[Main] THEN "freed" ELSE thread[u].object
           /\ Publish(Main) =>
                  /\ pc[Main] = "publish" /\ pc'[Main] = "idle"
                  /\ \A u \in Threads : thread'[u].object =
                         IF u = target[Main] THEN "shared" ELSE thread[u].object
           /\ JoinLock(Main) \/ PthreadJoin(Main) \/ Cancel(Main) \/ JoinUnlock(Main) =>
                  \A u \in Threads : thread'[u].object = thread[u].object
           /\ JoinLock(Main) \/ PthreadJoin(Main) =>
                  pc[Main] # "idle" /\ pc'[Main] \in {"joining", "joinUnlock"}
           /\ JoinUnlock(Main) =>
                  /\ pc[Main] = "joinUnlock"
                  /\ pc'[Main] = IF thread[target[Main]].object = "dying" THEN "delete" ELSE "idle"
           /\ Cancel(Main) =>
                  /\ pc[Main] = "cancel"
                  /\ pc'[Main] = IF thread[target[Main]].object = "dying" THEN "joinLock" ELSE "idle"
           /\ CallThrows(Main) =>
                  /\ pc'[Main] = "idle"
                  /\ \A u \in Threads : thread'[u].object = thread[u].object
<1>0. Main \in Callers /\ target[Main] \in Threads
  BY ExampleAssumption DEF TypeOK
<1> USE <1>0 DEF TypeOK, InternalThread, GoTo
<1>1. CallerStep(Main) => UNCHANGED target
  BY DEF CallerStep, Start, StartFails, Publish, JoinLock, PthreadJoin, JoinUnlock, Cancel, Delete
<1>2. Start(Main) =>
          /\ pc[Main] = "start" /\ pc'[Main] = "publish"
          /\ \A u \in Threads : thread'[u].object = thread[u].object
  BY DEF Start
<1>3. StartFails(Main) \/ Delete(Main) =>
          /\ pc[Main] # "idle" /\ pc'[Main] = "idle"
          /\ \A u \in Threads : thread'[u].object =
                 IF u = target[Main] THEN "freed" ELSE thread[u].object
  BY DEF StartFails, Delete, DestroyObject
<1>4. Publish(Main) =>
          /\ pc[Main] = "publish" /\ pc'[Main] = "idle"
          /\ \A u \in Threads : thread'[u].object =
                 IF u = target[Main] THEN "shared" ELSE thread[u].object
  BY DEF Publish
<1>5. JoinLock(Main) \/ PthreadJoin(Main) \/ Cancel(Main) \/ JoinUnlock(Main) =>
          \A u \in Threads : thread'[u].object = thread[u].object
  BY DEF JoinLock, PthreadJoin, Cancel, JoinUnlock
<1>6. JoinLock(Main) \/ PthreadJoin(Main) =>
          pc[Main] # "idle" /\ pc'[Main] \in {"joining", "joinUnlock"}
  BY DEF JoinLock, PthreadJoin
<1>7. /\ JoinUnlock(Main) =>
             /\ pc[Main] = "joinUnlock"
             /\ pc'[Main] = IF thread[target[Main]].object = "dying" THEN "delete" ELSE "idle"
      /\ Cancel(Main) =>
             /\ pc[Main] = "cancel"
             /\ pc'[Main] = IF thread[target[Main]].object = "dying" THEN "joinLock" ELSE "idle"
  BY DEF JoinUnlock, Cancel
<1>8. CallThrows(Main) =>
          /\ pc'[Main] = "idle"
          /\ \A u \in Threads : thread'[u].object = thread[u].object
  BY DEF CallThrows
<1> QED
  BY <1>1, <1>2, <1>3, <1>4, <1>5, <1>6, <1>7, <1>8

\* Each step of the loop that creates the threads.
LEMMA CreateInvariant ==
    ASSUME ExampleInv, MainCreate
    PROVE  ControlInv' /\ ArrayInv' /\ PollInv'
<1>0. TypeOK /\ Main \in Callers /\ phase = "create" /\ i \in Threads
  BY ExampleAssumption DEF ExampleInv, IInv, ControlInv, MainCreate
<1> USE <1>0, ExampleAssumption, CallEffect, CallStepEffect
    DEF ExampleInv, ControlInv, ArrayInv, PollInv, Loop, NextIndex, Unwind, exampleVars
<1>1. CASE Create(Main, i) /\ UNCHANGED exampleVars
  BY <1>1
<1>2. CASE Start(Main) /\ UNCHANGED exampleVars
  BY <1>2 DEF CallerStep
<1>3. CASE CreateFails(Main, i) /\ Unwind(i - 1) /\ UNCHANGED anyRunning
  BY <1>3
<1>4. CASE StartFails(Main) /\ Unwind(i - 1) /\ UNCHANGED anyRunning
  BY <1>4 DEF CallerStep
<1>5. CASE Publish(Main) /\ NextIndex("create", "insert") /\ UNCHANGED anyRunning
  BY <1>5 DEF CallerStep
<1>6. CASE Publish(Main) /\ Unwind(i) /\ UNCHANGED anyRunning
  BY <1>6 DEF CallerStep
<1> QED
  BY <1>1, <1>2, <1>3, <1>4, <1>5, <1>6 DEF MainCreate

\* Each step of the loops that insert the sources, poll them and wait.
LEMMA WaitSetInvariant ==
    ASSUME ExampleInv, MainInsert \/ MainCheck \/ MainWait \/ MainSleepOn
    PROVE  ControlInv' /\ ArrayInv' /\ PollInv'
<1>0. /\ EventTypeOK /\ Main \in Callers /\ phase \in {"insert", "check", "wait"}
      /\ i \in Threads /\ pc[Main] = "idle"
  BY ExampleAssumption
  DEF ExampleInv, IInv, TypeOK, ControlInv, MainInsert, MainCheck, MainWait, MainSleepOn
<1>1. UNCHANGED <<thread, pc, target, bytes>>
  BY <1>0, WaitEffect DEF MainInsert, MainCheck, MainWait, MainSleepOn, Insert, eventVars, callerVars
<1>2. ArrayInv' /\ ControlInv'
  BY <1>0, <1>1, ExampleAssumption
  DEF ExampleInv, ControlInv, ArrayInv, MainInsert, MainCheck, MainWait, MainSleepOn, Loop,
      NextIndex, Unwind, exampleVars
<1>3. PollInv'
  <2> USE <1>0, <1>1, ExampleAssumption DEF ExampleInv, PollInv, Unseen, Loop, NextIndex, Unwind
  <2>1. CASE MainInsert
    BY <2>1 DEF MainInsert, Insert
  <2>2. CASE MainCheck
    <3>1. CASE Unwind(NumThreads)
      BY <3>1
    <3>2. CASE LET running == (i > 1 /\ anyRunning) \/ bytes[i] = 0
               IN  anyRunning' = running
                   /\ NextIndex("check", IF running THEN "wait" ELSE "join")
      <4>1. CASE ~((i > 1 /\ anyRunning) \/ bytes[i] = 0)
        BY <2>2, <3>2, <4>1 DEF MainCheck, eventVars
      <4>2. CASE (i > 1 /\ anyRunning) \/ bytes[i] = 0
        <5>1. PICK t \in Threads : t <= i /\ Unseen(t)
          BY <2>2, <4>2 DEF MainCheck
        <5> QED
          BY <2>2, <3>2, <4>2, <5>1 DEF MainCheck, eventVars
      <4> QED
        BY <4>1, <4>2
    <3> QED
      BY <2>2, <3>1, <3>2 DEF MainCheck
  <2>3. CASE MainWait
    BY <2>3, WaitEffect DEF MainWait
  <2>4. CASE MainSleepOn
    <3>1. PICK t \in Threads : Unseen(t)
      BY <2>4 DEF MainSleepOn
    <3>2. bytes[t] = 0
      BY <2>4, <3>1 DEF MainSleepOn, WaitFindsNothing, Readable, OnReadyList, EventTypeOK, Threads
    <3> QED
      BY <2>4, <3>2, WaitEffect DEF MainSleepOn, exampleVars
  <2> QED
    BY <2>1, <2>2, <2>3, <2>4
<1> QED
  BY <1>2, <1>3

\* Each step of the loop that joins the threads.
LEMMA JoinInvariant ==
    ASSUME ExampleInv, MainJoin
    PROVE  ControlInv' /\ ArrayInv' /\ PollInv'
<1>0. TypeOK /\ Main \in Callers /\ phase = "join" /\ i \in Threads
  BY ExampleAssumption DEF ExampleInv, IInv, ControlInv, MainJoin
<1> USE <1>0, ExampleAssumption, CallEffect, CallStepEffect
    DEF ExampleInv, ControlInv, ArrayInv, PollInv, Loop, Unwind, exampleVars
<1>1. CASE CallJoin(Main, i) /\ UNCHANGED exampleVars
  BY <1>1
<1>2. CASE (JoinLock(Main) \/ PthreadJoin(Main)) /\ UNCHANGED exampleVars
  BY <1>2 DEF CallerStep
<1>3. CASE JoinUnlock(Main) /\ IF i < NumThreads THEN Loop("join", i + 1) ELSE Unwind(NumThreads)
  BY <1>3 DEF CallerStep
<1> QED
  BY <1>1, <1>2, <1>3 DEF MainJoin

\* wait() or join() throws, and the threads of the array will be destroyed.
LEMMA ThrowsInvariant ==
    ASSUME ExampleInv, MainThrows
    PROVE  ControlInv' /\ ArrayInv' /\ PollInv'
<1>0. /\ TypeOK /\ Main \in Callers /\ phase \in {"wait", "join"}
      /\ NumThreads \in Threads /\ phase' = "destroy" /\ i' = NumThreads
  BY ExampleAssumption DEF ExampleInv, IInv, ControlInv, MainThrows, Unwind, Loop
<1>1. pc'[Main] = "idle" /\ \A t \in Threads : thread'[t].object = thread[t].object
  BY <1>0, CallStepEffect DEF ExampleInv, ControlInv, MainThrows, callerVars
<1> QED
  BY <1>0, <1>1, ExampleAssumption DEF ExampleInv, ControlInv, ArrayInv, PollInv

\* Each step of the loop that destroys the threads.
LEMMA DestroyInvariant ==
    ASSUME ExampleInv, MainDestroy
    PROVE  ControlInv' /\ ArrayInv' /\ PollInv'
<1>0. TypeOK /\ Main \in Callers /\ phase = "destroy" /\ i \in Threads
  BY ExampleAssumption DEF ExampleInv, IInv, ControlInv, MainDestroy
<1> USE <1>0, ExampleAssumption, CallEffect, CallStepEffect
    DEF ExampleInv, ControlInv, ArrayInv, PollInv, Loop, Unwind, exampleVars
<1>1. CASE Destroy(Main, i) /\ UNCHANGED exampleVars
  BY <1>1
<1>2. CASE Cancel(Main) /\ UNCHANGED exampleVars
  BY <1>2 DEF CallerStep
<1>3. CASE (JoinLock(Main) \/ PthreadJoin(Main) \/ JoinUnlock(Main)) /\ UNCHANGED exampleVars
  BY <1>3 DEF CallerStep
<1>4. CASE Delete(Main) /\ Unwind(i - 1)
  BY <1>4 DEF CallerStep
<1> QED
  BY <1>1, <1>2, <1>3, <1>4 DEF MainDestroy

\* Every step preserves the invariant.
LEMMA ExampleInvariantStep == ExampleInv /\ [ExampleNext]_allVars => ExampleInv'
<1> SUFFICES ASSUME ExampleInv, [ExampleNext]_allVars PROVE ExampleInv'
  OBVIOUS
<1>1. IInv'
  BY ThreadPart
<1>2. CASE MainStep \/ MainSleepOn \/ MainThrows
  BY <1>1, <1>2, CreateInvariant, WaitSetInvariant, JoinInvariant, ThrowsInvariant, DestroyInvariant
  DEF MainStep, ExampleInv
<1>3. ASSUME NEW t \in Threads, ThreadStep(t) PROVE ExampleInv'
  <2>1. TypeOK /\ UNCHANGED exampleVars /\ RunStep(t)
    BY <1>3 DEF ThreadStep, ExampleInv, IInv
  <2>2. ControlInv' /\ ArrayInv'
    BY <2>1, RunEffect DEF ExampleInv, ControlInv, ArrayInv, exampleVars
  <2>3. PollInv'
    <3>1. /\ UNCHANGED <<inserted, phase, i, anyRunning>>
          /\ \A u \in Threads : <<Main, u>> \in inserted /\ Unseen(u) => Unseen(u)'
      BY <2>1, RunEffect DEF exampleVars
    <3> QED
      BY <3>1 DEF ExampleInv, PollInv
  <2> QED
    BY <1>1, <2>2, <2>3 DEF ExampleInv
<1>4. CASE UNCHANGED allVars
  BY <1>1, <1>4 DEF allVars, ExampleInv, ControlInv, ArrayInv, PollInv, Unseen
<1> QED
  BY <1>2, <1>3, <1>4 DEF ExampleNext

LEMMA ExampleInvariant == ExampleSpec => []ExampleInv
  BY ExampleInitInvariant, ExampleInvariantStep, PTL DEF ExampleSpec

-----------------------------------------------------------------------------
\* The main thread never sleeps through the last terminate event: a poll that
\* found a thread running leaves that thread's event on the ready list.
THEOREM LastTerminationWakes == ExampleSpec => []TerminationNotMissed
<1>1. ExampleInv => TerminationNotMissed
  <2> SUFFICES ASSUME ExampleInv, phase = "wait", \A t \in Threads : bytes[t] > 0
               PROVE  Readable(OnReadyList(Main)) # {}
    BY DEF TerminationNotMissed
  <2>1. PICK t \in Threads : Unseen(t)
    BY DEF ExampleInv, PollInv
  <2>2. bytes \in [Threads -> Nat]
    BY DEF ExampleInv, IInv, TypeOK, EventTypeOK, Threads
  <2>3. t \in Readable(OnReadyList(Main))
    BY <2>1, <2>2 DEF Unseen, Readable, OnReadyList, Threads
  <2> QED
    BY <2>3
<1> QED
  BY <1>1, ExampleInvariant, PTL

\* However runThreadsExample ends, no thread of it runs and no object of it is
\* left.
THEOREM ExampleCleansUp == ExampleSpec => []NothingLeftBehind
<1>1. ExampleInv => NothingLeftBehind
  BY DEF ExampleInv, IInv, ArrayInv, ObjectInv, NothingLeftBehind
<1> QED
  BY <1>1, ExampleInvariant, PTL
=============================================================================
