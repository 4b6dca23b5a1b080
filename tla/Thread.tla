------------------------------- MODULE Thread -------------------------------
(***************************************************************************)
(* std.concurrency's thread: an internal_thread object on the heap, shared *)
(* by the thread that runs it and the threads that hold a reference to it. *)
(* Callers create threads, join() and cancel() them, several at once, and  *)
(* destroy them; the destructor joins and then frees the object.           *)
(*                                                                         *)
(* A new thread runs the runnable, sets is_finished under the mutex,       *)
(* destroys the runnable, and last of all notifies terminate_generator, by *)
(* which time the event and is_finished tell others that it is over while  *)
(* it still uses the object.                                               *)
(*                                                                         *)
(* A thread's terminate_generator is the generator of the thread's name.   *)
(***************************************************************************)
EXTENDS EventSource

CONSTANTS
    Callers,    \* the threads that use thread objects
    Nobody,     \* the holder of a free mutex
    MaxCalls    \* bound: calls of join() and cancel() that each caller makes

Threads == Generators

ASSUME ThreadAssumption ==
    /\ Nobody \notin Callers \cup Threads
    /\ MaxCalls \in Nat

VARIABLES
    thread,     \* the internal_thread objects, with the state of their thread
    pc, target, \* where each caller is, and with which thread
    calls       \* how many calls of join() and cancel() each has made

callerVars == <<pc, target, calls>>
vars       == <<bytes, inserted, ready, thread, pc, target, calls>>

InternalThread == [
    object:      {"absent", "allocated", "shared", "dying", "freed"},
    stage:       {"none", "begin", "run", "finish", "unlock", "cleanup", "drain", "write",
                  "return", "exited"},
    runnable:    {"creator", "member", "local", "destroyed"},   \* where it is
    is_finished: BOOLEAN,
    has_joined:  BOOLEAN,
    mutex:       Threads \cup {Nobody},     \* its holder
    joinMutex:   Callers \cup {Nobody},     \* its holder
    destroys:    0 .. 2,    \* history: destructor calls on the runnable
    joins:       0 .. 2]    \* history: pthread_joins that returned

TypeOK ==
    /\ EventTypeOK
    /\ thread \in [Threads -> InternalThread]
    /\ pc \in [Callers -> {"idle", "start", "publish", "cancel", "joinLock", "joining",
                           "joinUnlock", "delete"}]
    /\ target \in [Callers -> Threads]
    /\ calls \in [Callers -> 0 .. MaxCalls]

Init ==
    /\ EventInit
    /\ thread = [t \in Threads |->
                    [object |-> "absent", stage |-> "none", runnable |-> "creator",
                     is_finished |-> FALSE, has_joined |-> FALSE,
                     mutex |-> Nobody, joinMutex |-> Nobody,
                     destroys |-> 0, joins |-> 0]]
    /\ pc = [p \in Callers |-> "idle"]
    /\ target \in [Callers -> Threads]
    /\ calls = [p \in Callers |-> 0]

GoTo(p, l) == pc' = [pc EXCEPT ![p] = l] /\ UNCHANGED <<target, calls>>

\* The destructor of an internal_thread, and the release of its memory.  A
\* runnable that run() has moved away is dead, and is not destroyed again.
DestroyObject(t) ==
    /\ thread' = IF thread[t].runnable = "member"
                 THEN [thread EXCEPT ![t].object = "freed",
                                     ![t].runnable = "destroyed", ![t].destroys = @ + 1]
                 ELSE [thread EXCEPT ![t].object = "freed"]
    /\ ClosePipe(t)

-----------------------------------------------------------------------------
\* thread::create

\* The internal_thread is constructed and moved to the heap.
Create(p, t) ==
    /\ pc[p] = "idle" /\ thread[t].object = "absent"
    /\ thread' = [thread EXCEPT ![t].object = "allocated", ![t].runnable = "member"]
    /\ target' = [target EXCEPT ![p] = t]
    /\ pc' = [pc EXCEPT ![p] = "start"]
    /\ UNCHANGED <<eventVars, calls>>

\* A mutex, the pipe or the memory cannot be had; what was made is destroyed.
CreateFails(p, t) ==
    /\ pc[p] = "idle" /\ thread[t].object = "absent"
    /\ thread' = [thread EXCEPT ![t].object = "freed",
                                ![t].runnable = "destroyed", ![t].destroys = @ + 1]
    /\ UNCHANGED <<eventVars, callerVars>>

\* start(): pthread_create, after which the new thread may run at any time ...
Start(p) ==
    /\ pc[p] = "start"
    /\ thread' = [thread EXCEPT ![target[p]].stage = "begin"]
    /\ GoTo(p, "publish")
    /\ UNCHANGED eventVars

\* ... or create_failed is thrown and the unique_ptr destroys the object.
StartFails(p) ==
    /\ pc[p] = "start"
    /\ DestroyObject(target[p])
    /\ GoTo(p, "idle")

\* The unique_ptr is released into the thread returned to the caller.
Publish(p) ==
    /\ pc[p] = "publish"
    /\ thread' = [thread EXCEPT ![target[p]].object = "shared"]
    /\ GoTo(p, "idle")
    /\ UNCHANGED eventVars

-----------------------------------------------------------------------------
\* run(), on the new thread.

Stage(t, l) == thread[t].stage = l

\* T runnable = move @runnable
RunMove(t) ==
    /\ Stage(t, "begin")
    /\ thread' = [thread EXCEPT ![t].stage = "run", ![t].runnable = "local"]
    /\ UNCHANGED <<eventVars, callerVars>>

\* runnable.run() returns.
RunReturns(t) ==
    /\ Stage(t, "run")
    /\ thread' = [thread EXCEPT ![t].stage = "finish"]
    /\ UNCHANGED <<eventVars, callerVars>>

\* The mutex is locked and is_finished set.
RunFinish(t) ==
    /\ Stage(t, "finish")
    /\ thread[t].mutex = Nobody
    /\ thread' = [thread EXCEPT ![t].stage = "unlock", ![t].mutex = t,
                                ![t].is_finished = TRUE]
    /\ UNCHANGED <<eventVars, callerVars>>

\* Mutant of RunUnlock: the event is made inside the block.
RunUnlockNotifies(t) ==
    /\ Stage(t, "unlock")
    /\ thread' = [thread EXCEPT ![t].stage = "drain", ![t].mutex = Nobody]
    /\ UNCHANGED <<eventVars, callerVars>>

\* At the end of the block the lock is destroyed, and then the runnable.
RunUnlock(t) ==
    /\ Stage(t, "unlock")
    /\ thread' = [thread EXCEPT ![t].stage = "cleanup", ![t].mutex = Nobody]
    /\ UNCHANGED <<eventVars, callerVars>>

RunCleanup(t) ==
    /\ Stage(t, "cleanup")
    /\ thread' = [thread EXCEPT ![t].stage = "drain",
                                ![t].runnable = "destroyed", ![t].destroys = @ + 1]
    /\ UNCHANGED <<eventVars, callerVars>>

\* terminate_generator.notify()
RunDrained(t) ==
    /\ Stage(t, "drain")
    /\ ReadWouldBlock(t)
    /\ thread' = [thread EXCEPT ![t].stage = "write"]
    /\ UNCHANGED callerVars

RunWrite(t) ==
    /\ Stage(t, "write")
    /\ WriteByte(t)
    /\ thread' = [thread EXCEPT ![t].stage = "return"]
    /\ UNCHANGED callerVars

\* threadFunction returns.
RunExit(t) ==
    /\ Stage(t, "return")
    /\ thread' = [thread EXCEPT ![t].stage = "exited"]
    /\ UNCHANGED <<eventVars, callerVars>>

-----------------------------------------------------------------------------
\* join() and cancel(), on a reference to the thread.

Call(p, t, l) ==
    /\ pc[p] = "idle" /\ thread[t].object = "shared"
    /\ calls[p] < MaxCalls
    /\ pc' = [pc EXCEPT ![p] = l]
    /\ target' = [target EXCEPT ![p] = t]
    /\ calls' = [calls EXCEPT ![p] = @ + 1]
    /\ UNCHANGED <<eventVars, thread>>

CallJoin(p, t)   == Call(p, t, "joinLock")
CallCancel(p, t) == Call(p, t, "cancel")

\* Mutants of JoinLock: no joinMutex; and has_joined set, and joinMutex released,
\* before pthread_join.
JoinWithoutLock(p) ==
    /\ pc[p] = "joinLock"
    /\ GoTo(p, IF thread[target[p]].has_joined THEN "joinUnlock" ELSE "joining")
    /\ UNCHANGED <<eventVars, thread>>

JoinMarksEarly(p) ==
    /\ pc[p] = "joinLock"
    /\ thread' = [thread EXCEPT ![target[p]].has_joined = TRUE]
    /\ GoTo(p, IF thread[target[p]].has_joined THEN "joinUnlock" ELSE "joining")
    /\ UNCHANGED eventVars

\* joinMutex is locked and has_joined read.
JoinLock(p) ==
    /\ pc[p] = "joinLock"
    /\ thread[target[p]].joinMutex = Nobody
    /\ thread' = [thread EXCEPT ![target[p]].joinMutex = p]
    /\ GoTo(p, IF thread[target[p]].has_joined THEN "joinUnlock" ELSE "joining")
    /\ UNCHANGED eventVars

\* pthread_join returns, once the thread has exited.
PthreadJoin(p) ==
    /\ pc[p] = "joining"
    /\ Stage(target[p], "exited")
    /\ thread' = [thread EXCEPT ![target[p]].has_joined = TRUE,
                                ![target[p]].joins = @ + 1]
    /\ GoTo(p, "joinUnlock")
    /\ UNCHANGED eventVars

\* Mutant of JoinUnlock: joinMutex is not released.
JoinKeepsLock(p) ==
    /\ pc[p] = "joinUnlock"
    /\ GoTo(p, IF thread[target[p]].object = "dying" THEN "delete" ELSE "idle")
    /\ UNCHANGED <<eventVars, thread>>

\* join() returns, to its caller or to the destructor.
JoinUnlock(p) ==
    /\ pc[p] = "joinUnlock"
    /\ thread' = [thread EXCEPT ![target[p]].joinMutex = Nobody]
    /\ GoTo(p, IF thread[target[p]].object = "dying" THEN "delete" ELSE "idle")
    /\ UNCHANGED eventVars

\* A mutex cannot be locked, or pthread_join() fails: the call throws, and the
\* lock that join() has is destroyed.  The destructor is noexcept: there the
\* process would end.
CallThrows(p) ==
    /\ pc[p] \in {"cancel", "joinLock", "joining"} /\ thread[target[p]].object = "shared"
    /\ thread' = IF pc[p] = "joining" THEN [thread EXCEPT ![target[p]].joinMutex = Nobody]
                 ELSE thread
    /\ GoTo(p, "idle")
    /\ UNCHANGED eventVars

\* Mutant of Cancel: the destructor does not go on to join().
CancelThenDelete(p) ==
    /\ pc[p] = "cancel"
    /\ thread[target[p]].mutex = Nobody
    /\ GoTo(p, IF thread[target[p]].object = "dying" THEN "delete" ELSE "idle")
    /\ UNCHANGED <<eventVars, thread>>

\* cancel() locks the mutex, looks at is_finished, and does nothing yet.
Cancel(p) ==
    /\ pc[p] = "cancel"
    /\ thread[target[p]].mutex = Nobody
    /\ GoTo(p, IF thread[target[p]].object = "dying" THEN "joinLock" ELSE "idle")
    /\ UNCHANGED <<eventVars, thread>>

\* The destructor: cancel(), join(), destroy_self().  Whoever destroys a thread
\* sees to it that nobody else is using it.
Destroy(p, t) ==
    /\ pc[p] = "idle" /\ thread[t].object = "shared"
    /\ \A q \in Callers : pc[q] = "idle" \/ target[q] # t
    /\ thread' = [thread EXCEPT ![t].object = "dying"]
    /\ pc' = [pc EXCEPT ![p] = "cancel"]
    /\ target' = [target EXCEPT ![p] = t]
    /\ UNCHANGED <<eventVars, calls>>

Delete(p) ==
    /\ pc[p] = "delete"
    /\ DestroyObject(target[p])
    /\ GoTo(p, "idle")

-----------------------------------------------------------------------------
RunStep(t) ==
    \/ RunMove(t) \/ RunReturns(t) \/ RunFinish(t) \/ RunUnlock(t) \/ RunCleanup(t)
    \/ RunDrained(t) \/ RunWrite(t) \/ RunExit(t)

CallerEnters(p, t) ==
    Create(p, t) \/ CreateFails(p, t) \/ CallJoin(p, t) \/ CallCancel(p, t) \/ Destroy(p, t)

CallerStep(p) ==
    \/ Start(p) \/ StartFails(p) \/ Publish(p)
    \/ JoinLock(p) \/ PthreadJoin(p) \/ JoinUnlock(p) \/ Cancel(p) \/ Delete(p)

Next ==
    \/ \E t \in Threads : RunStep(t)
    \/ \E p \in Callers : CallerStep(p) \/ CallThrows(p) \/ \E t \in Threads : CallerEnters(p, t)

\* Threads are scheduled, and every runnable returns from run().  A caller in
\* the middle of a call goes on; as calls are finitely many, a mutex it waits
\* for is free for good from some point on.  No call has to throw.
Fairness ==
    /\ \A t \in Threads : WF_vars(RunStep(t))
    /\ \A p \in Callers : WF_vars(CallerStep(p))

Spec == Init /\ [][Next]_vars /\ Fairness

-----------------------------------------------------------------------------
InCall(p, t) == pc[p] # "idle" /\ target[p] = t

\* The object is freed only when its thread has exited or never began, and no
\* caller is inside a call on it: run() still uses terminate_generator after it
\* has set is_finished, and after it has made the event that others wait for.
NoUseAfterFree ==
    \A t \in Threads : thread[t].object = "freed" =>
        /\ thread[t].stage \in {"none", "exited"}
        /\ \A p \in Callers : ~InCall(p, t)

\* pthread_join is called at most once, however many callers join() at once: a
\* second pthread_join on the same thread is undefined.
JoinedOnce ==
    \A t \in Threads :
        /\ thread[t].joins <= 1
        /\ thread[t].joins = 1 => \A p \in Callers : ~(pc[p] = "joining" /\ target[p] = t)

\* join() returns only when the thread has exited, also to the callers that
\* only waited for another's join().
JoinMeansExited ==
    [][\A p \in Callers : JoinUnlock(p) => thread[target[p]].stage = "exited"]_vars

\* A terminate event means that run() is over and the runnable is destroyed.
EventMeansDone ==
    \A t \in Threads :
        bytes[t] > 0 => thread[t].is_finished /\ thread[t].runnable = "destroyed"

\* The runnable is destroyed exactly once by the time the object is, wherever
\* creation failed and however far run() had got.
DestroyedOnce ==
    \A t \in Threads :
        /\ thread[t].destroys <= 1
        /\ thread[t].object = "freed" => thread[t].destroys = 1

\* destroy_self() finds both mutexes free: pthread_mutex_destroy succeeds, as
\* the destructor of mutex asserts.
MutexesFreeWhenDestroyed ==
    \A p \in Callers :
        pc[p] = "delete" =>
            thread[target[p]].mutex = Nobody /\ thread[target[p]].joinMutex = Nobody

\* Every call of create, join, cancel and the destructor returns.
CallsReturn == \A p \in Callers : (pc[p] # "idle") ~> (pc[p] = "idle")
=============================================================================
