--------------------------- MODULE ThreadsExample ---------------------------
(***************************************************************************)
(* runThreadsExample of examples/Events: one main thread starts a number   *)
(* of threads, inserts their event sources into an edge-triggered wait     *)
(* set, and polls all of them after every wait until all have terminated;  *)
(* then it joins and destroys them.  This composes Thread, whose only      *)
(* caller is the main thread, with a wait set over several generators.     *)
(*                                                                         *)
(* Whatever throws on the way unwinds through the array of threads, whose  *)
(* destructor destroys, and so joins, the threads started so far.  (The    *)
(* example is taken to have a caller that catches: an exception that       *)
(* nobody catches ends the process.)                                       *)
(***************************************************************************)
EXTENDS Thread

CONSTANT Main   \* the main thread; its wait set goes by the same name

NumThreads == Cardinality(Threads)

\* The threads are numbered in the order of the array.
ASSUME ExampleAssumption ==
    /\ Threads = 1 .. NumThreads
    /\ NumThreads \in Nat \ {0}
    /\ Callers = {Main} /\ WaitSets = {Main} /\ EdgeTriggered = {Main}
    /\ MaxCalls >= NumThreads

VARIABLES
    phase,      \* which loop the main thread is in
    i,          \* that loop's index
    anyRunning  \* the result that checkThreads is building

exampleVars == <<phase, i, anyRunning>>
allVars     == <<bytes, inserted, ready, thread, pc, target, calls, phase, i, anyRunning>>

ExampleInit ==
    /\ Init
    /\ phase = "create" /\ i = 1 /\ anyRunning = FALSE

\* Go to index k of a loop.
Loop(l, k) == phase' = l /\ i' = k

\* From index i of a loop to the next, or to the start of the loop after it.
NextIndex(l, after) == IF i < NumThreads THEN Loop(l, i + 1) ELSE Loop(after, 1)

\* Mutant of Unwind: the last thread of the array is forgotten.
UnwindForgetsLast(k) == IF k <= 1 THEN Loop("done", 0) ELSE Loop("destroy", k - 1)

\* Unwinding destroys the first k threads of the array, the last one first.
Unwind(k) == IF k = 0 THEN Loop("done", 0) ELSE Loop("destroy", k)

-----------------------------------------------------------------------------
\* threadArray.push_back(std::new_thread(...))
MainCreate ==
    /\ phase = "create"
    /\ \/ (Create(Main, i) \/ Start(Main)) /\ UNCHANGED exampleVars
       \/ /\ CreateFails(Main, i) \/ StartFails(Main)
          /\ Unwind(i - 1)
          /\ UNCHANGED anyRunning
       \/ /\ Publish(Main)
          /\ \/ NextIndex("create", "insert")
             \/ Unwind(i)   \* push_back throws
          /\ UNCHANGED anyRunning

\* waitSet.insert(thread.event_source()), which may throw
MainInsert ==
    /\ phase = "insert"
    /\ \/ Insert(Main, i) /\ NextIndex("insert", "check")
       \/ UNCHANGED eventVars /\ Unwind(NumThreads)
    /\ UNCHANGED <<thread, callerVars, anyRunning>>

\* Mutant of MainCheck: anyRunning is not reset between calls.
MainCheckKeepsRunning ==
    /\ phase = "check"
    /\ \/ LET running == anyRunning \/ bytes[i] = 0
          IN  anyRunning' = running /\ NextIndex("check", IF running THEN "wait" ELSE "join")
       \/ Unwind(NumThreads) /\ UNCHANGED anyRunning
    /\ UNCHANGED <<eventVars, thread, callerVars>>

\* checkThreads: thread.event_source().poll() of each, in a level-triggered wait
\* set of its own, which may be impossible to create.
MainCheck ==
    /\ phase = "check"
    /\ \/ LET running == (i > 1 /\ anyRunning) \/ bytes[i] = 0
          IN  anyRunning' = running /\ NextIndex("check", IF running THEN "wait" ELSE "join")
       \/ Unwind(NumThreads) /\ UNCHANGED anyRunning
    /\ UNCHANGED <<eventVars, thread, callerVars>>

\* waitSet.wait()
MainWait ==
    /\ phase = "wait"
    /\ WaitReturns(Main)
    /\ Loop("check", 1)
    /\ UNCHANGED <<thread, callerVars, anyRunning>>

MainSleepOn ==
    /\ phase = "wait"
    /\ WaitFindsNothing(Main)
    /\ UNCHANGED <<thread, callerVars, exampleVars>>

\* logMutex, taken before each join(), cannot be locked, or wait() or join()
\* throws.
MainThrows ==
    /\ \/ phase = "wait" /\ UNCHANGED <<eventVars, thread, callerVars>>
       \/ phase = "join" /\ pc[Main] = "idle" /\ UNCHANGED <<eventVars, thread, callerVars>>
       \/ phase = "join" /\ CallThrows(Main)
    /\ Unwind(NumThreads)
    /\ UNCHANGED anyRunning

\* thread.join()
MainJoin ==
    /\ phase = "join"
    /\ \/ /\ CallJoin(Main, i) \/ JoinLock(Main) \/ PthreadJoin(Main)
          /\ UNCHANGED exampleVars
       \/ /\ JoinUnlock(Main)
          /\ IF i < NumThreads THEN Loop("join", i + 1) ELSE Unwind(NumThreads)
          /\ UNCHANGED anyRunning

\* The destructor of threadArray.
MainDestroy ==
    /\ phase = "destroy"
    /\ \/ /\ \/ Destroy(Main, i) \/ Cancel(Main) \/ JoinLock(Main)
             \/ PthreadJoin(Main) \/ JoinUnlock(Main)
          /\ UNCHANGED exampleVars
       \/ Delete(Main) /\ Unwind(i - 1) /\ UNCHANGED anyRunning

-----------------------------------------------------------------------------
MainStep ==
    \/ MainCreate \/ MainInsert \/ MainCheck \/ MainWait \/ MainJoin \/ MainDestroy

ThreadStep(t) == RunStep(t) /\ UNCHANGED exampleVars

ExampleNext == MainStep \/ MainSleepOn \/ MainThrows \/ \E t \in Threads : ThreadStep(t)

ExampleSpec ==
    /\ ExampleInit /\ [][ExampleNext]_allVars
    /\ WF_allVars(MainStep)
    /\ \A t \in Threads : WF_allVars(ThreadStep(t))

-----------------------------------------------------------------------------
\* The main thread, asleep in wait(), has not slept through the last thread's
\* termination: an event that came while it was polling the others is kept.
TerminationNotMissed ==
    phase = "wait" /\ (\A t \in Threads : bytes[t] > 0)
        => Readable(OnReadyList(Main)) # {}

\* runThreadsExample leaves no thread running and no object allocated, wherever
\* an exception cut it short.
NothingLeftBehind ==
    phase = "done" =>
        \A t \in Threads : /\ thread[t].object \in {"absent", "freed"}
                           /\ thread[t].stage \in {"none", "exited"}

\* And it does come to an end.
ExampleEnds == <>(phase = "done")
=============================================================================
