--------------------------- MODULE EventGenerator ---------------------------
(***************************************************************************)
(* std.event's generator and wait_set as their API offers them: threads    *)
(* that call notify() and reset() with no lock between them, and one       *)
(* thread per wait set that inserts sources, polls and waits.              *)
(*                                                                         *)
(* notify() is not one step.  It first reads until the pipe is empty and   *)
(* then writes one byte, so that events do not pile up in the pipe; while  *)
(* it is between the two, an event that an earlier notify() left is gone.  *)
(***************************************************************************)
EXTENDS EventSource

CONSTANT Callers    \* the threads that call notify() and reset()

ASSUME CallersAssumption == IsFiniteSet(Callers) /\ Cardinality(Callers) <= PipeCapacity

VARIABLES
    pc,             \* where each caller is: idle, or in which system call
    target,         \* the generator of each caller's present or last call
    waiting,        \* the wait sets whose thread is inside wait()
    outstanding     \* history: generators notified, and not reset since

vars == <<bytes, inserted, ready, pc, target, waiting, outstanding>>

TypeOK ==
    /\ EventTypeOK
    /\ pc \in [Callers -> {"idle", "drain", "write", "reset"}]
    /\ target \in [Callers -> Generators]
    /\ waiting \subseteq WaitSets
    /\ outstanding \subseteq Generators

Init ==
    /\ EventInit
    /\ pc = [c \in Callers |-> "idle"]
    /\ target \in [Callers -> Generators]
    /\ waiting = {}
    /\ outstanding = {}

-----------------------------------------------------------------------------
GoTo(c, l) == pc' = [pc EXCEPT ![c] = l]

\* Enter notify() or reset() on g.
Call(c, g, l) ==
    /\ pc[c] = "idle"
    /\ GoTo(c, l)
    /\ target' = [target EXCEPT ![c] = g]
    /\ UNCHANGED <<eventVars, waiting, outstanding>>

CallNotify(c, g) == Call(c, g, "drain")
CallReset(c, g)  == Call(c, g, "reset")

\* Mutant of NotifyRead: an event already in the pipe makes notify() return.
NotifyReadReturns(c) ==
    /\ pc[c] = "drain"
    /\ ReadByte(target[c])
    /\ GoTo(c, "idle")
    /\ UNCHANGED <<target, waiting, outstanding>>

\* The loop of std_event_generator_reset, which notify() runs first ...
NotifyRead(c) ==
    /\ pc[c] = "drain"
    /\ ReadByte(target[c])
    /\ UNCHANGED <<pc, target, waiting, outstanding>>

\* Mutant of NotifyDrained: notify() writes without emptying the pipe.
NotifyDrainSkipped(c) ==
    /\ pc[c] = "drain"
    /\ GoTo(c, "write")
    /\ UNCHANGED <<eventVars, target, waiting, outstanding>>

NotifyDrained(c) ==
    /\ pc[c] = "drain"
    /\ ReadWouldBlock(target[c])
    /\ GoTo(c, "write")
    /\ UNCHANGED <<target, waiting, outstanding>>

\* ... and the byte it then writes.
NotifyWrite(c) ==
    /\ pc[c] = "write"
    /\ WriteByte(target[c])
    /\ GoTo(c, "idle")
    /\ outstanding' = outstanding \cup {target[c]}
    /\ UNCHANGED <<target, waiting>>

\* The same loop, called by reset().
ResetRead(c) ==
    /\ pc[c] = "reset"
    /\ ReadByte(target[c])
    /\ outstanding' = outstanding \ {target[c]}
    /\ UNCHANGED <<pc, target, waiting>>

ResetDone(c) ==
    /\ pc[c] = "reset"
    /\ ReadWouldBlock(target[c])
    /\ GoTo(c, "idle")
    /\ UNCHANGED <<target, waiting, outstanding>>

-----------------------------------------------------------------------------
\* The thread of a wait set.
InsertSource(w, g) ==
    /\ w \notin waiting
    /\ Insert(w, g)
    /\ UNCHANGED <<pc, target, waiting, outstanding>>

CallWait(w) ==
    /\ w \notin waiting
    /\ waiting' = waiting \cup {w}
    /\ UNCHANGED <<eventVars, pc, target, outstanding>>

ReturnFromWait(w) ==
    /\ w \in waiting
    /\ WaitReturns(w)
    /\ waiting' = waiting \ {w}
    /\ UNCHANGED <<pc, target, outstanding>>

\* wait() is woken, or interrupted by a signal, and sleeps again.
WaitOn(w) ==
    /\ w \in waiting
    /\ WaitFindsNothing(w)
    /\ UNCHANGED <<pc, target, waiting, outstanding>>

Poll(w) ==
    /\ w \notin waiting
    /\ WaitReturns(w) \/ WaitFindsNothing(w)
    /\ UNCHANGED <<pc, target, waiting, outstanding>>

-----------------------------------------------------------------------------
NotifyStep(c) == NotifyRead(c) \/ NotifyDrained(c) \/ NotifyWrite(c)
ResetStep(c)  == ResetRead(c) \/ ResetDone(c)

CallerStep(c) ==
    \/ \E g \in Generators : CallNotify(c, g) \/ CallReset(c, g)
    \/ NotifyStep(c)
    \/ ResetStep(c)

WaiterStep(w) ==
    \/ \E g \in Generators : InsertSource(w, g)
    \/ CallWait(w) \/ ReturnFromWait(w) \/ WaitOn(w) \/ Poll(w)

Next == (\E c \in Callers : CallerStep(c)) \/ (\E w \in WaitSets : WaiterStep(w))

\* A thread inside a call goes on running, and epoll_wait returns when the
\* kernel has something to report; no thread needs to make a new call.
Fairness ==
    /\ \A c \in Callers : WF_vars(NotifyStep(c)) /\ WF_vars(ResetStep(c))
    /\ \A w \in WaitSets : WF_vars(ReturnFromWait(w))

Spec == Init /\ [][Next]_vars /\ Fairness

-----------------------------------------------------------------------------
\* The callers that are about to write to g.
Writers(g) == {c \in Callers : pc[c] = "write" /\ target[c] = g}

\* The callers inside notify() on g.
Notifying(g) == {c \in Callers : pc[c] \in {"drain", "write"} /\ target[c] = g}

\* The bytes in a pipe and the bytes about to be written to it never exceed the
\* number of callers: notify() reads before it writes, so however many calls
\* are made the pipe cannot fill up.
PipeBounded == \A g \in Generators : bytes[g] + Cardinality(Writers(g)) <= Cardinality(Callers)

\* Hence notify(), whose write end blocks, never blocks.
NotifyNeverBlocks == \A c \in Callers : pc[c] = "write" => bytes[target[c]] < PipeCapacity

\* An event that no reset() consumed can be polled, or a later notify() that
\* took it is still under way and will put it back: notify() against notify()
\* loses no event for good.
EventNotLost == \A g \in outstanding : bytes[g] > 0 \/ Notifying(g) # {}

\* No thread sleeps forever in the wait() of a level-triggered wait set that
\* holds a source which has become, and stays, readable.
LevelWaitEnds ==
    \A w \in WaitSets \ EdgeTriggered, g \in Generators :
        []<>~(w \in waiting /\ <<w, g>> \in inserted /\ bytes[g] > 0)
=============================================================================
