# Verification of Loci

TLA+ models of parts of the Loci compiler, its runtime and its standard
library, with TLC runs that check them on small instances and TLAPS proofs for
every value of their constants. `PROJECT.json` lists, for each definition, the
source lines it stands for; the hazards of the code; and the runs, mutants,
findings and theorems.

## The system

The repository holds the compiler (`lib/`, `include/locic/`: about 60 000 lines
of C++), the runtime that compiled programs link with (`runtime/`), the
standard library (`stdlib/std/`, written in Loci and C), examples, and tests
that compile programs and compare what they print (`test/`).

| Component | State | Operations | Talks to | What makes it correct | Here |
|---|---|---|---|---|---|
| std.event: `generator`, `source`, `wait_set` | a pipe per generator; an epoll instance per wait set | notify, reset; insert, wait, poll | the kernel; notified from any thread, waited on by one | an event is not lost, the pipe does not fill, a wait ends | `EventSource`, `EventGenerator` |
| std.concurrency: `message_queue` | mutex, array, read position, generator | empty, send, receive | writers and a reader that share it; std.event | first-in first-out, each message once, no lost wakeup | `MessageQueue`, `Channel` |
| std.concurrency: `thread` | heap object shared with the running thread; two mutexes; generator | create, run, join, cancel, destroy | pthreads; std.event | no use after free, one pthread_join, every call returns | `Thread` |
| examples/Events | an array of threads and a wait set | the loops of `runThreadsExample` | thread, wait_set | ends, and leaves nothing behind | `ThreadsExample`, reader loops in `MessageQueue` |
| Code generation of scope exit and unwinding | the unwind stack of a function, blocks and landing pads cached on it; at run time, `unwindState` and `exceptionInfo` | push and pop actions, generate unwinding code | the statement emitter; the code it generates; the exception runtime | every exit runs the right actions in the right order and arrives where it leads | `UnwindAction`, `ScopeExitActions`, `UnwindCode` |
| Exception runtime (`runtime/exception.cpp`) | exception objects, the unwinder's tables | throw, rethrow, free, personality function | generated landing pads, libunwind | the innermost matching handler is found, each exception freed once | `ExceptionTypes`; the outcome for one frame in `UnwindCode` |
| AST exit states | sets of the ways a scope may be left | composition over statements | semantic analysis, code generation | covers every exit that can happen, and invents none | `ExitStates` |
| Predicates, method sets | immutable, uniqued | and/or/implication, intersection | type checking | agree with their truth tables | planned |
| Semantic analysis (casts, satisfies checks, unification, name search) | syntax trees, scope stack | passes in order | AST | terminates, accepts what the language allows, and nothing that is unsound | `SatisfyChecker`; rules on exits |
| Liveness indicators and layout | a liveness byte or invalid value per object; sizes and offsets per type and module | make, move, copy, assign, destroy, setdead, islive | value emission | one destructor call per object; modules agree on offsets | `Layout`, `ObjectLifetime` |
| Templates | a builder of uses per template; root and intermediate functions; a path passed at run time | add a use, compute a generator, compute the arguments | function generation, vtables | a template sees the arguments that its caller means | `Templates` |
| Virtual calls | a table of slots per type | slot of a hash, conflict resolution stub, call | templates, type information | a call arrives at the method that it names | `Templates` |
| Mangling, primitives, ABI types, value emission | | | linker, runtime | caller and callee agree | not modelled |
| std.container | arrays, positions, nodes; ranges | create, push, pop, index, resize, insert, erase, clear, all | one thread | implement a sequence or a function; every value destroyed once | `Deque`, `Dictionary`, `CircularQueue`, `LinkedList`, `VArray`, `SortedMap`, `Containers` |
| std.memory | reference counts | share, release | one thread | free once | planned |
| std.network | socket handles; loops over partial reads | create, accept, connect, read, write | kernel, std.event | handles owned by one object, bytes in order, loops end | `Sockets`, `TCP` |
| std.string, std.filesystem, std.future | byte arrays; file handles | encode, decode; open, read | | | not modelled: pure functions, I/O, a stub |
| Lexer, parser, front end, support, tools | | | | | not modelled: deterministic functions with unit tests |

What is hard here. In std.event and std.concurrency: several threads between
the system calls of `notify()`, the mutex being free between `empty()` and
`wait()` and between `empty()` and `receive()`, a thread object that is used by
the thread that runs it after everyone has been told that it is finished, and
construction that fails half-way. In the code generator: one block per action
is shared by exits of different kinds, the order in which a function's exits
are emitted decides what the shared blocks look like, and whether they are
right only shows when the generated code runs, with a state variable that may
be left over from an earlier exit; whether an object is live is one byte whose
place two modules compute apart; and the arguments of a template are bits of a
path that many functions add to. In semantic analysis: answers that rest on
assumptions made on the way to them. In the libraries: reads and writes that do
less than they were asked to, handles that change owners in calls that may
throw, containers whose growth fails half-way. The list with lines is in `PROJECT.json`,
"hazards".

## Modules and code

### EventSource: the kernel side of std.event

`bytes[g]` is the number of bytes in the pipe of generator g, `inserted` the
registrations of sources in wait sets, and `ready` the kernel's ready list of
each wait set. `ReadByte`, `ReadWouldBlock` and `WriteByte` are the `read` and
`write` of `internal_generator.c`; `Insert`, `WaitReturns` and
`WaitFindsNothing` are the `epoll_ctl` and `epoll_wait` of `internal_wait.c`.
Level- and edge-triggered wait sets differ in `TakeReady` only, as in the
kernel: a level-triggered entry stays on the ready list. The module has steps
but no `Next`: the three modules that use it decide who may take which.

### EventGenerator: generators without a lock

Any number of callers call `notify()` and `reset()` with no lock; a wait set
has one thread, which inserts, polls and waits. `notify()` is three steps, as
in the code: read until the pipe is empty, find it empty, write one byte.

### Channel and MessageQueue

`Channel` says what a queue promises. `MessageQueue` is the code: `SendPush`,
`SendDrain`, `SendDrained`, `SendWrite`, `SendUnlock` are the steps of `send()`
under its lock, with `SendOutOfMemory` for `push_back` and `SendWriteFails` for
a `notify()` that throws; `CheckEmpty` is `empty()`; `ReceiveTake`,
`ReceiveReset`, `ReceiveResetDone` and `ReceiveUnlock` are `receive()`. The
reader runs one of the two loops the repository shows:
`examples/Events/MessageQueue.loci` waits on the source, which makes a
level-triggered wait set each time, and the documentation's loop keeps an
edge-triggered one. `Chan == INSTANCE Channel WITH queue <- Pending` maps the
unread end of the array to the channel's queue.

### Thread and ThreadsExample

`Thread` has one record per thread object: where the object is in its life,
what stage its thread has reached, where the runnable is, `is_finished`,
`has_joined` and the holders of the two mutexes. Each lock operation, pthread
call and notification is a step. The caller of the destructor is alone with the
object, as the language's ownership rules have it. Calls of `join()` and
`cancel()` may throw (`CallThrows`), but not in the destructor, where the
`assert noexcept` would end the process. `ThreadsExample` composes
`Thread` with the wait set of `runThreadsExample`; every call that may throw
has a branch, in its own action or in `MainThrows`, that unwinds through the
array of threads. `MainThrows` has no fairness: that the example ends must not
rest on a `wait()` that gives up.

### UnwindAction, ScopeExitActions, ExceptionTypes and UnwindCode

`UnwindAction` is the class of that name: which states an action takes part in,
whether it ends an unwinding, which states share its block. `ScopeExitActions`
is the code generator as operators on a record `g` with the unwind stack, the
blocks emitted so far and the block made last. `GenBlocks` is `genUnwindBlock`,
`GenTopUnwindAction` and `GenLandingPad` the functions of those names; they
take as operators what the code calls recursively, because a rethrow scope
generates the unwinding of a throw and a scope exit may need a landing pad of
its own. `GenThrowBlock`, `GenUnwindBlock`, `GenThrowPad`, `GenRethrowBlock`
and `GenRethrowPad` are their instances. `ExceptionTypes` is what
`genThrowInfo` and `genCatchInfo` write down of an exception type and its
ancestors, and how the runtime compares the two; `IsA` is what is meant.

`UnwindCode` drives it. In the phase "emit" it chooses a function, statement by
statement, and emits each as `StatementEmitter` does; in the phase "run" it
executes the blocks. What the language asks for is computed apart, by `Plan`,
from the constructs that enclose the statement: which destructors and scope
exits have to run, in which order, and where control must go: for an exception,
to the first clause for its type of the innermost try that has one. The
properties compare the two.

Abstractions. A condition is any branch. Expressions, temporaries and the value
returned are left out. The selector of a landing pad is the number of the
clause, as each clause has a type information constant of its own. The statement after an exit is only emitted if the exit is under a
condition, as unreachable statements are rejected by the compiler. The body of
a scope exit is nothing, a loop that is left by break or continue, a try that
may catch an exception, or (scope (success) only) a call that may throw; other
statements in it use a stack of their own and leave no trace in the function's. The personality function is its
outcome for one frame: an exception enters the landing pad, with a selector if
one of the pad's clauses matches.

### ExitStates

The operators of `AST::ExitStates`, one operator per constructor of
`AST::Statement`, and `ScopeExitStates` for `Scope::exitStates`. Each statement
is a record that holds, next to its computed exit states, `can`: the ways in
which it is left when it runs, for each assignment of the template variables.
`Build...` appends a statement to the scope under construction and takes its
bodies from the scopes finished before, as the conversion of a syntax tree
does; `Reported` is the search for code that is never executed in
`ConvertFunctionDef.cpp`. A noexcept predicate is the set of assignments that
make it true.

### SatisfyChecker and StaticChecks

A program is a table: for each class and interface its methods, each with its
const and noexcept, its parameters and its result, which refer to classes and
interfaces. `SatisfiesWithin` is `SatisfyChecker::satisfies` with its stack of
questions in progress; `TypeFits` is what `typeSatisfies`, `methodSetSatisfies`
and `methodSatisfies` find out by themselves, and `Questions` what they ask in
turn. `Declare` chooses a program and `Check` computes all answers; then the
program makes objects (`New`), casts references to them (`Cast`), passes them as
arguments and gets results (`PassArgument`, `CallReturns`), wherever the
compiler lets it. A reference has a type and, in `was`, the class type that it
had before it was cast to an interface. `MayBeNoop` and `CanCast` are the casts
of references that copy nothing. Templates, `auto`, require predicates and
static methods are left out. `StaticChecks` puts `ExitStates`,
`SatisfyChecker` and `Layout` side by side, to be checked in one run; they share
nothing.

### Layout and ObjectLifetime

`Layout` computes sizes, alignments, offsets and the liveness indicator of a
table of types, for each module apart: what a module knows is laid out as an
ABI structure, for the rest it adds up what `__sizeof` returns. `View` is the
result for every type and module, and `LayOut` in `StaticChecks` computes it for
a table. `IsTable` says what the tables of the compiler have in common.
`ObjectLifetime`
runs the code of one function over an array of bytes. A statement is a stack of
operations that are expanded member by member, as `DefaultMethodEmitter`
expands default methods; `Make`, `Move`, `Copy`, `Destroy` and the operations
they end with are the emitters of the same names. Which object a place holds is
seen in the bytes of its members only. A class with a destructor is assumed to
have a member of its own that is no object, which the tables of the run have.

### Sockets and TCP

`Sockets` are the system calls behind `internal_stream.c`: handles that are
given out again, connections with a bounded buffer in each direction, a backlog,
and calls that fail. `TCP` is `connector`, `listener`, `stream` and the loops of
`sync_stream`, a step per system call; a handle between two owners is in
`local`. A read or write may fail in any state, and leaves a stream that is not
valid; the next one is tried nevertheless, and throws only if it does no bytes. A
wait for a stream is level-triggered, as `source.wait()` makes a wait
set for it.

### Deque, Dictionary and the containers

`Deque` and `Dictionary` say what a sequence and a map promise.
`CircularQueue`, `LinkedList`, `VArray` and `SortedMap` are the classes, an
action per method, with the assertions of the code as guards: `data` and `heap`
hold what has been constructed, and `Raw` marks a slot in which nothing is. The
ranges of the queue and the list are variables, so that a range is walked while
others push and pop; each records the values that were there when it was made.
An allocation that fails before anything has changed is a stutter.
`Containers` puts them side by side, to be checked in one run; they share
nothing.

### Templates

Types, functions and uses are trees `Use(object, args)`. The code of an object
is the sequence of uses it asks for; its builder (`templateUseMap`, `EntryId`,
`bitsRequired`) numbers them and the uses within them. `Call` passes on what
`computeTemplateGenerator` returns; a frame finds its arguments by
`computeTemplateArguments`, which runs `TemplateRoot` and
`TemplateIntermediate`. Next to the generator a frame has `meant`, the use with
every variable replaced, as the source has it. `CallMethod` takes type
information apart and goes through `Slot` and `ConflictResolution` of the
vtable. Two uses are one entry of the builder if they are equal; the map in the
code compares arguments that differ by their hashes alone, so different uses are
taken to have different hashes. The builder of an object is complete before its
code runs; the code
emits a wrong number of bits and patches it when the code of the template is
complete (`Template.cpp:213`), which is a matter of the order in which the
compiler generates functions and is not modelled.

## Runs

| Run | Instance | States | Checks |
|---|---|---|---|
| `event_generator` | 3 callers, 1 generator, a level- and an edge-triggered wait set | 9 048 | `NotifyNeverBlocks`, `EventNotLost`, `LevelWaitEnds` |
| `queue_edge` | 2 writers, 2 sends each, edge-triggered reader | 4 353 | `AssertionsHold`, `EventMatchesContents`, `NoLostWakeup`, `WakeMeansMessage`, `DeliversEverything` |
| `queue_failing` | 2 writers, 2 sends each, level-triggered reader, failing push and notify | 5 436 | `ImplementsChannel` |
| `thread` | 3 callers, 2 calls each, 1 thread object | 8 907 | `NoUseAfterFree`, `JoinedOnce`, `EventMeansDone`, `MutexesFreeWhenDestroyed`, `JoinMeansExited`, `CallsReturn` |
| `threads_example` | 3 threads, 1 event per wait | 32 624 | `TerminationNotMissed`, `NothingLeftBehind`, `ExampleEnds` |
| `unwind` | every function of four profiles, see below | 2 751 903 | `ActionsInTurn`, `ArrivesAtGoal`, `RunsInNormalState`, `PadsWellFormed` |
| `object_lifetime` | 2 variables, 3 objects, tables of a class and a type it is a part of, 2 modules | 1 528 280 | `DestructorFindsObject`, `ObjectsInOnePlace` |
| `static_checks` | trees of 5 statements, 4 in a scope, 2 assignments; 3 073 programs of 2 classes and 2 interfaces, 2 references; 1 440 tables, 2 modules | 2 616 450 | `ExitsCoverOutcomes`, `ReportsTrue`, `ScopeIsExact`, `CastsAreSound`, `SatisfiesIsLargest`, `LivenessBytesFree`, `ModulesAgreeOnTypes` |
| `tcp` | a client and a server, 3 handles, 2 bytes each way, buffers of 1 | 498 192 | `HandlesOwnedOnce`, `BytesInOrder`, `SyncCallsEnd` |
| `containers` | queues of 1 to 4 slots, lists of 4 nodes, arrays and maps of 3, 2 values | 10 190 | `HoldTheirValues`, `ViewsAgree`, `ImplementTheirTypes`, `ClearEnds` |
| `templates` | 2 functions, a class, 19 bodies, 5 roots, 4 calls, paths of 8 bits | 36 211 | `ArgumentsAgree`, `CallsArrive` |
| `unwind_caught_not_freed` | try and throw, 2 statements | (violation) | `ExceptionsFreed` |

Every property has a mutant, a plausible mistake in one operation, under which
its run finds it violated.

Bounds. `PipeCapacity` is the smallest the properties allow, since a full pipe
is what must not happen. One event per wait (`MaxEvents`) makes the rest of the
ready list matter. Three callers are the fewest where two are inside `join()`
while a third has finished, or where two notify while a third resets; two sends
of two writers let a message arrive in every position relative to the reader's
`empty()`, `wait()` and `receive()`, with one left over. `MaxSends` and
`MaxCalls` bound calls and nothing else.

The profiles of `unwind` are: all exits without exceptions, four statements;
loops and their exits, five; tries, throws and scope exits that may throw or
contain a loop or a try, four; rethrows, four. A clause counts as a statement;
a try has a clause for a type or its child, or both in either order, and a
third type is caught by none. Five statements are enough for a variable
in a loop with three exits of it, the fewest after which a shared block is a
switch that is found again; four allow a try in a try with an exit and
something to clean up, or a variable on either side of a throw.

The tables of `object_lifetime` have each kind of indicator (a member with an
invalid value, a byte in a gap, a byte at the end, methods of the class) in each
place that a part can have; three objects allow an assignment of a moved
object over another. Five statements of `static_checks` hold two scope exits
below an exit, with one that may throw between them. One method that mentions
an interface in each of a class and two interfaces is enough for a circle of
questions that leads from const types to others and back; two methods, for one
that is missing or not needed. Two references are an object and an argument.
The tables of `static_checks` have every class of up to three members of one, two and
four bytes, in either of two modules, as a part of a class, a datatype and a
variant of up to two members: three members are the fewest with a gap before and
padding after, and the outer type sees the class as known or not. Three handles are enough
for a listener, a connection and a handle that is closed and given out again
while somebody still has its number; two bytes through a buffer of one make
every transfer of two partial. Four slots let a queue wrap with values on both
sides of the end, and four nodes have two inner ones. In a path of eight bits
four calls reach the overflow, which is where the properties stop.

Deadlock is checked, except in the runs where everybody may stop: writers need
not send, threads need not be created, the example ends, and the bounds on
calls, statements and objects are reached (`static_checks`, `object_lifetime`,
`templates`).

Fairness. A thread inside a call goes on: the scheduler runs every runnable
thread, and the code has no spin locks. Nobody has to make a call. Mutexes need
no fairness of their own, as calls are finitely many, so that a mutex somebody
waits for is free for good in the end; the properties are stated for such runs.
`epoll_wait` returns when its ready list is not empty. A runnable's `run()` is
assumed to return. In `TCP` a thread in a call of a stream takes its next step
when it has one (`StreamStep`), and neither the network nor the other side has
to do anything. In `Containers` a call of `clear()` or of a destructor goes on.
The other modules are about safety only.

### Finding

* `unwind_caught_not_freed`: DESTROYEXCEPTION is active for throw only, so an
  exception whose handler ends normally is not freed, against what the comment
  at `StatementEmitter.cpp:669` says.

### What the passing runs except

Faults of the code that no comment or test speaks about are named where a
property stops, and not left out of the model unless this says so.

* Unwinding. A rethrown exception that the same function catches, and a
  scope (success) that throws while a return unwinds, leave `unwindState` set:
  `RunsInNormalState` does not ask it of functions with a rethrow, and the
  profiles combine throwing scope exits with exceptions only. Leaving a loop
  clears `unwindState`, and a return whose scope exit contains the loop is
  forgotten: the profile with such loops has no return. `exceptionInfo` is one
  for the function too, and a try in a scope exit that runs while an exception
  unwinds overwrites it: the scope exits with a try run on success only. After `break`,
  `continue`, `continue` through one destructor its switch has two cases for
  one value. With a throw and a rethrow in one handler the shared blocks cannot
  tell them apart, as a throw stores no state, and a rethrow with nothing to
  clean up gets a landing pad without clause: the rethrow profile has no throw
  in a handler, and `PadsWellFormed` leaves rethrows out.
* Exit states. A scope(failure) above a scope(success) that may throw, and may
  not, is reported as never executed (`ReportsTrue`). A switch without cases,
  `assert noexcept` and scope exits that do not end make the sets larger than
  what can happen; `ScopeIsExact` is about the composition in a scope only.
* Interfaces. With parameters that are selfconst, satisfying is not transitive:
  a const type that takes what is const satisfies its own type, which satisfies
  an interface that takes what is not, and it does not satisfy that itself
  (`TakesSelfConst` in `SatisfiesIsLargest`). Methods with template variables
  are not compared at all (FIXME at `SatisfyChecker.cpp:351`), and not modelled.
* Layout. A suffix liveness byte is put after the padding that follows the
  members, beyond the size of the structure type and of `__sizeof`: a class with
  a two-byte and a one-byte member has it at offset 4 of 4 bytes. A gap behind a
  member of unknown size is not found, and the byte that `__sizeof` then adds
  before the members disappears in it: with a byte and an imported class of four
  it is at offset 8 of 8 bytes. `LivenessBytesFree` does not ask of such a class
  (`SuffixWithPadding`) that the byte is its own, and `ModulesAgreeOnTypes` stops
  at tables in which one of known size occurs; `object_lifetime` leaves out the
  tables with a byte outside its object (`SuffixInPadding`). Members that were copied before the copy of a
  later one throws are never destroyed (`lost`).
* Network. At the end of the stream `recv()` returns zero bytes and `sync_read`
  goes round for ever: `SyncCallsEnd` is stated for reads whose bytes arrive.
  A listener that is destroyed leaves an accepted handle open (`leaked`).
* Containers. A queue of capacity zero is never full, and a push writes past
  its array: `Sizes` has no zero. A copy that throws in `varray::resize` leaves
  values above the size (`failed`). `map::erase` loses pairs when its second
  array cannot grow, the one it was to grow for included, and leaves moved pairs
  behind; the model makes no call but
  `clear()` after that.
* Templates. Different uses whose hashes are equal would share an entry of the
  builder (`TemplatedObject.cpp:218`): the model has no such hashes. A path that is
  shifted beyond its word loses its leading bit, and
  the arguments are garbage (`overflow`); the documentation gives it 32 bits,
  the code 64. Constant values among the arguments of a use are ignored
  (`Template.cpp:577`), and nothing checks that a use has no more than the eight
  arguments of the type array (`Template.cpp:77`): neither is modelled.

## Proofs

Each `_proof` module EXTENDS the module it is about and proves `Spec => []Inv`
from an inductive invariant, with one lemma or step per action; the proofs about
`UnwindCode` are in two modules, of which `UnwindBlocks_proof` is the first. TLC checked
each invariant on a small instance first, but `CastInv`, which ranges over all
sets of pairs of types, and that of `UnwindCode`, which asks for a set: of these
it checked what follows from them. The assumptions are those of the modules' ASSUME:
finitely many callers, at least as many bytes in a pipe as callers
(`EventGenerator`), names that are distinct, at least one thread
(`ThreadsExample`), a socket buffer of at least one byte (`TCP`), finitely many list
nodes, of which null is none, a natural number as the largest size, and integers as
keys, which have an order, and queues of at least one slot (`Containers`), programs whose
types, finitely many, declare methods by name (`SatisfyChecker`), finitely many exception types, of
which none is its own ancestor (`ExceptionTypes`), profiles in which only a
scope (success) may throw (`UnwindCode`, as semantic analysis has it), and tables of types as in
`IsTable` (`Layout`): of two alignments one divides the other, only classes have
destructors and moves of their own, and no type is a part of itself. Nothing is assumed of the number
of threads, writers, clients, handles, sends or calls, of slots beyond the first, of the number or
depth of statements, or of the types, members and methods of a program.

* **EventGenerator**. `PipeBounded` counts the bytes of a pipe and the callers
  about to write to it. It is not inductive by itself: a caller that moves to
  its write adds one to the second, and it has just found the pipe empty, so
  the sum is then bounded by the number of writers. The lemmas are about the
  cardinality of `Writers(g)` when one caller comes or goes.
  `NotifyNeverBlocks` and `EventNotLost` follow from it and from the control
  state.
* **MessageQueue**. The invariant says where each thread may be while it holds
  the mutex (`Control`), that there is at most one byte in the pipe
  (`OneByte`), how pipe and contents agree at each point of `send()` and
  `receive()` (`Agreement`), that a byte seen without the mutex means a message
  (`EventMeansMessage`), and that the reader waits with its source on the ready
  list if there is a byte (`WaitReady`). `EventMatchesContents`, `NoLostWakeup`
  and `WakeMeansMessage` are read off it. `QueueImplementsChannel` shows that
  `Init` maps to `Init` and each step to a step of `Channel` or a stutter.
  `ReceivedInOrder` adds an invariant on the order of the messages in the
  array.
* **Thread**. The invariant has four parts: what the fields of an object say of
  one another (`ObjectInv`), what holds at each stage of `run()` (`StageInv`),
  what a caller inside a call knows of the object (`CallInv`), and who holds
  joinMutex and who is alone with an object (`ExclusionInv`). The last is what
  makes the destructor sound: a dying object has one caller, so that it is
  freed after `has_joined`, and hence after its thread has exited.
* **ThreadsExample**. The example extends `Thread`, and its invariant extends
  Thread's: `ControlInv` says which of main's calls may be open in each phase,
  `ArrayInv` which objects exist at each index of each loop, and `PollInv` that
  a poll which found a thread running leaves that thread's event unseen.
  `TerminationNotMissed` needs the last part at its end: the polls take events
  off the ready list one by one, so one event must be found that none of them
  took. A step of a thread is a step of `Thread` (`RunEffect`), so that
  Thread's lemmas are cited and not proved again.
* **Containers**. The invariant is one part per container. All four end in
  `HoldTheirValues`, `ViewsAgree` and `ImplementTheirTypes`.
  * Queue: the two positions and their `msb` bits are first shown to
    say one thing, the number of slots in use counted round the array from
    `read_pos` (`Positions`); `ShapeInv` and `SlotInv` are stated of slots counted
    that way, and `RangeInv` says where a range lies in them. `Deque` is then
    implemented step by step; `%` is eliminated once, in the lemmas about `index()`.
  * Array: by `ArrayInv` the slots below the size hold values and the others none,
    unless a copy failed.
  * Map: `MapInv` says that the keys ascend. It is kept because a pass of the sort
    moves the inserted pair one place to the left, if it is not yet in its place,
    and moves no other (`PassMoves`), so that as many passes as there are pairs
    bring it there (`SortInserts`). The folds are
    unfolded once, as chains of intermediate results (`FoldChain`). The pairs held determine the contents, so that a step is one of `Dictionary`.
  * List: `ListInv` says that the nodes in their order are a sequence, of which the
    first, the last, the links and the size are what the fields say, and that a
    range spans part of it. An operation changes the sequence at one end
    (`PushedFront`, `PoppedBack` ...). That following the links forward or backward
    gives the sequence is shown once (`Walk`); it ends as nodes are finitely many.
* **UnwindCode**. For an exit the language asks for a route: actions to be run, and
  a place to arrive at. The code has one block per action and kind of exit, which
  later exits find again and may turn into a switch. The invariant is that there is
  a set W of ways <<block, state, type, route>>, the routes that may be before the
  code at a block, in a value of `unwindState` and for a type of exception. Each
  way can be followed for one block and is then another of W (`CodeOK`), and the
  blocks that an action remembers have the ways of what is below it on the stack
  (`StackOK`). That genUnwindBlock, a landing pad and its clauses keep both, for a
  W that grows, is an induction along the stack (`UnwindBlocks_proof`). What the
  constructs that are open will still add is in `Pending`; statements leave it alone
  (`Later`), and the end of a construct redeems it (`NestedClose`), so that at the end of
  the function nothing is pending (`Finished`). While it runs, control is on a way of W
  (`RunInv`), which gives `ActionsInTurn`, `ArrivesAtGoal` and `RunsInNormalState`.
  The theorems are about functions that are `Covered`: without rethrow; with a
  try in a scope exit only if that is for success; and with loops in scope exits, or scope
  exits that throw, only without break, continue and return. In the others the code goes
  wrong as described above. The first three profiles of `unwind` are covered,
  with any number of statements; its functions with rethrow are only
  model-checked.
* **TCP**. `EndsInv` pairs the two ends of each connection, and each end that was
  not accepted with its entry in the listener's queue: closing a handle then frees that
  handle and no other. `ClientInv`, `ServerInv` and `ProcInv` say which handles a thread
  has at each point of its calls, and `PlaceInv` that every open handle is in one
  place, or in `leaked`. `HandlesOwnedOnce` counts the owners of a handle, so it follows from
  `PlaceInv` by a bijection between owners and places. `BytesInOrder` needs
  `BytesInv`: what is underway to a handle goes on where its reader is and ends
  where the writer at the other end is, and what was sent before accept is in the
  queue. It is inductive only with `KindInv` (only connections have bytes) and
  with the call's position below its size. The system chooses the lowest free
  handle; that there is one is shown by well-founded induction on Nat.
* **ExitStates**. `TreeInv` says of each statement and each part that its exit
  states allow for what it can do (`PartInv`); each constructor of a statement
  keeps it. For a scope this is hard, as its exit states are computed from the
  first statement on and its outcomes from the last one back. `Outcome` is where
  they meet: what the statements looked at so far leave of the outcomes of the
  rest. One statement more leaves it as it is if that is exact, and can only
  add to it otherwise (`StatementStep`), whatever a scope(success) blocks or
  replaces. The folds are unfolded by showing that the function on sets of
  indices that they choose exists (`ScopeFolds`), by induction on the number of
  statements. `ReportsTrue` goes the same way: `WatchInv` says what is known of the
  outcomes below each scope exit that may yet be reported, in terms of those
  of the statements still to come.
* **StaticChecks**. The answers of `SatisfyChecker` assume what is in progress.
  They lie in the largest relation of which every pair fits and asks for pairs of
  the relation only (`AnswersAreSound`): on the way the pairs may ask for what is in
  progress too (`AnswersAreSupported`), and at the end nothing is. This relation
  composes where types are cast in two steps (`LargestComposes`), so what a
  reference was at first is still true of it: `CastInv`. Nothing
  is assumed of `MaxDepth`: a question given up is answered no. `CastsNeverMislead`
  follows, and the theorems on exit states, whose steps are steps of `StaticChecks`.
  That no answer is missing either (`SatisfactionIsLargest`) needs
  `DepthSuffices`: a chain of different questions, each asked to answer the one before, is not
  longer than the stack may be. A pair of the largest relation is then answered yes on
  every path, as its questions are pairs of the relation, until one is in progress
  already (`AnswersAreComplete`). The condition holds if the pairs of types are not more
  than `MaxDepth` + 1 (`FewPairs`), and for every program of the run, whose chains are shorter than the
  20 questions of the code. Removing pairs that fail, as `Consistent` does, ends
  at the same relation since types are finitely many; a type that is const less
  often satisfies what the const type does (`Looser`), and casts compose.
* **Layout**. A type is seen through its members. That the function `View` exists, and is the one
  way to see all types (`SolutionExists`, `ViewIs`), and what holds of all types,
  is shown by taking types away whose members are gone (`Bottom`), as no type is a
  part of itself. Then a type is compared with its fields. The structure type has
  the liveness byte after the members and `__sizeof` counts it before them: without
  padding, fields that begin one byte later end at most an alignment later
  (`OneByteLater`), so that both sizes, rounded up, are the same (`SizesAre`). The
  union of a variant may be rounded up or not (`VariantSizesAre`). The first
  byte of a gap is behind the members before it and before those after it (`GapIsFree`).

Some theorems state what no run lists any more: the type invariants of the
modules, `PipeBounded`, `InOrder`, `DestroyedOnce` and the
`NotifyNeverBlocks` of the queue.

Only model-checked: liveness (`LevelWaitEnds`, `DeliversEverything`,
`CallsReturn`, `ExampleEnds`, `SyncCallsEnd`, `ClearEnds`), which needs fairness
and ENABLED, out of the prover's reach; the functions of `UnwindCode` that are not
`Covered`, and the finding about it; `DestructorFindsObject` and `ObjectsInOnePlace`, whose
objects are bytes that nested calls fill one by one; and `Templates`.

Induction over data: the library's induction theorems that take an operator
cannot be instantiated here. The one on the least element of a set can
(`Induction` in `StaticChecks_proof`, `Containers_proof` and `UnwindBlocks_proof`), which is enough for folds
over sequences and for a recursion on paths. A module with RECURSIVE operators
cannot have theorems: that is `Templates`, where types are trees, and no other
module. The type invariants of `UnwindCode`, `ObjectLifetime`, `CircularQueue`,
`ExitStates`, `SatisfyChecker`, `TCP` and `ThreadsExample` are stated for proofs
and readers, and no run lists them.

## Not modelled

The lexer, parser, front end and tools are deterministic functions of their
input, with unit tests; the rest of semantic analysis is a long sequential
translation, of which the rules on scope exits are used as guards. Mangling, primitives, debug
information and the emission of values have no state that outlives a call, and
what is right is said by LLVM alone. googletest and FileCheck, under
`src/utils`, are copies of other projects. Of the modelled parts, `PROJECT.json`
says under each component what is left out.

## Plan

1. Done: std.event, message_queue, thread, the threads example; scope exit and
   unwinding; exit states; interfaces; layout and liveness; templates and virtual calls;
   the containers; TCP.
2. Proofs. Done: `EventGenerator`, `MessageQueue`, `Thread`, `ThreadsExample`,
   `TCP`, `ExitStates`, `SatisfyChecker`, the containers with their
   refinements of `Deque` and `Dictionary`, `UnwindCode` without rethrow, `Layout`.
   To do: the functions with rethrow, for which a way needs the exception in flight;
   `ObjectLifetime`, on top of the layout.
3. Models that could follow: predicates and method sets against truth tables;
   templates in `SatisfyChecker`; the plain count of `shared_ptr`; two frames
   and the two phases of `runtime/exception.cpp`; the UTF-8 encoder against the
   decoder.
