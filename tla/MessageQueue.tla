---------------------------- MODULE MessageQueue ----------------------------
(***************************************************************************)
(* std.concurrency's message_queue: a mutex, an array that only grows, the *)
(* position of the next message to read, and an event generator that is    *)
(* notified by every send() and reset by the receive() that empties the    *)
(* queue.  Any number of threads send; one thread receives, in one of the  *)
(* two loops that the repository's documentation and examples show:        *)
(*                                                                         *)
(*   level:  event_source().wait(); if (empty()) continue; receive();      *)
(*   edge:   if (empty()) edgeTriggeredWaitSet.wait(); else receive();     *)
(*                                                                         *)
(* Between empty() and wait(), and between empty() and receive(), the      *)
(* mutex is free.  The system calls of notify() and reset() are separate   *)
(* steps made while it is held, but the reader's wait does not take it.    *)
(***************************************************************************)
EXTENDS EventSource, Sequences

CONSTANTS
    Writers,        \* the threads that call send()
    Reader,         \* the thread that calls empty() and receive(); its wait
                    \* set goes by the same name
    Queue,          \* the queue's event generator
    Nobody,         \* the holder of a free mutex
    MaxSends,       \* bound: calls of send() that each writer makes
    NotifyMayFail   \* whether the write of notify() may return an error

Procs == Writers \cup {Reader}

ASSUME QueueAssumption ==
    /\ Reader \notin Writers
    /\ Nobody \notin Procs
    /\ Generators = {Queue}
    /\ WaitSets = {Reader}
    /\ MaxSends \in Nat
    /\ NotifyMayFail \in BOOLEAN

VARIABLES
    holder,     \* the thread that holds the mutex, or Nobody
    array,      \* every message that was pushed
    position,   \* how many of them were received
    pc,         \* where each thread is
    sends,      \* how many times each writer has called send()
    received,   \* history: what receive() returned, in order
    silent      \* history: messages are queued whose notify() threw

queueVars == <<holder, array, position, pc, sends, received, silent>>
vars      == <<bytes, inserted, ready, holder, array, position, pc, sends, received, silent>>

\* The n-th message of a writer.
Messages == Writers \X (1 .. MaxSends)

TypeOK ==
    /\ EventTypeOK
    /\ holder \in Procs \cup {Nobody}
    /\ array \in Seq(Messages)
    /\ position \in Nat
    /\ pc \in [Procs -> {"idle", "drain", "write", "unlock",
                         "insert", "wait", "close", "check", "receive", "reset"}]
    /\ sends \in [Writers -> 0 .. MaxSends]
    /\ received \in Seq(Messages)
    /\ silent \in BOOLEAN

Init ==
    /\ EventInit
    /\ holder = Nobody
    /\ array = <<>>
    /\ position = 0
    /\ pc = [p \in Procs |-> IF p = Reader THEN "insert" ELSE "idle"]
    /\ sends = [w \in Writers |-> 0]
    /\ received = <<>>
    /\ silent = FALSE

GoTo(p, l) == pc' = [pc EXCEPT ![p] = l]

\* The constructor and the destructor of unique_lock.
Lock(p)   == holder = Nobody /\ holder' = p
Unlock(p) == holder = p /\ holder' = Nobody

-----------------------------------------------------------------------------
\* send()

\* The lock is taken and the message pushed.
SendPush(w) ==
    /\ pc[w] = "idle"
    /\ sends[w] < MaxSends
    /\ Lock(w)
    /\ sends' = [sends EXCEPT ![w] = @ + 1]
    /\ array' = Append(array, <<w, sends'[w]>>)
    /\ GoTo(w, "drain")
    /\ UNCHANGED <<eventVars, position, received, silent>>

\* The lock is taken, and push_back throws bad_alloc, having changed nothing.
\* Unwinding releases the lock.
SendOutOfMemory(w) ==
    /\ pc[w] = "idle"
    /\ sends[w] < MaxSends
    /\ Lock(w)
    /\ sends' = [sends EXCEPT ![w] = @ + 1]
    /\ GoTo(w, "unlock")
    /\ UNCHANGED <<eventVars, array, position, received, silent>>

\* Mutant of SendDrain: an event already in the pipe makes notify() return.
SendDrainReturns(w) ==
    /\ pc[w] = "drain"
    /\ ReadByte(Queue)
    /\ GoTo(w, "unlock")
    /\ UNCHANGED <<holder, array, position, sends, received, silent>>

\* generator.notify(): read until the pipe is empty ...
SendDrain(w) ==
    /\ pc[w] = "drain"
    /\ ReadByte(Queue)
    /\ UNCHANGED queueVars

SendDrained(w) ==
    /\ pc[w] = "drain"
    /\ ReadWouldBlock(Queue)
    /\ GoTo(w, "write")
    /\ UNCHANGED <<holder, array, position, sends, received, silent>>

\* ... then write one byte ...
SendWrite(w) ==
    /\ pc[w] = "write"
    /\ WriteByte(Queue)
    /\ silent' = FALSE
    /\ GoTo(w, "unlock")
    /\ UNCHANGED <<holder, array, position, sends, received>>

\* ... or throw generator_notify_failed.  The message stays in the array.
SendWriteFails(w) ==
    /\ NotifyMayFail
    /\ pc[w] = "write"
    /\ silent' = TRUE
    /\ GoTo(w, "unlock")
    /\ UNCHANGED <<eventVars, holder, array, position, sends, received>>

SendUnlock(w) ==
    /\ pc[w] = "unlock"
    /\ Unlock(w)
    /\ GoTo(w, "idle")
    /\ UNCHANGED <<eventVars, array, position, sends, received, silent>>

-----------------------------------------------------------------------------
\* The reader's loop around wait().

EdgeLoop == Reader \in EdgeTriggered

\* The edge loop inserts the queue's source once, into a wait set of its own.
\* source.wait() makes a level-triggered wait set for every call.
ReaderInsert ==
    /\ pc[Reader] = "insert"
    /\ Insert(Reader, Queue)
    /\ GoTo(Reader, IF EdgeLoop THEN "check" ELSE "wait")
    /\ UNCHANGED <<holder, array, position, sends, received, silent>>

ReaderWake ==
    /\ pc[Reader] = "wait"
    /\ WaitReturns(Reader)
    /\ GoTo(Reader, IF EdgeLoop THEN "check" ELSE "close")
    /\ UNCHANGED <<holder, array, position, sends, received, silent>>

\* epoll_wait is woken for nothing, or interrupted, and sleeps again.
ReaderSleepOn ==
    /\ pc[Reader] = "wait"
    /\ WaitFindsNothing(Reader)
    /\ UNCHANGED queueVars

ReaderClose ==
    /\ pc[Reader] = "close"
    /\ CloseWaitSet(Reader)
    /\ GoTo(Reader, "check")
    /\ UNCHANGED <<holder, array, position, sends, received, silent>>

\* Mutant of CheckEmpty: off by one, an empty queue looks non-empty.
CheckEmptyOffByOne ==
    /\ pc[Reader] = "check"
    /\ holder = Nobody
    /\ GoTo(Reader, IF position <= Len(array) THEN "receive"
                    ELSE IF EdgeLoop THEN "wait" ELSE "insert")
    /\ UNCHANGED <<eventVars, holder, array, position, sends, received, silent>>

\* empty(): the lock is taken, the answer read, and the lock released.
CheckEmpty ==
    /\ pc[Reader] = "check"
    /\ holder = Nobody
    /\ GoTo(Reader, IF position # Len(array) THEN "receive"
                    ELSE IF EdgeLoop THEN "wait" ELSE "insert")
    /\ UNCHANGED <<eventVars, holder, array, position, sends, received, silent>>

-----------------------------------------------------------------------------
\* receive()

\* What receive() does with the lock just taken: take the message at index i,
\* move to position p, and reset the generator if that is called for.
Take(i, p, reset) ==
    /\ pc[Reader] = "receive"
    /\ Lock(Reader)
    /\ received' = Append(received, array[i])
    /\ position' = p
    /\ GoTo(Reader, IF reset THEN "reset" ELSE "unlock")
    /\ UNCHANGED <<eventVars, array, sends, silent>>

\* Mutants of ReceiveTake: position compared before it is moved; position not
\* moved; the newest message taken.
ReceiveComparesEarly == Take(position + 1, position + 1, position = Len(array))
ReceiveTakesAgain    == Take(position + 1, position, FALSE)
\* The lock is taken and the message moved out of the array.
ReceiveTake == Take(position + 1, position + 1, position + 1 = Len(array))

\* generator.reset(), when that was the last message.
ReceiveReset ==
    /\ pc[Reader] = "reset"
    /\ ReadByte(Queue)
    /\ UNCHANGED queueVars

ReceiveResetDone ==
    /\ pc[Reader] = "reset"
    /\ ReadWouldBlock(Queue)
    /\ silent' = FALSE
    /\ GoTo(Reader, "unlock")
    /\ UNCHANGED <<holder, array, position, sends, received>>

ReceiveUnlock ==
    /\ pc[Reader] = "unlock"
    /\ Unlock(Reader)
    /\ GoTo(Reader, IF EdgeLoop THEN "check" ELSE "insert")
    /\ UNCHANGED <<eventVars, array, position, sends, received, silent>>

-----------------------------------------------------------------------------
SendStart(w) == SendPush(w) \/ SendOutOfMemory(w)

SendStep(w) ==
    \/ SendDrain(w) \/ SendDrained(w) \/ SendWrite(w) \/ SendWriteFails(w)
    \/ SendUnlock(w)

ReceiveStep == ReceiveTake \/ ReceiveReset \/ ReceiveResetDone \/ ReceiveUnlock

ReaderStep == ReaderInsert \/ ReaderWake \/ ReaderClose \/ CheckEmpty \/ ReceiveStep

Next ==
    \/ \E w \in Writers : SendStart(w) \/ SendStep(w)
    \/ ReaderStep
    \/ ReaderSleepOn

\* A thread in the middle of a call goes on, and the reader keeps reading; no
\* writer has to send.  Each writer makes finitely many calls, so the mutex is
\* free for good from some point on and need not be a fair one.
Fairness == (\A w \in Writers : WF_vars(SendStep(w))) /\ WF_vars(ReaderStep)

Spec == Init /\ [][Next]_vars /\ Fairness

-----------------------------------------------------------------------------
HasMessage == position < Len(array)

\* The assertions in empty(), send() and receive().  The one in receive() holds
\* although the mutex was free since empty() answered: only the reader removes.
AssertionsHold ==
    /\ position <= Len(array)
    /\ pc[Reader] = "receive" => HasMessage
    /\ \A w \in Writers : pc[w] \in {"drain", "write"} => HasMessage

\* Whenever the mutex is free, the event source is active exactly when there is
\* a message to receive, unless a notify() threw after taking the event away.
EventMatchesContents ==
    holder = Nobody => bytes[Queue] = IF HasMessage /\ ~silent THEN 1 ELSE 0

\* notify() never blocks with the mutex held, however small the pipe.
NotifyNeverBlocks == \A w \in Writers : pc[w] = "write" => bytes[Queue] = 0

\* A reader asleep in wait() while a message is queued is about to be woken: an
\* event that came between empty() and wait() is not missed.
NoLostWakeup ==
    pc[Reader] = "wait" /\ holder = Nobody /\ HasMessage /\ ~silent
        => Queue \in Readable(OnReadyList(Reader))

\* A wait that returns finds a message: reset() leaves no stale event behind.
WakeMeansMessage == [][ReaderWake => HasMessage]_vars

\* No message is received twice, and those of one writer arrive in the order in
\* which it sent them, whatever sends failed in between.
InOrder ==
    \A i, j \in 1 .. Len(received) :
        i < j /\ received[i][1] = received[j][1] => received[i][2] < received[j][2]

\* The queue is a channel: what is pending in it is the unread end of array.
Pending == SubSeq(array, position + 1, Len(array))

Chan == INSTANCE Channel WITH queue <- Pending

\* Messages come out as they went in, none is lost and none is invented.
ImplementsChannel == Chan!SafeSpec

\* And the reader, woken in time, receives every one of them.
DeliversEverything == Chan!Spec
=============================================================================
