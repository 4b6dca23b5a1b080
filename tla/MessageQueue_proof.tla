------------------------- MODULE MessageQueue_proof -------------------------
(***************************************************************************)
(* Proofs about MessageQueue, for any number of writers and of sends, and  *)
(* both of the reader's loops.  Everything follows from one inductive      *)
(* invariant: who holds the mutex is written in the program counters, and  *)
(* for each place in the critical sections the invariant says how the pipe *)
(* and the array are related there.                                        *)
(***************************************************************************)
EXTENDS MessageQueue, SequenceTheorems, TLAPS

\* The places in which a thread holds the mutex.
Locked == {"drain", "write", "unlock", "reset"}

\* Each thread stays in its own program, and holds the mutex where it should.
Control ==
    /\ \A p \in Procs : holder = p <=> pc[p] \in Locked
    /\ \A w \in Writers : pc[w] \in {"idle", "drain", "write", "unlock"}
    /\ pc[Reader] \in {"insert", "wait", "close", "check", "receive", "reset", "unlock"}
    /\ pc[Reader] = "close" => ~EdgeLoop

\* At most one byte is in the pipe, and none when notify() is about to write.
OneByte == bytes[Queue] <= 1 /\ NotifyNeverBlocks

\* Outside notify() and reset(), the pipe tells whether a message is queued.
Agreement ==
    holder = Nobody \/ pc[holder] = "unlock"
        => bytes[Queue] = IF HasMessage /\ ~silent THEN 1 ELSE 0

\* An event is only ever visible while a message is queued, but in reset().
EventMeansMessage == bytes[Queue] > 0 /\ pc[Reader] # "reset" => HasMessage

\* What the reader's wait relies on: the source is in its wait set, and on the
\* ready list if an event came since empty() answered.
WaitReady ==
    /\ pc[Reader] = "wait" \/ (EdgeLoop /\ pc[Reader] # "insert")
           => <<Reader, Queue>> \in inserted
    /\ pc[Reader] = "wait" /\ bytes[Queue] > 0 => <<Reader, Queue>> \in ready

IInv ==
    /\ TypeOK
    /\ Control
    /\ AssertionsHold
    /\ pc[Reader] = "reset" => position = Len(array)
    /\ OneByte
    /\ Agreement
    /\ EventMeansMessage
    /\ WaitReady

-----------------------------------------------------------------------------
LEMMA InitInvariant == Init => IInv
<1> SUFFICES ASSUME Init PROVE IInv
  OBVIOUS
<1>1. array \in Seq(Messages) /\ Len(array) = 0 /\ received \in Seq(Messages)
  BY EmptySeq DEF Init
<1>2. TypeOK
  <2>1. EventTypeOK
    BY DEF Init, EventInit, EventTypeOK
  <2>2. holder \in Procs \cup {Nobody} /\ position \in Nat /\ silent \in BOOLEAN
    BY DEF Init
  <2>3. sends \in [Writers -> 0 .. MaxSends]
    BY QueueAssumption DEF Init
  <2>4. \A p \in Procs : pc[p] \in {"insert", "idle"}
    BY DEF Init
  <2>5. pc = [p \in Procs |-> pc[p]]
    BY DEF Init
  <2> QED
    BY <1>1, <2>1, <2>2, <2>3, <2>4, <2>5 DEF TypeOK
<1>3. bytes[Queue] = 0 /\ position = 0 /\ holder = Nobody
  BY QueueAssumption DEF Init, EventInit
<1>4. Control /\ AssertionsHold /\ (pc[Reader] = "reset" => position = Len(array))
  BY <1>1, <1>3, QueueAssumption
  DEF Init, Control, Locked, AssertionsHold, HasMessage, Procs
<1>5. OneByte /\ Agreement /\ EventMeansMessage
  BY <1>1, <1>3 DEF OneByte, NotifyNeverBlocks, Agreement, EventMeansMessage, HasMessage
<1>6. WaitReady
  BY DEF Init, WaitReady, Procs
<1> QED
  BY <1>1, <1>2, <1>3, <1>4, <1>5, <1>6 DEF IInv

\* Each step of a writer preserves the invariant.
LEMMA SenderInvariant ==
    ASSUME IInv, NEW w \in Writers, SendStart(w) \/ SendStep(w)
    PROVE  IInv'
<1> USE QueueAssumption
    DEF    IInv, TypeOK, EventTypeOK, Control, Locked, AssertionsHold, HasMessage, OneByte,
           NotifyNeverBlocks, Agreement, EventMeansMessage, WaitReady, EdgeLoop, Procs
<1>1. CASE SendPush(w)
  <2>1. /\ holder = Nobody /\ holder' = w
        /\ pc[w] = "idle" /\ pc' = [pc EXCEPT ![w] = "drain"]
        /\ UNCHANGED <<eventVars, position, received, silent>>
    BY <1>1 DEF SendPush, Lock, GoTo
  <2>2. sends' \in [Writers -> 0 .. MaxSends]
    BY <1>1 DEF SendPush
  <2>3. /\ array' \in Seq(Messages) /\ Len(array') = Len(array) + 1
        /\ HasMessage'
    BY <1>1 DEF SendPush, Lock, eventVars, Messages
  <2>4. TypeOK' /\ Control' /\ AssertionsHold'
    BY <2>1, <2>2, <2>3 DEF eventVars
  <2>5. OneByte' /\ Agreement' /\ EventMeansMessage' /\ WaitReady'
    BY <2>1, <2>3 DEF eventVars
  <2>6. pc'[Reader] = "reset" => position' = Len(array')
    BY <2>1
  <2> QED
    BY <2>4, <2>5, <2>6
<1>2. CASE SendOutOfMemory(w)
  BY <1>2 DEF SendOutOfMemory, Lock, GoTo, eventVars
<1>3. CASE SendDrain(w)
  BY <1>3 DEF SendDrain, ReadByte, queueVars
<1>4. CASE SendDrained(w)
  BY <1>4 DEF SendDrained, ReadWouldBlock, GoTo, eventVars
<1>5. CASE SendWrite(w)
  <2>1. /\ bytes[Queue] = 0 /\ bytes'[Queue] = 1 /\ bytes' \in [Generators -> Nat]
        /\ inserted' = inserted
        /\ ready' = ready \cup (inserted \cap ({Reader} \X {Queue}))
    BY <1>5 DEF SendWrite, WriteByte, Watching
  <2>2. /\ holder = w /\ holder' = w /\ silent' = FALSE
        /\ pc[w] = "write" /\ pc' = [pc EXCEPT ![w] = "unlock"]
        /\ UNCHANGED <<array, position, sends, received>>
    BY <1>5 DEF SendWrite, GoTo
  <2>3. TypeOK' /\ Control' /\ AssertionsHold' /\ HasMessage'
    BY <2>1, <2>2
  <2>4. pc'[Reader] = pc[Reader] /\ pc[Reader] # "reset"
    BY <2>2
  <2>5. OneByte' /\ Agreement' /\ EventMeansMessage'
    BY <2>1, <2>2, <2>3
  <2>6. WaitReady'
    BY <2>1, <2>4
  <2> QED
    BY <2>3, <2>4, <2>5, <2>6
<1>6. CASE SendWriteFails(w)
  BY <1>6 DEF SendWriteFails, GoTo, eventVars
<1>7. CASE SendUnlock(w)
  BY <1>7 DEF SendUnlock, Unlock, GoTo, eventVars
<1> QED
  BY <1>1, <1>2, <1>3, <1>4, <1>5, <1>6, <1>7 DEF SendStart, SendStep

\* epoll_wait moves nothing but the ready list, and a wait that finds nothing
\* leaves a readable source on it.
LEMMA WaitEffect ==
    ASSUME TypeOK, WaitReturns(Reader) \/ WaitFindsNothing(Reader)
    PROVE  /\ UNCHANGED <<bytes, inserted>>
           /\ ready' \subseteq ready
           /\ WaitReturns(Reader) => \E g \in Generators : bytes[g] > 0
           /\ WaitFindsNothing(Reader) /\ <<Reader, Queue>> \in ready => bytes[Queue] = 0
<1>1. ASSUME NEW T \in SUBSET OnReadyList(Reader), TakeReady(Reader, T)
      PROVE  UNCHANGED <<bytes, inserted>> /\ ready' \subseteq ready
  BY <1>1 DEF TakeReady
<1>2. WaitReturns(Reader) => \E g \in Generators : bytes[g] > 0
  BY DEF WaitReturns, Readable, OnReadyList
<1>3. ASSUME WaitFindsNothing(Reader), <<Reader, Queue>> \in ready
      PROVE  bytes[Queue] = 0
  BY <1>3, QueueAssumption
  DEF WaitFindsNothing, Readable, OnReadyList, TypeOK, EventTypeOK
<1> QED
  BY <1>1, <1>2, <1>3 DEF WaitReturns, WaitFindsNothing

\* Each step of the reader preserves the invariant.
LEMMA ReaderInvariant ==
    ASSUME IInv, ReaderStep \/ ReaderSleepOn
    PROVE  IInv'
<1> USE QueueAssumption
    DEF    IInv, TypeOK, EventTypeOK, Control, Locked, AssertionsHold, HasMessage, OneByte,
           NotifyNeverBlocks, Agreement, EventMeansMessage, WaitReady, EdgeLoop, Procs
<1>1. CASE ReaderInsert
  BY <1>1 DEF ReaderInsert, Insert, GoTo
<1>2. CASE ReaderWake
  BY <1>2, WaitEffect DEF ReaderWake, GoTo
<1>3. CASE ReaderSleepOn
  BY <1>3, WaitEffect DEF ReaderSleepOn, queueVars
<1>4. CASE ReaderClose
  <2>1. /\ inserted' \subseteq inserted /\ ready' \subseteq inserted'
        /\ bytes' = bytes
    BY <1>4 DEF ReaderClose, CloseWaitSet
  <2>2. ~EdgeLoop
    BY <1>4 DEF ReaderClose
  <2>3. /\ pc' = [pc EXCEPT ![Reader] = "check"]
        /\ UNCHANGED <<holder, array, position, sends, received, silent>>
    BY <1>4 DEF ReaderClose, GoTo
  <2>4. pc[Reader] = "close"
    BY <1>4 DEF ReaderClose
  <2>5. TypeOK'
    BY <2>1, <2>3
  <2>6. Control' /\ AssertionsHold' /\ (pc'[Reader] = "reset" => position' = Len(array'))
    BY <2>2, <2>3, <2>4
  <2>7. OneByte' /\ EventMeansMessage' /\ WaitReady'
    BY <2>1, <2>2, <2>3, <2>4
  <2>8. Agreement'
    BY <2>1, <2>3, <2>4
  <2> QED
    BY <2>5, <2>6, <2>7, <2>8
<1>5. CASE CheckEmpty
  BY <1>5 DEF CheckEmpty, GoTo, eventVars
<1>6. CASE ReceiveTake
  BY <1>6 DEF ReceiveTake, Take, Lock, GoTo, eventVars
<1>7. CASE ReceiveReset
  BY <1>7 DEF ReceiveReset, ReadByte, queueVars
<1>8. CASE ReceiveResetDone
  <2>1. /\ bytes[Queue] = 0 /\ position = Len(array) /\ silent' = FALSE
        /\ UNCHANGED <<bytes, inserted, ready, holder, array, position, sends, received>>
    BY <1>8 DEF ReceiveResetDone, ReadWouldBlock, eventVars
  <2>2. pc[Reader] = "reset" /\ pc' = [pc EXCEPT ![Reader] = "unlock"]
    BY <1>8 DEF ReceiveResetDone, GoTo
  <2>3. TypeOK' /\ Control' /\ AssertionsHold'
    BY <2>1, <2>2
  <2>4. OneByte' /\ Agreement' /\ EventMeansMessage' /\ WaitReady'
    BY <2>1, <2>2
  <2> QED
    BY <2>2, <2>3, <2>4
<1>9. CASE ReceiveUnlock
  BY <1>9 DEF ReceiveUnlock, Unlock, GoTo, eventVars
<1> QED
  BY <1>1, <1>2, <1>3, <1>4, <1>5, <1>6, <1>7, <1>8, <1>9 DEF ReaderStep, ReceiveStep

LEMMA InvariantStep == IInv /\ [Next]_vars => IInv'
<1>1. IInv /\ Next => IInv'
  BY SenderInvariant, ReaderInvariant DEF Next
<1>2. IInv /\ UNCHANGED vars => IInv'
  BY DEF vars, IInv, TypeOK, EventTypeOK, Control, Locked, AssertionsHold, HasMessage,
         OneByte, NotifyNeverBlocks, Agreement, EventMeansMessage, WaitReady
<1> QED
  BY <1>1, <1>2

LEMMA Invariant == Spec => []IInv
  BY InitInvariant, InvariantStep, PTL DEF Spec

-----------------------------------------------------------------------------
\* Every variable always has its type.
THEOREM TypeCorrect == Spec => []TypeOK
  BY Invariant, PTL DEF IInv

\* No assertion of message_queue.loci fails, with any number of writers and a
\* single reader.
THEOREM AssertionsNeverFail == Spec => []AssertionsHold
  BY Invariant, PTL DEF IInv

\* When the mutex is free, the queue's event source is active exactly if the
\* queue holds a message (and no notify() threw).
THEOREM EventAgreesWithContents == Spec => []EventMatchesContents
<1>1. IInv => EventMatchesContents
  BY DEF IInv, Agreement, EventMatchesContents
<1> QED
  BY <1>1, Invariant, PTL

\* notify() finds the pipe empty when it writes, and so never blocks while it
\* holds the queue's mutex.
THEOREM NotifyNeverBlocksTheQueue == Spec => []NotifyNeverBlocks
  BY Invariant, PTL DEF IInv, OneByte

\* A reader asleep while a message is queued can be woken: both loops that the
\* repository shows are free of the lost-wakeup race.
THEOREM NoWakeupIsLost == Spec => []NoLostWakeup
<1>1. IInv => NoLostWakeup
  <2> SUFFICES ASSUME IInv, pc[Reader] = "wait", holder = Nobody, HasMessage, ~silent
               PROVE  Queue \in Readable(OnReadyList(Reader))
    BY DEF NoLostWakeup
  <2>1. bytes[Queue] = 1
    BY DEF IInv, Agreement
  <2>2. <<Reader, Queue>> \in ready
    BY <2>1 DEF IInv, WaitReady
  <2> QED
    BY <2>1, <2>2, QueueAssumption DEF Readable, OnReadyList
<1> QED
  BY <1>1, Invariant, PTL

\* A reader that wait() lets go finds a message.
THEOREM WakeupsAreNotSpurious == Spec => WakeMeansMessage
<1>1. IInv /\ [Next]_vars => [ReaderWake => HasMessage]_vars
  <2> SUFFICES ASSUME IInv, ReaderWake PROVE HasMessage
    OBVIOUS
  <2>1. \E g \in Generators : bytes[g] > 0
    BY WaitEffect DEF ReaderWake, IInv
  <2>2. pc[Reader] = "wait"
    BY DEF ReaderWake
  <2> QED
    BY <2>1, <2>2, QueueAssumption DEF IInv, EventMeansMessage
<1> QED
  BY <1>1, Invariant, PTL DEF Spec, WakeMeansMessage

-----------------------------------------------------------------------------
\* Refinement: the unread end of the array is the channel's queue.

\* A message pushed appears at the end of what is pending.
LEMMA PendingAppend ==
    ASSUME NEW S, NEW a \in Seq(S), NEW p \in 0 .. Len(a), NEW m \in S
    PROVE  SubSeq(Append(a, m), p + 1, Len(Append(a, m)))
               = Append(SubSeq(a, p + 1, Len(a)), m)
<1> DEFINE b == Append(a, m)
           s == SubSeq(b, p + 1, Len(b))
           t == SubSeq(a, p + 1, Len(a))
<1>1. /\ b \in Seq(S) /\ Len(b) = Len(a) + 1 /\ Len(a) \in Nat
      /\ \A i \in 1 .. Len(a) : b[i] = a[i]
      /\ b[Len(a) + 1] = m
  BY AppendProperties, LenProperties
<1>2. \A i \in (p + 1) .. Len(b) : b[i] \in S
  BY <1>1, ElementOfSeq
<1>3. \A i \in (p + 1) .. Len(a) : a[i] \in S
  BY <1>1, ElementOfSeq
<1>4. /\ s \in Seq(S) /\ Len(s) = Len(a) + 1 - p
      /\ \A i \in 1 .. Len(a) + 1 - p : s[i] = b[p + i]
  <2>1. p + 1 \in Int /\ Len(b) \in Int /\ Len(b) - (p + 1) + 1 = Len(a) + 1 - p
    BY <1>1
  <2>2. /\ s \in Seq(S)
        /\ Len(s) = IF p + 1 <= Len(b) THEN Len(b) - (p + 1) + 1 ELSE 0
        /\ \A i \in 1 .. Len(b) - (p + 1) + 1 : s[i] = b[p + 1 + i - 1]
    BY <2>1, <1>2, SubSeqProperties
  <2>3. \A i \in Int : p + 1 + i - 1 = p + i
    OBVIOUS
  <2> QED
    BY <1>1, <2>1, <2>2, <2>3
<1>5. /\ t \in Seq(S) /\ Len(t) = Len(a) - p
      /\ \A i \in 1 .. Len(a) - p : t[i] = a[p + i]
  <2>1. p + 1 \in Int /\ Len(a) \in Int /\ Len(a) - (p + 1) + 1 = Len(a) - p
    BY <1>1
  <2>2. /\ t \in Seq(S)
        /\ Len(t) = IF p + 1 <= Len(a) THEN Len(a) - (p + 1) + 1 ELSE 0
        /\ \A i \in 1 .. Len(a) - (p + 1) + 1 : t[i] = a[p + 1 + i - 1]
    BY <2>1, <1>3, SubSeqProperties
  <2>3. Len(t) = Len(a) - p
    <3>1. CASE p + 1 <= Len(a)
      BY <3>1, <2>1, <2>2
    <3>2. CASE p = Len(a)
      BY <3>2, <1>1, <2>2
    <3>3. p \in Nat /\ p <= Len(a)
      BY <1>1
    <3> HIDE DEF t
    <3> QED
      BY <3>1, <3>2, <3>3, <1>1
  <2>4. ASSUME NEW i \in 1 .. Len(a) - p PROVE t[i] = a[p + i]
    <3>1. p + 1 + i - 1 = p + i
      OBVIOUS
    <3>2. t[i] = a[p + 1 + i - 1]
      BY <2>1, <2>2
    <3> QED
      BY <3>1, <3>2
  <2> QED
    BY <2>2, <2>3, <2>4
<1>6. /\ Append(t, m) \in Seq(S) /\ Len(Append(t, m)) = Len(a) - p + 1
      /\ \A i \in 1 .. Len(a) - p : Append(t, m)[i] = t[i]
      /\ Append(t, m)[Len(a) - p + 1] = m
  BY <1>5, AppendProperties
<1>7. \A i \in 1 .. Len(s) : s[i] = Append(t, m)[i]
  <2> SUFFICES ASSUME NEW i \in 1 .. Len(s) PROVE s[i] = Append(t, m)[i]
    OBVIOUS
  <2>1. CASE i \in 1 .. Len(a) - p
    BY <2>1, <1>1, <1>4, <1>5, <1>6
  <2>2. CASE i = Len(a) - p + 1
    BY <2>2, <1>1, <1>4, <1>6
  <2> QED
    BY <2>1, <2>2, <1>4, <1>1
<1>8. Len(s) = Len(Append(t, m))
  BY <1>1, <1>4, <1>6
<1> QED
  BY <1>4, <1>6, <1>7, <1>8, SeqEqual

\* What receive() takes is the oldest of what is pending.
LEMMA PendingTake ==
    ASSUME NEW S, NEW a \in Seq(S), NEW p \in Nat, p < Len(a)
    PROVE  /\ SubSeq(a, p + 1, Len(a)) # <<>>
           /\ Head(SubSeq(a, p + 1, Len(a))) = a[p + 1]
           /\ Tail(SubSeq(a, p + 1, Len(a))) = SubSeq(a, p + 1 + 1, Len(a))
<1>1. Len(a) \in Nat /\ p + 1 \in 1 .. Len(a) /\ Len(a) \in (p + 1) .. Len(a)
  BY LenProperties
<1>2. \A i \in (p + 1) .. Len(a) : a[i] \in S
  BY <1>1, ElementOfSeq
<1>3. Len(SubSeq(a, p + 1, Len(a))) = Len(a) - (p + 1) + 1
  BY <1>1, <1>2, SubSeqProperties
<1>4. SubSeq(a, p + 1, Len(a)) # <<>>
  <2>1. Len(<<>>) = 0
    BY EmptySeq
  <2>2. Len(SubSeq(a, p + 1, Len(a))) # 0
    <3> DEFINE n == Len(SubSeq(a, p + 1, Len(a)))
    <3>1. n = Len(a) - (p + 1) + 1
      BY <1>3
    <3> HIDE DEF n
    <3>2. n # 0
      BY <1>1, <3>1
    <3> QED
      BY <3>2 DEF n
  <2> QED
    BY <2>1, <2>2
<1> QED
  BY <1>1, <1>4, HeadTailOfSubSeq

\* Every step of the queue is a step of the channel, or leaves it as it is.
LEMMA ChannelStep == IInv /\ [Next]_vars => [Chan!Next]_(Chan!channelVars)
<1> SUFFICES ASSUME IInv, [Next]_vars PROVE [Chan!Next]_(Chan!channelVars)
  OBVIOUS
<1>0. array \in Seq(Messages) /\ position \in 0 .. Len(array) /\ Len(array) \in Nat
  BY LenProperties DEF IInv, TypeOK, AssertionsHold
<1>1. ASSUME UNCHANGED <<array, position, received>>
      PROVE  UNCHANGED Chan!channelVars
  BY <1>1 DEF Chan!channelVars, Pending
<1>2. ASSUME NEW w \in Writers, SendPush(w)
      PROVE  Chan!Next
  <2> DEFINE m == <<w, sends[w] + 1>>
  <2>1. m \in Messages
    BY <1>2, QueueAssumption DEF SendPush, Messages, IInv, TypeOK
  <2>2. array' = Append(array, m) /\ UNCHANGED <<position, received>>
    BY <1>2 DEF SendPush, IInv, TypeOK
  <2>3. Pending' = Append(Pending, m)
    BY <2>1, <2>2, <1>0, PendingAppend DEF Pending
  <2> QED
    BY <2>1, <2>2, <2>3 DEF Chan!Next, Chan!Send
<1>3. ASSUME ReceiveTake
      PROVE  Chan!Next
  <2>1. position < Len(array)
    BY <1>3 DEF ReceiveTake, Take, IInv, AssertionsHold, HasMessage
  <2>2. /\ array' = array /\ position' = position + 1
        /\ received' = Append(received, array[position + 1])
    BY <1>3 DEF ReceiveTake, Take
  <2>3. /\ Pending # <<>>
        /\ Head(Pending) = array[position + 1]
        /\ Tail(Pending) = Pending'
    BY <2>1, <2>2, <1>0, PendingTake DEF Pending
  <2> QED
    BY <2>2, <2>3 DEF Chan!Next, Chan!Receive
<1>4. ASSUME NEW w \in Writers, SendStart(w) \/ SendStep(w), ~SendPush(w)
      PROVE  UNCHANGED <<array, position, received>>
  BY <1>4
  DEF SendStart, SendStep, SendOutOfMemory, SendDrain, SendDrained, SendWrite,
      SendWriteFails, SendUnlock, queueVars
<1>5. ASSUME ReaderStep \/ ReaderSleepOn, ~ReceiveTake
      PROVE  UNCHANGED <<array, position, received>>
  BY <1>5
  DEF ReaderStep, ReceiveStep, ReaderSleepOn, ReaderInsert, ReaderWake, ReaderClose,
      CheckEmpty, ReceiveReset, ReceiveResetDone, ReceiveUnlock, queueVars
<1>6. CASE UNCHANGED vars
  BY <1>6, <1>1 DEF vars
<1> QED
  BY <1>1, <1>2, <1>3, <1>4, <1>5, <1>6 DEF Next

\* message_queue implements a FIFO channel: nothing lost, invented, repeated or
\* reordered, whichever sends fail.
THEOREM QueueImplementsChannel == Spec => ImplementsChannel
<1>1. Init => Chan!Init
  BY SubSeqEmpty DEF Init, Chan!Init, Pending
<1> QED
  BY <1>1, ChannelStep, Invariant, PTL DEF Spec, ImplementsChannel, Chan!SafeSpec

-----------------------------------------------------------------------------
\* What InOrder rests on: what was received is the read part of the array, and
\* the array holds each writer's messages in the order of its calls.
History ==
    /\ Len(received) = position
    /\ \A i \in 1 .. position : received[i] = array[i]
    /\ \A i \in 1 .. Len(array) : array[i][2] <= sends[array[i][1]]
    /\ \A i, j \in 1 .. Len(array) :
           i < j /\ array[i][1] = array[j][1] => array[i][2] < array[j][2]

LEMMA HistoryStep == IInv /\ History /\ [Next]_vars => History'
<1> SUFFICES ASSUME IInv, History, [Next]_vars PROVE History'
  OBVIOUS
<1>0. /\ array \in Seq(Messages) /\ received \in Seq(Messages) /\ sends \in [Writers -> 0 .. MaxSends]
      /\ position \in Nat /\ Len(array) \in Nat /\ position <= Len(array)
      /\ \A i \in 1 .. Len(array) : array[i] \in Messages
  BY LenProperties, ElementOfSeq DEF IInv, TypeOK, AssertionsHold
<1>1. ASSUME UNCHANGED <<array, position, received, sends>> PROVE History'
  BY <1>1 DEF History
<1>2. ASSUME NEW w \in Writers, SendPush(w) PROVE History'
  <2> DEFINE m == <<w, sends[w] + 1>>
  <2>1. /\ m \in Messages /\ sends[w] \in Nat
        /\ sends' = [sends EXCEPT ![w] = sends[w] + 1]
        /\ array' = Append(array, m) /\ UNCHANGED <<position, received>>
    BY <1>2, <1>0, QueueAssumption DEF SendPush, Messages
  <2>2. /\ Len(array') = Len(array) + 1
        /\ \A i \in 1 .. Len(array) : array'[i] = array[i]
        /\ array'[Len(array) + 1] = m
    BY <2>1, <1>0, AppendProperties
  <2>3. \A i \in 1 .. Len(array) : array[i][1] \in Writers /\ array[i][2] \in Nat
    BY <1>0 DEF Messages
  <2>4. \A i \in 1 .. position : received'[i] = array'[i]
    BY <2>1, <2>2, <1>0 DEF History
  <2>5. \A i \in 1 .. Len(array) : array[i][2] <= sends'[array[i][1]]
    BY <2>1, <2>3, <1>0 DEF History
  <2>6. \A i \in 1 .. Len(array') : array'[i][2] <= sends'[array'[i][1]]
    BY <2>1, <2>2, <2>5, <1>0
  <2>7. \A i \in 1 .. Len(array) : array[i][1] = w => array[i][2] < sends[w] + 1
    BY <2>1, <2>3, <1>0 DEF History
  <2>8. \A i, j \in 1 .. Len(array') :
            i < j /\ array'[i][1] = array'[j][1] => array'[i][2] < array'[j][2]
    <3> SUFFICES ASSUME NEW i \in 1 .. Len(array'), NEW j \in 1 .. Len(array'),
                        i < j, array'[i][1] = array'[j][1]
                 PROVE  array'[i][2] < array'[j][2]
      OBVIOUS
    <3>1. i \in 1 .. Len(array)
      BY <2>2, <1>0
    <3>2. CASE j \in 1 .. Len(array)
      BY <3>1, <3>2, <2>2 DEF History
    <3>3. CASE j = Len(array) + 1
      BY <3>1, <3>3, <2>2, <2>7
    <3>4. j \in 1 .. Len(array) \/ j = Len(array) + 1
      <4>1. Len(array) \in Nat /\ j \in 1 .. Len(array) + 1
        BY <2>2, <1>0
      <4> QED
        BY <4>1
    <3> QED
      BY <3>2, <3>3, <3>4
  <2> QED
    BY <2>1, <2>4, <2>6, <2>8 DEF History
<1>3. ASSUME ReceiveTake PROVE History'
  <2>1. position < Len(array)
    BY <1>3 DEF ReceiveTake, Take, IInv, AssertionsHold, HasMessage
  <2>2. /\ array' = array /\ sends' = sends /\ position' = position + 1
        /\ received' = Append(received, array[position + 1])
    BY <1>3 DEF ReceiveTake, Take
  <2>3. array[position + 1] \in Messages
    BY <2>1, <1>0
  <2>4. /\ Len(received') = position + 1
        /\ \A i \in 1 .. position : received'[i] = received[i]
        /\ received'[position + 1] = array[position + 1]
    BY <2>2, <2>3, <1>0, AppendProperties DEF History
  <2>5. \A i \in 1 .. position' : received'[i] = array'[i]
    BY <2>2, <2>4, <1>0 DEF History
  <2> QED
    BY <2>2, <2>4, <2>5 DEF History
<1>4. ASSUME NEW w \in Writers, SendOutOfMemory(w) PROVE History'
  <2>1. /\ sends' = [sends EXCEPT ![w] = sends[w] + 1] /\ sends[w] \in Nat
        /\ UNCHANGED <<array, position, received>>
    BY <1>4, <1>0 DEF SendOutOfMemory
  <2>2. \A i \in 1 .. Len(array) : array[i][1] \in Writers /\ array[i][2] \in Nat
    BY <1>0 DEF Messages
  <2>3. \A i \in 1 .. Len(array) : array[i][2] <= sends'[array[i][1]]
    BY <2>1, <2>2, <1>0 DEF History
  <2> QED
    BY <2>1, <2>3 DEF History
<1>5. ASSUME NEW w \in Writers, SendStep(w)
      PROVE  UNCHANGED <<array, position, received, sends>>
  BY <1>5
  DEF SendStep, SendDrain, SendDrained, SendWrite, SendWriteFails, SendUnlock, queueVars
<1>6. ASSUME ReaderStep \/ ReaderSleepOn, ~ReceiveTake
      PROVE  UNCHANGED <<array, position, received, sends>>
  BY <1>6
  DEF ReaderStep, ReceiveStep, ReaderSleepOn, ReaderInsert, ReaderWake, ReaderClose,
      CheckEmpty, ReceiveReset, ReceiveResetDone, ReceiveUnlock, queueVars
<1>7. CASE UNCHANGED vars
  BY <1>7, <1>1 DEF vars
<1> QED
  BY <1>1, <1>2, <1>3, <1>4, <1>5, <1>6, <1>7 DEF Next, SendStart

\* Each writer's messages are received in the order sent, none of them twice.
THEOREM ReceivedInOrder == Spec => []InOrder
<1>1. Init => History
  BY EmptySeq DEF Init, History
<1>2. IInv /\ History => InOrder
  <2> SUFFICES ASSUME IInv, History,
                      NEW i \in 1 .. Len(received), NEW j \in 1 .. Len(received),
                      i < j, received[i][1] = received[j][1]
               PROVE  received[i][2] < received[j][2]
    BY DEF InOrder
  <2>1. position \in Nat /\ Len(array) \in Nat /\ position <= Len(array)
    BY LenProperties DEF IInv, TypeOK, AssertionsHold
  <2>2. i \in 1 .. Len(array) /\ j \in 1 .. Len(array)
    BY <2>1 DEF History
  <2>3. received[i] = array[i] /\ received[j] = array[j]
    BY DEF History
  <2> QED
    BY <2>2, <2>3 DEF History
<1> QED
  BY <1>1, <1>2, HistoryStep, Invariant, PTL DEF Spec
=============================================================================
