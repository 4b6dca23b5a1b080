---------------------------- MODULE EventSource ----------------------------
(***************************************************************************)
(* The kernel objects under std.event: the pipe of every event generator   *)
(* and the epoll instance of every wait set, at the granularity of one     *)
(* system call.  A generator of std.event is a pipe whose read end does    *)
(* not block; an event is a byte in the pipe.  A wait set is an epoll      *)
(* instance; it holds the sources inserted into it and the kernel's list   *)
(* of those it believes to be readable, which it checks again whenever     *)
(* epoll_wait is called.                                                   *)
(*                                                                         *)
(* The module declares state and steps only.  EventGenerator drives it     *)
(* with unsynchronised callers, MessageQueue and Thread with theirs.       *)
(***************************************************************************)
EXTENDS Naturals, FiniteSets

CONSTANTS
    Generators,     \* the event generators: one pipe each
    WaitSets,       \* the wait sets: one epoll instance each
    EdgeTriggered,  \* the wait sets created by wait_set::edge_triggered
    PipeCapacity,   \* bytes a pipe holds before its write end blocks
    MaxEvents       \* MAX_EVENTS, the events one epoll_wait reports

ASSUME EventAssumption ==
    /\ EdgeTriggered \subseteq WaitSets
    /\ PipeCapacity \in Nat \ {0}
    /\ MaxEvents \in Nat \ {0}

VARIABLES
    bytes,      \* bytes in the pipe of each generator
    inserted,   \* the pairs <<w, g>> such that g was inserted into w
    ready       \* the pairs of inserted on the ready list of their wait set

eventVars == <<bytes, inserted, ready>>

EventTypeOK ==
    /\ bytes \in [Generators -> Nat]
    /\ inserted \subseteq WaitSets \X Generators
    /\ ready \subseteq inserted

\* Every pipe has just been created and is in no wait set.
EventInit ==
    /\ bytes = [g \in Generators |-> 0]
    /\ inserted = {}
    /\ ready = {}

-----------------------------------------------------------------------------
\* System calls on a pipe.

\* read() of one byte that finds one.
ReadByte(g) ==
    /\ bytes[g] > 0
    /\ bytes' = [bytes EXCEPT ![g] = @ - 1]
    /\ UNCHANGED <<inserted, ready>>

\* read() that finds the pipe empty: EAGAIN, as the read end does not block.
ReadWouldBlock(g) ==
    /\ bytes[g] = 0
    /\ UNCHANGED eventVars

\* The wait sets of g, whose callbacks a write runs.
Watching(g) == inserted \cap (WaitSets \X {g})

\* write() of one byte.  The write end blocks, so a full pipe delays it.  A
\* write to an empty pipe runs the epoll callbacks; whether a write to a pipe
\* that already holds a byte does so depends on the kernel's version.
WriteByte(g) ==
    /\ bytes[g] < PipeCapacity
    /\ bytes' = [bytes EXCEPT ![g] = @ + 1]
    /\ \/ ready' = ready \cup Watching(g)
       \/ bytes[g] > 0 /\ UNCHANGED ready
    /\ UNCHANGED inserted

\* close() of both ends: the epoll instances forget the pipe.
ClosePipe(g) ==
    /\ bytes' = [bytes EXCEPT ![g] = 0]
    /\ inserted' = inserted \ Watching(g)
    /\ ready' = ready \ Watching(g)

-----------------------------------------------------------------------------
\* System calls on an epoll instance.

\* wait_set.insert: EPOLL_CTL_ADD puts a source that is readable on the ready
\* list at once.  A second insertion throws wait_insert_failed and changes
\* nothing.
Insert(w, g) ==
    /\ <<w, g>> \notin inserted
    /\ inserted' = inserted \cup {<<w, g>>}
    /\ ready' = IF bytes[g] > 0 THEN ready \cup {<<w, g>>} ELSE ready
    /\ UNCHANGED bytes

\* close() of an epoll instance.
CloseWaitSet(w) ==
    /\ inserted' = inserted \ ({w} \X Generators)
    /\ ready' = ready \ ({w} \X Generators)
    /\ UNCHANGED bytes

OnReadyList(w) == {g \in Generators : <<w, g>> \in ready}
Readable(G)    == {g \in G : bytes[g] > 0}

\* Mutant of TakeReady: every wait set is treated as edge triggered.
TakeReadyAsEdge(w, Taken) ==
    /\ Taken \subseteq OnReadyList(w)
    /\ ready' = ready \ ({w} \X Taken)
    /\ UNCHANGED <<bytes, inserted>>

\* epoll_wait takes the entries of Taken from the ready list of w, checks each
\* again, reports the readable ones, and puts these back unless w is edge
\* triggered.  It takes every entry, or stops at MaxEvents reports.
TakeReady(w, Taken) ==
    /\ Taken \subseteq OnReadyList(w)
    /\ Cardinality(Readable(Taken)) <= MaxEvents
    /\ Taken = OnReadyList(w) \/ Cardinality(Readable(Taken)) = MaxEvents
    /\ ready' = ready \ ({w} \X (IF w \in EdgeTriggered
                                 THEN Taken
                                 ELSE Taken \ Readable(Taken)))
    /\ UNCHANGED <<bytes, inserted>>

\* epoll_wait with no timeout returns: something was reported.
WaitReturns(w) ==
    \E Taken \in SUBSET OnReadyList(w) :
        Readable(Taken) # {} /\ TakeReady(w, Taken)

\* epoll_wait finds nothing to report: with no timeout it sleeps on, with a
\* zero timeout it returns 0.
WaitFindsNothing(w) ==
    Readable(OnReadyList(w)) = {} /\ TakeReady(w, OnReadyList(w))
=============================================================================
