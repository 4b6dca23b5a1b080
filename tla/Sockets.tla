------------------------------ MODULE Sockets -------------------------------
(***************************************************************************)
(* The sockets that std.network uses: the system calls of                  *)
(* internal_stream.c, on one port of one machine.  Handles are small       *)
(* numbers, and the lowest that is free is given out next, so a handle     *)
(* that is used or closed after it was closed may be somebody else's.      *)
(***************************************************************************)
EXTENDS Integers, Sequences, FiniteSets, FiniteSetsExt

CONSTANTS
    MaxHandles,     \* bound: handles the process may have
    Capacity,       \* bytes that a connection holds in one direction
    Backlog,        \* connections that a listener holds
    MaxBytes        \* bound: bytes written to one end of a connection

Handles == 1 .. MaxHandles
NoHandle == -1

VARIABLES
    sock,   \* what each handle is
    queue   \* connections that were not accepted yet, with what was sent early

sockets == <<sock, queue>>

\* The other end of a connection: a handle, or one of these.
Gone    == 0
Pending == -1

Socket(kind) == [kind |-> kind, peer |-> Gone, in |-> <<>>]

Kinds == {"free", "new", "connecting", "refused", "connected", "reset", "listening"}

SocketsTypeOK ==
    /\ sock \in [Handles -> [kind : Kinds, peer : Handles \cup {Gone, Pending},
                             in : Seq(1 .. MaxBytes)]]
    /\ Len(queue) <= Backlog
    /\ \A i \in DOMAIN queue : queue[i].from \in Handles \cup {Gone}

SocketsInit == sock = [h \in Handles |-> Socket("free")] /\ queue = <<>>

IsFree(h)    == sock[h].kind = "free"
FreeHandles  == {h \in Handles : IsFree(h)}
Listening    == {h \in Handles : sock[h].kind = "listening"}

\* socket() returns handle h.
OpenSocket(h) ==
    /\ FreeHandles # {} /\ h = Min(FreeHandles)
    /\ sock' = [sock EXCEPT ![h] = Socket("new")]
    /\ UNCHANGED queue

\* close().  The other end reads what was sent, and then the end of the stream, or
\* an error if bytes were left that nobody had read.  Connections that were not
\* accepted are reset.
Close(h) ==
    LET p == sock[h].peer
    IN  /\ sock' = [g \in Handles |->
                        IF g = h THEN Socket("free")
                        ELSE IF sock[h].kind = "listening" /\ \E i \in DOMAIN queue : queue[i].from = g
                        THEN [sock[g] EXCEPT !.kind = "reset", !.peer = Gone]
                        ELSE IF g = p
                        THEN [sock[g] EXCEPT !.kind = IF sock[h].in = <<>> THEN @ ELSE "reset",
                                             !.peer = Gone]
                        ELSE sock[g]]
        /\ queue' = IF sock[h].kind = "listening" THEN <<>>
                    ELSE [i \in DOMAIN queue |->
                            IF queue[i].from = h THEN [queue[i] EXCEPT !.from = Gone] ELSE queue[i]]

\* connect() on a socket that does not block.
StartConnect(h) == sock' = [sock EXCEPT ![h].kind = "connecting"] /\ UNCHANGED queue

\* The other end answers.
Handshake(h) ==
    /\ sock[h].kind = "connecting"
    /\ IF Listening = {}
       THEN sock' = [sock EXCEPT ![h].kind = "refused"] /\ UNCHANGED queue
       ELSE /\ Len(queue) < Backlog
            /\ sock' = [sock EXCEPT ![h].kind = "connected", ![h].peer = Pending]
            /\ queue' = Append(queue, [from |-> h, early |-> <<>>])

\* bind() and listen(); one socket at a time has the port.
Listen(h) ==
    /\ Listening = {}
    /\ sock' = [sock EXCEPT ![h].kind = "listening"]
    /\ UNCHANGED queue

\* accept() returns handle h.
Accept(h) ==
    /\ queue # <<>> /\ FreeHandles # {} /\ h = Min(FreeHandles)
    /\ LET c == Head(queue)
       IN  sock' = [g \in Handles |->
                        IF g = h THEN [kind |-> "connected", peer |-> c.from, in |-> c.early]
                        ELSE IF g = c.from THEN [sock[g] EXCEPT !.peer = h]
                        ELSE sock[g]]
    /\ queue' = Tail(queue)

\* What has been sent by h and not been received.
Underway(h) ==
    IF sock[h].peer = Pending
    THEN queue[CHOOSE i \in DOMAIN queue : queue[i].from = h].early
    ELSE sock[sock[h].peer].in

Connected(h) == sock[h].kind = "connected" /\ sock[h].peer # Gone
Space(h)     == Capacity - Len(Underway(h))

\* send() takes these bytes.
SendBytes(h, data) ==
    IF sock[h].peer = Pending
    THEN /\ queue' = [i \in DOMAIN queue |->
                        IF queue[i].from = h THEN [queue[i] EXCEPT !.early = @ \o data] ELSE queue[i]]
         /\ UNCHANGED sock
    ELSE /\ sock' = [sock EXCEPT ![sock[h].peer].in = @ \o data]
         /\ UNCHANGED queue

\* send() to an end that has gone takes the bytes, and the answer is a reset.
SendIsLost(h) ==
    /\ sock' = [sock EXCEPT ![h].kind = "reset"]
    /\ UNCHANGED queue

\* recv() returns the first n bytes.
ReceiveBytes(h, n) ==
    /\ sock' = [sock EXCEPT ![h].in = SubSeq(@, n + 1, Len(@))]
    /\ UNCHANGED queue

\* What wakes a wait for reading or writing.
Readable(h) ==
    CASE sock[h].kind = "listening" -> queue # <<>>
      [] sock[h].kind = "connected" -> sock[h].in # <<>> \/ sock[h].peer = Gone
      [] OTHER -> sock[h].kind \in {"refused", "reset"}

Writable(h) ==
    \/ sock[h].kind \in {"refused", "reset"}
    \/ sock[h].kind = "connected" /\ (Connected(h) => Space(h) > 0)
=============================================================================
