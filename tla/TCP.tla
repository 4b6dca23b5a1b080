-------------------------------- MODULE TCP ---------------------------------
(***************************************************************************)
(* std.network: connectors, a listener, streams, and the loops of          *)
(* sync_stream over reads and writes that do less than they were asked to. *)
(* Clients have a connector or a stream; the server has a listener and a   *)
(* stream.  Each is a thread that makes one call at a time and may destroy *)
(* what it has between calls.  Any system call may fail.                   *)
(***************************************************************************)
EXTENDS Sockets

CONSTANTS
    Clients, Server,
    Sizes           \* of the buffers given to sync_read and sync_write

Procs == Clients \cup {Server}

ASSUME TCPAssumption ==
    /\ Server \notin Clients
    /\ {MaxHandles, Capacity, Backlog, MaxBytes} \subseteq Nat \ {0}
    /\ Sizes \subseteq Nat \ {0}

VARIABLES
    connector,  \* the handle of each client's connector, or NoHandle
    listener,   \* the listener's handle and nextHandle
    stream,     \* the handle of each thread's stream, and isValid
    local,      \* a handle that only a local variable of the thread has
    call,       \* the call that each thread makes, with its size and position
    written,    \* bytes that were written to each thread's stream
    got,        \* bytes that were read from it
    leaked      \* handles that a destroyed listener had accepted

vars == <<sock, queue, connector, listener, stream, local, call, written, got, leaked>>

NoStream == [handle |-> NoHandle, isValid |-> FALSE]
Idle     == [pc |-> "idle", size |-> 0, position |-> 0]

Init ==
    /\ SocketsInit
    /\ connector = [c \in Clients |-> NoHandle]
    /\ listener = [handle |-> NoHandle, nextHandle |-> NoHandle]
    /\ stream = [p \in Procs |-> NoStream]
    /\ local = [p \in Procs |-> NoHandle]
    /\ call = [p \in Procs |-> Idle]
    /\ written = [p \in Procs |-> 0]
    /\ got = [p \in Procs |-> <<>>]
    /\ leaked = {}

In(p, pc)   == call[p].pc = pc
GoTo(p, pc) == call' = [call EXCEPT ![p] = [Idle EXCEPT !.pc = pc]]
Return(p)   == GoTo(p, "idle")
HasStream(p) == stream[p].handle # NoHandle

-----------------------------------------------------------------------------
\* connector(endpoint) and listener(port) begin alike.
Create(p) ==
    /\ In(p, "idle")
    /\ p \in Clients => connector[p] = NoHandle /\ ~HasStream(p)
    /\ p = Server => listener.handle = NoHandle
    /\ \E h \in Handles :
        /\ OpenSocket(h)
        /\ local' = [local EXCEPT ![p] = h]
    /\ GoTo(p, IF p = Server THEN "listen" ELSE "connect")
    /\ UNCHANGED <<connector, listener, stream, written, got, leaked>>

\* Setting an option, connect(), bind() or listen() fails, or getting the error
\* of a connector does: scope (failure) closes the handle.
CreateFails(p) ==
    /\ call[p].pc \in {"connect", "listen", "geterror"}
    /\ Close(local[p])
    /\ local' = [local EXCEPT ![p] = NoHandle]
    /\ Return(p)
    /\ UNCHANGED <<connector, listener, stream, written, got, leaked>>

Connect(c) ==
    /\ In(c, "connect")
    /\ StartConnect(local[c])
    /\ connector' = [connector EXCEPT ![c] = local[c]]
    /\ local' = [local EXCEPT ![c] = NoHandle]
    /\ Return(c)
    /\ UNCHANGED <<listener, stream, written, got, leaked>>

BindAndListen ==
    /\ In(Server, "listen")
    /\ Listen(local[Server])
    /\ listener' = [handle |-> local[Server], nextHandle |-> NoHandle]
    /\ local' = [local EXCEPT ![Server] = NoHandle]
    /\ Return(Server)
    /\ UNCHANGED <<connector, stream, written, got, leaked>>

DestroyConnector(c) ==
    /\ In(c, "idle") /\ connector[c] # NoHandle
    /\ Close(connector[c])
    /\ connector' = [connector EXCEPT ![c] = NoHandle]
    /\ UNCHANGED <<listener, stream, local, call, written, got, leaked>>

-----------------------------------------------------------------------------
\* connector_wait, and connector_get of a connector that is ready.
ConnectorWait(c) ==
    /\ In(c, "idle") /\ connector[c] # NoHandle
    /\ GoTo(c, "wait")
    /\ UNCHANGED <<sockets, connector, listener, stream, local, written, got, leaked>>

ConnectorGet(c) ==
    /\ In(c, "wait") /\ Writable(connector[c])
    /\ connector' = [connector EXCEPT ![c] = NoHandle]
    /\ local' = [local EXCEPT ![c] = connector[c]]
    /\ GoTo(c, "geterror")
    /\ UNCHANGED <<sockets, listener, stream, written, got, leaked>>

\* The wait throws: the connector, moved to the function, is destroyed.
ConnectorWaitThrows(c) ==
    /\ In(c, "wait")
    /\ Close(connector[c])
    /\ connector' = [connector EXCEPT ![c] = NoHandle]
    /\ Return(c)
    /\ UNCHANGED <<listener, stream, local, written, got, leaked>>

NewStream(p, h) ==
    /\ stream' = [stream EXCEPT ![p] = [handle |-> h, isValid |-> TRUE]]
    /\ UNCHANGED <<written, got>>

\* The connection was made.  (If it was not, CreateFails is what happens.)
ConnectorGetsNoError(c) ==
    /\ In(c, "geterror") /\ sock[local[c]].kind = "connected"
    /\ NewStream(c, local[c])
    /\ local' = [local EXCEPT ![c] = NoHandle]
    /\ Return(c)
    /\ UNCHANGED <<sockets, connector, listener, leaked>>

-----------------------------------------------------------------------------
\* listener.check(), alone and as part of wait().
ListenerCheck ==
    /\ In(Server, "idle") /\ listener.handle # NoHandle
    /\ \/ GoTo(Server, "check")
       \/ ~HasStream(Server) /\ GoTo(Server, "checkToGet")
    /\ UNCHANGED <<sockets, connector, listener, stream, local, written, got, leaked>>

Checking == call[Server].pc \in {"check", "checkToGet"}

\* What check() does when it is true: wait() goes on with get().
CheckTrue == IF In(Server, "check") THEN Return(Server) ELSE GoTo(Server, "get")

\* Mutant of CheckAccepts: a handle that was accepted before is not looked at.
CheckAcceptsAgain ==
    /\ Checking
    /\ \E h \in Handles : Accept(h) /\ listener' = [listener EXCEPT !.nextHandle = h]
    /\ CheckTrue
    /\ UNCHANGED <<connector, stream, local, written, got, leaked>>

CheckAccepts ==
    /\ Checking /\ listener.nextHandle = NoHandle
    /\ \E h \in Handles : Accept(h) /\ listener' = [listener EXCEPT !.nextHandle = h]
    /\ CheckTrue
    /\ UNCHANGED <<connector, stream, local, written, got, leaked>>

CheckHasHandle ==
    /\ Checking /\ listener.nextHandle # NoHandle
    /\ CheckTrue
    /\ UNCHANGED <<sockets, connector, listener, stream, local, written, got, leaked>>

\* accept() would block: wait() waits for the listener's event source.
CheckWouldBlock ==
    /\ Checking /\ listener.nextHandle = NoHandle /\ queue = <<>>
    /\ IF In(Server, "check") THEN Return(Server) ELSE GoTo(Server, "listenerWait")
    /\ UNCHANGED <<sockets, connector, listener, stream, local, written, got, leaked>>

\* accept() fails: check() throws.
CheckThrows ==
    /\ Checking /\ listener.nextHandle = NoHandle
    /\ Return(Server)
    /\ UNCHANGED <<sockets, connector, listener, stream, local, written, got, leaked>>

ListenerWakes ==
    /\ In(Server, "listenerWait") /\ Readable(listener.handle)
    /\ GoTo(Server, "checkToGet")
    /\ UNCHANGED <<sockets, connector, listener, stream, local, written, got, leaked>>

\* get(): the stream has the handle, the listener has not.
ListenerGet ==
    /\ In(Server, "get") \/ In(Server, "idle")
    /\ listener.nextHandle # NoHandle /\ ~HasStream(Server)
    /\ NewStream(Server, listener.nextHandle)
    /\ listener' = [listener EXCEPT !.nextHandle = NoHandle]
    /\ Return(Server)
    /\ UNCHANGED <<sockets, connector, local, leaked>>

\* The destructor closes handle, and leaves nextHandle open.
DestroyListener ==
    /\ In(Server, "idle") /\ listener.handle # NoHandle
    /\ Close(listener.handle)
    /\ leaked' = leaked \cup ({listener.nextHandle} \ {NoHandle})
    /\ listener' = [handle |-> NoHandle, nextHandle |-> NoHandle]
    /\ UNCHANGED <<connector, stream, local, call, written, got>>

-----------------------------------------------------------------------------
\* sync_stream and stream
Start(p, pc) ==
    /\ In(p, "idle") /\ HasStream(p)
    /\ \E n \in Sizes :
        /\ pc = "write" => written[p] + n <= MaxBytes
        /\ call' = [call EXCEPT ![p] = [pc |-> pc, size |-> n, position |-> 0]]
    /\ UNCHANGED <<sockets, connector, listener, stream, local, written, got, leaked>>

Handle(p) == stream[p].handle
Wanted(p) == call[p].size - call[p].position
Lesser(m, n) == IF m < n THEN m ELSE n

\* read_some or write_some did n bytes: the loop goes on at the next position,
\* or ends.
Advance(p, n) ==
    IF n = Wanted(p) THEN Return(p)
    ELSE call' = [call EXCEPT ![p].position = @ + n]

ReadSome(p) ==
    /\ In(p, "read") /\ sock[Handle(p)].in # <<>>
    /\ LET n == Lesser(Wanted(p), Len(sock[Handle(p)].in))
       IN  /\ ReceiveBytes(Handle(p), n)
           /\ got' = [got EXCEPT ![p] = @ \o SubSeq(sock[Handle(p)].in, 1, n)]
           /\ Advance(p, n)
    /\ UNCHANGED <<connector, listener, stream, local, written, leaked>>

\* Bytes of a buffer: those written to a stream are numbered from one.
Buffer(p, from, n) == [i \in 1 .. n |-> written[p] + from + i]

\* Mutant of WriteSome: it goes on from the beginning of the buffer.
WriteStartsAgain(p) ==
    /\ In(p, "write") /\ Connected(Handle(p)) /\ Space(Handle(p)) > 0
    /\ LET n == Lesser(Wanted(p), Space(Handle(p)))
       IN  /\ SendBytes(Handle(p), Buffer(p, 0, n))
           /\ written' = [written EXCEPT ![p] = IF n = Wanted(p) THEN @ + call[p].size ELSE @]
           /\ Advance(p, n)
    /\ UNCHANGED <<connector, listener, stream, local, got, leaked>>

WriteSome(p) ==
    /\ In(p, "write") /\ Connected(Handle(p)) /\ Space(Handle(p)) > 0
    /\ LET n == Lesser(Wanted(p), Space(Handle(p)))
       IN  /\ SendBytes(Handle(p), Buffer(p, call[p].position, n))
           /\ written' = [written EXCEPT ![p] = IF n = Wanted(p) THEN @ + call[p].size ELSE @]
           /\ Advance(p, n)
    /\ UNCHANGED <<connector, listener, stream, local, got, leaked>>

WriteIsLost(p) ==
    /\ In(p, "write") /\ sock[Handle(p)].kind = "connected" /\ ~Connected(Handle(p))
    /\ SendIsLost(Handle(p))
    /\ written' = [written EXCEPT ![p] = @ + call[p].size]
    /\ Return(p)
    /\ UNCHANGED <<connector, listener, stream, local, got, leaked>>

\* A call that throws does not say how much of the buffer was taken.
TakenOf(p) == IF call[p].pc \in {"write", "writeWait"} THEN call[p].position ELSE 0

\* recv() or send() fails, and the stream is not valid from then on; or it does no
\* bytes, and the stream was not valid before.  The call throws.
IOFails(p) ==
    /\ call[p].pc \in {"read", "write"}
    /\ stream' = [stream EXCEPT ![p].isValid = FALSE]
    /\ written' = [written EXCEPT ![p] = @ + TakenOf(p)]
    /\ Return(p)
    /\ UNCHANGED <<sockets, connector, listener, local, got, leaked>>

\* recv() would block, or it returns no bytes because the other end has closed
\* the connection: both are zero bytes to sync_read, of a stream that is valid.
ReadNothing(p) ==
    /\ In(p, "read") /\ stream[p].isValid
    /\ sock[Handle(p)].kind = "connected" /\ sock[Handle(p)].in = <<>>
    /\ call' = [call EXCEPT ![p].pc = "readWait"]
    /\ UNCHANGED <<sockets, connector, listener, stream, local, written, got, leaked>>

WriteNothing(p) ==
    /\ In(p, "write") /\ stream[p].isValid /\ Connected(Handle(p)) /\ Space(Handle(p)) = 0
    /\ call' = [call EXCEPT ![p].pc = "writeWait"]
    /\ UNCHANGED <<sockets, connector, listener, stream, local, written, got, leaked>>

\* Mutant of StreamWakes: write_source() waits for reading.
WaitsForRead(p) ==
    /\ call[p].pc \in {"readWait", "writeWait"} /\ Readable(Handle(p))
    /\ call' = [call EXCEPT ![p].pc = IF @ = "readWait" THEN "read" ELSE "write"]
    /\ UNCHANGED <<sockets, connector, listener, stream, local, written, got, leaked>>

StreamWakes(p) ==
    /\ \/ In(p, "readWait") /\ Readable(Handle(p))
       \/ In(p, "writeWait") /\ Writable(Handle(p))
    /\ call' = [call EXCEPT ![p].pc = IF @ = "readWait" THEN "read" ELSE "write"]
    /\ UNCHANGED <<sockets, connector, listener, stream, local, written, got, leaked>>

\* The wait set for a wait cannot be made: the call throws.
WaitThrows(p) ==
    /\ call[p].pc \in {"readWait", "writeWait", "listenerWait"}
    /\ written' = [written EXCEPT ![p] = @ + TakenOf(p)]
    /\ Return(p)
    /\ UNCHANGED <<sockets, connector, listener, stream, local, got, leaked>>

DestroyStream(p) ==
    /\ In(p, "idle") /\ HasStream(p)
    /\ Close(Handle(p))
    /\ stream' = [stream EXCEPT ![p] = NoStream]
    /\ written' = [written EXCEPT ![p] = 0]
    /\ got' = [got EXCEPT ![p] = <<>>]
    /\ UNCHANGED <<connector, listener, local, call, leaked>>

-----------------------------------------------------------------------------
Begin(p) ==
    \/ Create(p) \/ DestroyStream(p)
    \/ Start(p, "read") \/ Start(p, "write")

ClientStep(c) == Connect(c) \/ ConnectorGet(c) \/ ConnectorGetsNoError(c)
ServerStep ==
    \/ BindAndListen \/ CheckAccepts \/ CheckHasHandle \/ CheckWouldBlock \/ CheckThrows
    \/ ListenerWakes \/ ListenerGet
StreamStep(p) ==
    \/ ReadSome(p) \/ ReadNothing(p) \/ WriteSome(p) \/ WriteIsLost(p) \/ WriteNothing(p)
    \/ IOFails(p) \/ StreamWakes(p)

Network == (\E h \in Handles : Handshake(h))
    /\ UNCHANGED <<connector, listener, stream, local, call, written, got, leaked>>

Next ==
    \/ \E p \in Procs : Begin(p) \/ CreateFails(p) \/ StreamStep(p) \/ WaitThrows(p)
    \/ \E c \in Clients :
        DestroyConnector(c) \/ ConnectorWait(c) \/ ConnectorWaitThrows(c) \/ ClientStep(c)
    \/ ListenerCheck \/ DestroyListener \/ ServerStep
    \/ Network

\* A thread that is in a call of a stream goes on with it.
Fairness == \A p \in Procs : WF_vars(StreamStep(p))

Spec == Init /\ [][Next]_vars /\ Fairness

-----------------------------------------------------------------------------
TypeOK ==
    /\ SocketsTypeOK
    /\ connector \in [Clients -> Handles \cup {NoHandle}]
    /\ listener \in [handle : Handles \cup {NoHandle}, nextHandle : Handles \cup {NoHandle}]
    /\ stream \in [Procs -> [handle : Handles \cup {NoHandle}, isValid : BOOLEAN]]
    /\ \A p \in Procs : call[p].position \in 0 .. call[p].size
    /\ written \in [Procs -> 0 .. MaxBytes]
    /\ \A h \in Handles : Len(sock[h].in) <= Capacity

\* Everything that will be closed, with who will close it.
Owners ==
    {<<"connector", c, connector[c]>> : c \in Clients}
    \cup {<<"local", p, local[p]>> : p \in Procs} \cup {<<"stream", p, Handle(p)>> : p \in Procs}
    \cup {<<"listener", Server, listener.handle>>, <<"next", Server, listener.nextHandle>>}

\* A handle that is open belongs to one object or local variable, which closes
\* it; and what an object has is open, so nothing is used after it was closed, or
\* closed twice.  What is left open is only what a listener had accepted.
HandlesOwnedOnce ==
    \A h \in Handles :
        LET owners == {o \in Owners : o[3] = h}
        IN  IF h \in leaked THEN owners = {} /\ ~IsFree(h)
            ELSE Cardinality(owners) = (IF IsFree(h) THEN 0 ELSE 1)

\* What is read from a stream is what was written to the other end: every byte
\* once and in order, whatever each read and write took.
BytesInOrder == \A p \in Procs : \A i \in DOMAIN got[p] : got[p][i] = i

\* A sync_read whose bytes have arrived returns them; a sync_write returns when
\* there is room for the rest, or throws if there is nobody to read it.
SyncCallsEnd ==
    \A p \in Procs :
        /\ call[p].pc \in {"read", "readWait"} /\ Len(sock[Handle(p)].in) >= Wanted(p)
               ~> call[p].pc \notin {"read", "readWait"}
        /\ call[p].pc \in {"write", "writeWait"}
           /\ (Connected(Handle(p)) => Space(Handle(p)) >= Wanted(p))
               ~> call[p].pc \notin {"write", "writeWait"}
=============================================================================
