------------------------------ MODULE TCP_proof ------------------------------
(***************************************************************************)
(* Proofs about TCP, for any number of clients, handles and bytes.  The    *)
(* sockets are paired, and forget each other when one is closed: so only   *)
(* the handle that is closed becomes free.  With that, what each thread    *)
(* holds at each point of its calls shows that every open handle has one   *)
(* owner, and counting what each end has written and read shows that the   *)
(* bytes arrive in order.                                                  *)
(***************************************************************************)
EXTENDS TCP, SequenceTheorems, FiniteSetTheorems, WellFoundedInduction, NaturalsInduction, TLAPS

ClientCalls == {"idle", "connect", "wait", "geterror", "read", "write", "readWait", "writeWait"}
ServerCalls == {"idle", "listen", "check", "checkToGet", "listenerWait", "get",
                "read", "write", "readWait", "writeWait"}
StreamCalls == {"read", "write", "readWait", "writeWait"}

SocketStates == [kind : Kinds, peer : Handles \cup {Gone, Pending}, in : Seq(Nat)]
Entries      == [from : Handles \cup {Gone}, early : Seq(Nat)]

SockShape ==
    /\ sock \in [Handles -> SocketStates]
    /\ queue \in Seq(Entries)

Calls == [pc : ClientCalls \cup ServerCalls, size : Nat, position : Nat]

ThreadShape ==
    /\ connector \in [Clients -> Handles \cup {NoHandle}]
    /\ listener \in [handle : Handles \cup {NoHandle}, nextHandle : Handles \cup {NoHandle}]
    /\ stream \in [Procs -> [handle : Handles \cup {NoHandle}, isValid : BOOLEAN]]
    /\ local \in [Procs -> Handles \cup {NoHandle}]
    /\ call \in [Procs -> Calls]
    /\ written \in [Procs -> Nat] /\ got \in [Procs -> Seq(Nat)]
    /\ leaked \subseteq Handles

\* The two ends of a connection know each other, or the queue knows the one
\* that was not accepted yet.
EndsInv ==
    /\ \A h \in Handles : sock[h].peer # Gone => sock[h].kind = "connected"
    /\ \A h \in Handles : sock[h].peer \in Handles => sock[sock[h].peer].peer = h
    /\ \A h \in Handles : sock[h].peer = Pending => \E i \in DOMAIN queue : queue[i].from = h
    /\ \A i \in DOMAIN queue : queue[i].from # Gone => sock[queue[i].from].peer = Pending
    /\ \A i, j \in DOMAIN queue : queue[i].from = queue[j].from /\ queue[i].from # Gone => i = j

\* What a thread has at each point of its calls.
ClientAt(c) ==
    /\ call[c].pc \in ClientCalls
    /\ connector[c] # NoHandle => call[c].pc \in {"idle", "wait"} /\ ~HasStream(c)
    /\ call[c].pc = "wait" => connector[c] # NoHandle
    /\ local[c] # NoHandle => ~HasStream(c)
ClientInv == \A c \in Clients : ClientAt(c)

ServerInv ==
    /\ call[Server].pc \in ServerCalls
    /\ call[Server].pc = "listen" => listener.handle = NoHandle
    /\ call[Server].pc \in {"check", "checkToGet", "listenerWait", "get"}
           => listener.handle # NoHandle
    /\ call[Server].pc \in {"checkToGet", "listenerWait", "get"} => ~HasStream(Server)
    /\ listener.nextHandle # NoHandle => listener.handle # NoHandle

ProcAt(p) ==
    /\ local[p] # NoHandle <=> call[p].pc \in {"connect", "listen", "geterror"}
    /\ call[p].pc \in {"connect", "listen"} => sock[local[p]].kind = "new"
    /\ call[p].pc \in StreamCalls => HasStream(p)
ProcInv == \A p \in Procs : ProcAt(p)

\* The places that have a handle, and the handle each has.
Places ==
    ({"connector"} \X Clients) \cup ({"local", "stream"} \X Procs)
    \cup {<<"listener", Server>>, <<"next", Server>>}
Has == [s \in Places |->
    IF s[1] = "connector" THEN connector[s[2]]
    ELSE IF s[1] = "local" THEN local[s[2]]
    ELSE IF s[1] = "stream" THEN stream[s[2]].handle
    ELSE IF s[1] = "listener" THEN listener.handle ELSE listener.nextHandle]

\* Every open handle is in one place, or was leaked.
PlaceInv ==
    /\ \A s, t \in Places : Has[s] = Has[t] /\ Has[s] # NoHandle => s = t
    /\ \A s \in Places : Has[s] # NoHandle => ~IsFree(Has[s]) /\ Has[s] \notin leaked
    /\ \A h \in Handles : ~IsFree(h) => h \in leaked \/ \E s \in Places : Has[s] = h
    /\ \A h \in leaked : ~IsFree(h)

OwnInv == SockShape /\ EndsInv /\ ThreadShape /\ ClientInv /\ ServerInv /\ ProcInv /\ PlaceInv

\* What the thread that has handle h as its stream has written and read.
Taken(p) == written[p] + (IF call[p].pc \in {"write", "writeWait"} THEN call[p].position ELSE 0)
IsStream(h) == \E p \in Procs : stream[p].handle = h
Sent(h) == IF IsStream(h) THEN Taken(CHOOSE p \in Procs : stream[p].handle = h) ELSE 0
Read(h) == IF IsStream(h) THEN Len(got[CHOOSE p \in Procs : stream[p].handle = h]) ELSE 0

\* A handle that bytes may be sent from or to is a connection.
KindInv ==
    /\ \A p \in Procs : HasStream(p) => sock[stream[p].handle].kind \in {"connected", "reset"}
    /\ listener.nextHandle # NoHandle => sock[listener.nextHandle].kind \in {"connected", "reset"}
    /\ \A h \in Handles : sock[h].kind \notin {"connected", "reset"} => sock[h].in = <<>>

\* What p has read is what was written to its stream's other end, from the first
\* byte on.
GotAt(p) ==
    /\ \A i \in DOMAIN got[p] : got[p][i] = i
    /\ ~HasStream(p) => written[p] = 0 /\ got[p] = <<>>

\* What is underway to h goes on where its reader is, up to where the writer is.
InAt(h) ==
    /\ \A i \in DOMAIN sock[h].in : sock[h].in[i] = Read(h) + i
    /\ sock[h].peer \in Handles => Read(h) + Len(sock[h].in) = Sent(sock[h].peer)
    /\ sock[h].peer = Pending => Read(h) = 0 /\ sock[h].in = <<>>

EarlyAt(k) ==
    /\ \A i \in DOMAIN queue[k].early : queue[k].early[i] = i
    /\ queue[k].from # Gone => Len(queue[k].early) = Sent(queue[k].from)

BytesInv ==
    /\ \A p \in Procs : GotAt(p)
    /\ \A h \in Handles : InAt(h)
    /\ \A k \in DOMAIN queue : EarlyAt(k)

\* A call is not past its end.
Within(p) == call[p].position <= call[p].size
WithinInv == \A p \in Procs : Within(p)

TCPInv == OwnInv /\ WithinInv /\ KindInv /\ BytesInv

-----------------------------------------------------------------------------
\* Handles are numbers, so the smallest free one is one of them.
LEMMA LeastElement ==
    ASSUME NEW S \in SUBSET Nat, S # {}
    PROVE  \E m \in S : \A y \in S : m <= y
<1> DEFINE R == OpToRel(<, Nat)
<1>1. IsWellFoundedOn(R, Nat)
  BY NatLessThanWellFounded
<1>2. PICK m \in S : \A y \in S : ~(<<y, m>> \in R)
  <2> HIDE DEF R
  <2> QED
    BY <1>1, WFMin
<1>3. \A y \in S : ~(y < m)
  BY <1>2 DEF OpToRel
<1> QED
  BY <1>3

LEMMA HandleRange ==
    /\ Handles \subseteq Nat
    /\ \A h \in Handles : h # NoHandle /\ h # Gone /\ h # Pending
    /\ Gone # Pending /\ NoHandle \notin Handles
  BY TCPAssumption DEF Handles, NoHandle, Gone, Pending

LEMMA LowestIsFree ==
    ASSUME FreeHandles # {}
    PROVE  Min(FreeHandles) \in Handles /\ IsFree(Min(FreeHandles))
<1>1. FreeHandles \in SUBSET Nat
  BY HandleRange DEF FreeHandles
<1>2. PICK m \in FreeHandles : \A y \in FreeHandles : m <= y
  BY <1>1, LeastElement
<1>3. Min(FreeHandles) \in FreeHandles
  BY <1>2 DEF Min
<1> QED
  BY <1>3 DEF FreeHandles

LEMMA Fields ==
    ASSUME SockShape
    PROVE  /\ \A h \in Handles : /\ sock[h] \in SocketStates /\ sock[h].kind \in Kinds
                                  /\ sock[h].peer \in Handles \cup {Gone, Pending}
                                  /\ sock[h].in \in Seq(Nat)
           /\ Len(queue) \in Nat /\ DOMAIN queue = 1 .. Len(queue)
           /\ \A i \in DOMAIN queue : /\ queue[i] \in Entries
                                       /\ queue[i].from \in Handles \cup {Gone}
                                       /\ queue[i].early \in Seq(Nat)
<1>1. queue \in Seq(Entries) /\ sock \in [Handles -> SocketStates]
  BY DEF SockShape
<1>2. \A h \in Handles : sock[h] \in SocketStates
  BY <1>1
<1>3. Len(queue) \in Nat /\ DOMAIN queue = 1 .. Len(queue) /\ \A i \in DOMAIN queue : queue[i] \in Entries
  BY <1>1, LenProperties, ElementOfSeq
<1> QED
  BY <1>2, <1>3 DEF SocketStates, Entries

LEMMA NewSocket ==
    ASSUME NEW k \in Kinds
    PROVE  /\ Socket(k) \in SocketStates /\ Socket(k).peer = Gone /\ Socket(k).kind = k
           /\ Socket(k).in = <<>>
  BY EmptySeq DEF Socket, SocketStates

-----------------------------------------------------------------------------
\* What a system call may do to a handle that it is not called with: a
\* connection may be reset, and nothing else changes that matters here.
Kept(g) ==
    /\ sock'[g].kind # sock[g].kind => sock[g].kind = "connected" /\ sock'[g].kind = "reset"
    /\ sock'[g].in = sock[g].in
    /\ sock'[g].peer = sock[g].peer \/ sock'[g].peer = Gone

LEMMA OpenEffect ==
    ASSUME SockShape, EndsInv, NEW h, OpenSocket(h)
    PROVE  /\ h \in Handles /\ IsFree(h) /\ sock'[h] = Socket("new")
           /\ \A g \in Handles \ {h} : sock'[g] = sock[g]
           /\ queue' = queue /\ SockShape' /\ EndsInv'
<1>1. h \in Handles /\ IsFree(h)
  BY LowestIsFree DEF OpenSocket
<1>2. /\ sock'[h] = Socket("new")
      /\ \A g \in Handles \ {h} : sock'[g] = sock[g]
      /\ queue' = queue
  BY <1>1 DEF OpenSocket, SockShape
<1>3. SockShape'
  <2>1. Socket("new") \in SocketStates
    BY NewSocket DEF Kinds
  <2> QED
    BY <1>1, <2>1 DEF SockShape, OpenSocket
<1>4. sock[h].peer = Gone /\ \A g \in Handles : sock[g].peer # h
  <2>1. sock[h].peer = Gone
    BY <1>1 DEF EndsInv, IsFree
  <2> QED
    BY <1>1, <2>1, HandleRange DEF EndsInv
<1>5. sock'[h].peer = Gone
  BY <1>2, NewSocket DEF Kinds
<1>6. EndsInv'
  <2>1. \A g \in Handles : sock'[g].peer # Gone => sock'[g].kind = "connected"
    BY <1>2, <1>5 DEF EndsInv
  <2>2. \A g \in Handles : sock'[g].peer \in Handles => sock'[sock'[g].peer].peer = g
    <3>1. ASSUME NEW g \in Handles, sock'[g].peer \in Handles
          PROVE  sock'[sock'[g].peer].peer = g
      <4>1. g # h /\ sock'[g] = sock[g]
        BY <1>2, <1>5, <3>1, HandleRange
      <4>2. sock[g].peer \in Handles \ {h} /\ sock[sock[g].peer].peer = g
        BY <1>4, <3>1, <4>1 DEF EndsInv
      <4> QED
        BY <1>2, <4>1, <4>2
    <3> QED
      BY <3>1
  <2>3. \A g \in Handles : sock'[g].peer = Pending => \E i \in DOMAIN queue' : queue'[i].from = g
    BY <1>2, <1>5, HandleRange DEF EndsInv
  <2>4. \A i \in DOMAIN queue' : queue'[i].from # Gone => sock'[queue'[i].from].peer = Pending
    <3>1. ASSUME NEW i \in DOMAIN queue, queue[i].from # Gone
          PROVE  sock'[queue[i].from].peer = Pending
      <4>1. queue[i].from \in Handles /\ sock[queue[i].from].peer = Pending
        BY <3>1, Fields DEF EndsInv
      <4>2. queue[i].from # h
        BY <1>4, <4>1, HandleRange
      <4> QED
        BY <1>2, <4>1, <4>2
    <3> QED
      BY <1>2, <3>1
  <2>5. \A i, j \in DOMAIN queue' : queue'[i].from = queue'[j].from /\ queue'[i].from # Gone => i = j
    BY <1>2 DEF EndsInv
  <2> QED
    BY <2>1, <2>2, <2>3, <2>4, <2>5 DEF EndsInv
<1> QED
  BY <1>1, <1>2, <1>3, <1>6

LEMMA CloseEffect ==
    ASSUME SockShape, EndsInv, NEW h \in Handles, Close(h)
    PROVE  /\ sock'[h] = Socket("free")
           /\ \A g \in Handles \ {h} : Kept(g) /\ sock'[g].peer # h
           /\ DOMAIN queue' \subseteq DOMAIN queue
           /\ \A i \in DOMAIN queue' : /\ queue'[i].early = queue[i].early
                                       /\ queue'[i].from = queue[i].from \/ queue'[i].from = Gone
           /\ SockShape' /\ EndsInv'
<1>1. /\ sock'[h] = Socket("free")
      /\ \A g \in Handles \ {h} :
            sock'[g] = IF sock[h].kind = "listening" /\ \E i \in DOMAIN queue : queue[i].from = g
                       THEN [sock[g] EXCEPT !.kind = "reset", !.peer = Gone]
                       ELSE IF g = sock[h].peer
                       THEN [sock[g] EXCEPT !.kind = IF sock[h].in = <<>> THEN @ ELSE "reset",
                                            !.peer = Gone]
                       ELSE sock[g]
      /\ DOMAIN sock' = Handles
  BY DEF Close
<1>2. \A g \in Handles : sock[g] \in SocketStates
  BY Fields
<1>3. \A i \in DOMAIN queue : /\ queue[i].from \in Handles \cup {Gone}
                              /\ queue[i].from # Gone => sock[queue[i].from].kind = "connected"
  <2>1. ASSUME NEW i \in DOMAIN queue, queue[i].from # Gone
        PROVE  sock[queue[i].from].kind = "connected"
    <3>1. queue[i].from \in Handles /\ sock[queue[i].from].peer = Pending
      BY <2>1, Fields DEF EndsInv
    <3> QED
      BY <3>1, HandleRange DEF EndsInv
  <2> QED
    BY <2>1, Fields
<1>4. ASSUME NEW g \in Handles \ {h}
      PROVE  /\ Kept(g) /\ sock'[g].peer # h
             /\ sock'[g] \in SocketStates
             /\ sock'[g].peer = sock[g].peer => sock'[g].kind = sock[g].kind \/ sock[g].peer = Gone
             /\ sock[g].peer = Gone => sock'[g] = sock[g]
  <2>1. sock[g] \in SocketStates
    BY <1>2
  <2>2. CASE sock[h].kind = "listening" /\ \E i \in DOMAIN queue : queue[i].from = g
    <3>1. sock'[g] = [sock[g] EXCEPT !.kind = "reset", !.peer = Gone]
      BY <1>1, <2>2
    <3>2. sock[g].kind = "connected" /\ sock[g].peer = Pending
      BY <1>3, <2>2, HandleRange DEF EndsInv
    <3> QED
      BY <2>1, <3>1, <3>2, HandleRange DEF Kept, Kinds, SocketStates
  <2>3. CASE ~(sock[h].kind = "listening" /\ \E i \in DOMAIN queue : queue[i].from = g) /\ g = sock[h].peer
    <3>1. sock'[g] = [sock[g] EXCEPT !.kind = IF sock[h].in = <<>> THEN @ ELSE "reset", !.peer = Gone]
      BY <1>1, <2>3
    <3>2. sock[g].kind = "connected" /\ sock[g].peer = h
      BY <2>3, HandleRange DEF EndsInv
    <3>3. /\ sock'[g].kind \in {sock[g].kind, "reset"} /\ sock'[g].peer = Gone
          /\ sock'[g].in = sock[g].in /\ sock'[g] \in SocketStates
      BY <2>1, <3>1, <3>2 DEF Kinds, SocketStates
    <3> QED
      BY <3>2, <3>3, HandleRange DEF Kept
  <2>4. CASE ~(sock[h].kind = "listening" /\ \E i \in DOMAIN queue : queue[i].from = g) /\ g # sock[h].peer
    <3>1. sock'[g] = sock[g]
      BY <1>1, <2>4
    <3>2. sock[g].peer # h
      BY <2>4 DEF EndsInv
    <3>3. Kept(g)
      BY <3>1 DEF Kept
    <3> QED
      BY <2>1, <3>1, <3>2, <3>3
  <2> QED
    BY <2>2, <2>3, <2>4
<1>5. /\ DOMAIN queue' \subseteq DOMAIN queue
      /\ queue' \in Seq(Entries)
      /\ \A i \in DOMAIN queue' :
            /\ queue'[i].early = queue[i].early
            /\ queue'[i].from = IF queue[i].from = h THEN Gone ELSE queue[i].from
            /\ sock[h].kind # "listening"
  <2>1. CASE sock[h].kind = "listening"
    <3>1. queue' = <<>>
      BY <2>1 DEF Close
    <3> QED
      BY <3>1, EmptySeq
  <2>2. CASE sock[h].kind # "listening"
    <3>1. queue' = [i \in DOMAIN queue |->
                       IF queue[i].from = h THEN [queue[i] EXCEPT !.from = Gone] ELSE queue[i]]
      BY <2>2 DEF Close
    <3>2. /\ DOMAIN queue = 1 .. Len(queue) /\ Len(queue) \in Nat
          /\ \A i \in DOMAIN queue : queue[i] \in Entries
      BY Fields
    <3>3. queue' \in [1 .. Len(queue) -> Entries]
      BY <3>1, <3>2 DEF Entries
    <3>4. queue' \in Seq(Entries)
      BY <3>2, <3>3, SeqDef
    <3> QED
      BY <2>2, <3>1, <3>2, <3>4
  <2> QED
    BY <2>1, <2>2
<1>6. SockShape'
  <2>1. Socket("free") \in SocketStates
    BY NewSocket DEF Kinds
  <2>2. sock' \in [Handles -> SocketStates]
    <3>1. sock' = [g \in Handles |-> sock'[g]]
      BY DEF Close
    <3>2. \A g \in Handles : sock'[g] \in SocketStates
      BY <1>1, <1>4, <2>1
    <3> QED
      BY <3>1, <3>2
  <2> QED
    BY <1>5, <2>2 DEF SockShape
<1>7. EndsInv'
  <2>0. sock'[h].peer = Gone
    BY <1>1, NewSocket DEF Kinds
  <2>1. ASSUME NEW g \in Handles, sock'[g].peer # Gone
        PROVE  /\ g # h /\ sock'[g].peer = sock[g].peer /\ sock'[g].kind = "connected"
               /\ ~(sock[h].kind = "listening" /\ \E i \in DOMAIN queue : queue[i].from = g)
               /\ g # sock[h].peer /\ sock[g].peer # h
    <3>1. g # h
      BY <2>0, <2>1
    <3>2. sock'[g].peer = sock[g].peer /\ sock'[g].kind = "connected"
      BY <1>4, <2>1, <3>1 DEF EndsInv, Kept
    <3>3. ~(sock[h].kind = "listening" /\ \E i \in DOMAIN queue : queue[i].from = g)
      BY <1>1, <1>2, <2>1, <3>1 DEF SocketStates
    <3>4. g # sock[h].peer
      BY <1>1, <1>2, <2>1, <3>1, <3>3 DEF SocketStates
    <3> QED
      BY <1>4, <3>1, <3>2, <3>3, <3>4
  <2>2. ASSUME NEW g \in Handles, sock'[g].peer \in Handles
        PROVE  sock'[sock'[g].peer].peer = g
    <3>1. PICK q \in Handles : q = sock[g].peer
      BY <2>1, <2>2, HandleRange
    <3>2. q # h /\ sock'[g].peer = q /\ sock[q].peer = g
      BY <2>1, <2>2, <3>1, HandleRange DEF EndsInv
    <3>3. sock'[q].peer = g
      <4>1. ~(sock[h].kind = "listening" /\ \E i \in DOMAIN queue : queue[i].from = q)
        BY <1>3, <3>2, HandleRange DEF EndsInv
      <4>2. q # sock[h].peer
        BY <2>1, <2>2, <3>2, HandleRange DEF EndsInv
      <4> QED
        BY <1>1, <3>2, <4>1, <4>2
    <3> QED
      BY <3>2, <3>3
  <2>3. ASSUME NEW g \in Handles, sock'[g].peer = Pending
        PROVE  \E i \in DOMAIN queue' : queue'[i].from = g
    <3>1. g # h /\ sock[g].peer = Pending /\ ~(sock[h].kind = "listening" /\ \E i \in DOMAIN queue : queue[i].from = g)
      BY <2>1, <2>3, HandleRange
    <3>2. PICK i \in DOMAIN queue : queue[i].from = g
      BY <3>1 DEF EndsInv
    <3>3. sock[h].kind # "listening"
      BY <3>1, <3>2
    <3>4. i \in DOMAIN queue'
      BY <3>3 DEF Close
    <3> QED
      BY <1>5, <3>1, <3>2, <3>4
  <2>4. ASSUME NEW i \in DOMAIN queue', queue'[i].from # Gone
        PROVE  sock'[queue'[i].from].peer = Pending
    <3>1. PICK g \in Handles : g = queue[i].from /\ g = queue'[i].from /\ g # h /\ sock[h].kind # "listening"
      BY <1>3, <1>5, <2>4
    <3>2. sock[g].peer = Pending
      BY <1>5, <3>1, HandleRange DEF EndsInv
    <3>3. g # sock[h].peer
      BY <3>1, <3>2, HandleRange DEF EndsInv
    <3>4. sock'[g] = sock[g]
      BY <1>1, <3>1, <3>3
    <3> QED
      BY <3>1, <3>2, <3>4
  <2>5. ASSUME NEW i \in DOMAIN queue', NEW j \in DOMAIN queue',
               queue'[i].from = queue'[j].from, queue'[i].from # Gone
        PROVE  i = j
    <3>1. queue[i].from = queue[j].from /\ queue[i].from # Gone
      BY <1>5, <2>5
    <3> QED
      BY <1>5, <3>1 DEF EndsInv
  <2> QED
    BY <2>1, <2>2, <2>3, <2>4, <2>5 DEF EndsInv
<1> QED
  BY <1>1, <1>4, <1>5, <1>6, <1>7

\* The ends stay paired when peers and the queue's ends stay as they are.
LEMMA EndsStay ==
    ASSUME SockShape, EndsInv,
           \A g \in Handles : /\ sock'[g].peer = sock[g].peer
                              /\ sock[g].peer # Gone => sock'[g].kind = sock[g].kind,
           DOMAIN queue' = DOMAIN queue,
           \A i \in DOMAIN queue : queue'[i].from = queue[i].from
    PROVE  EndsInv'
<1>1. \A g \in Handles : sock'[g].peer # Gone => sock'[g].kind = "connected"
  BY DEF EndsInv
<1>2. \A g \in Handles : sock'[g].peer \in Handles => sock'[sock'[g].peer].peer = g
  BY DEF EndsInv
<1>3. \A g \in Handles : sock'[g].peer = Pending => \E i \in DOMAIN queue' : queue'[i].from = g
  BY DEF EndsInv
<1>4. \A i \in DOMAIN queue' : queue'[i].from # Gone => sock'[queue'[i].from].peer = Pending
  <2>1. ASSUME NEW i \in DOMAIN queue, queue[i].from # Gone
        PROVE  sock'[queue[i].from].peer = Pending
    <3>1. queue[i].from \in Handles /\ sock[queue[i].from].peer = Pending
      BY <2>1, Fields DEF EndsInv
    <3> QED
      BY <3>1
  <2> QED
    BY <2>1
<1>5. \A i, j \in DOMAIN queue' : queue'[i].from = queue'[j].from /\ queue'[i].from # Gone => i = j
  BY DEF EndsInv
<1> QED
  BY <1>1, <1>2, <1>3, <1>4, <1>5 DEF EndsInv

\* connect() and listen() change what the socket is.
LEMMA RenameEffect ==
    ASSUME SockShape, EndsInv, NEW h \in Handles, NEW k \in Kinds, sock[h].kind # "connected",
           sock' = [sock EXCEPT ![h].kind = k], queue' = queue
    PROVE  /\ sock'[h].kind = k /\ sock'[h].in = sock[h].in /\ sock'[h].peer = sock[h].peer
           /\ \A g \in Handles \ {h} : sock'[g] = sock[g]
           /\ SockShape' /\ EndsInv'
<1>1. /\ sock'[h].kind = k /\ sock'[h].in = sock[h].in /\ sock'[h].peer = sock[h].peer
      /\ sock'[h] \in SocketStates
  <2>1. sock'[h] = [sock[h] EXCEPT !.kind = k]
    BY DEF SockShape
  <2>2. sock[h] \in SocketStates
    BY Fields
  <2> QED
    BY <2>1, <2>2 DEF SocketStates
<1>2. \A g \in Handles \ {h} : sock'[g] = sock[g]
  BY DEF SockShape
<1>3. SockShape'
  BY <1>1, <1>2 DEF SockShape
<1>4. sock[h].peer = Gone
  BY DEF EndsInv
<1>5. EndsInv'
  BY <1>1, <1>2, <1>4, EndsStay
<1> QED
  BY <1>1, <1>2, <1>3, <1>5

\* A send() whose other end has gone.
LEMMA LostEffect ==
    ASSUME SockShape, EndsInv, NEW h \in Handles, sock[h].kind = "connected", ~Connected(h),
           SendIsLost(h)
    PROVE  /\ sock'[h].kind = "reset" /\ sock'[h].in = sock[h].in
           /\ sock'[h].peer = sock[h].peer /\ sock[h].peer = Gone
           /\ \A g \in Handles \ {h} : sock'[g] = sock[g]
           /\ queue' = queue /\ SockShape' /\ EndsInv'
<1>1. /\ sock'[h].kind = "reset" /\ sock'[h].in = sock[h].in /\ sock'[h].peer = sock[h].peer
      /\ sock'[h] \in SocketStates
  <2>1. sock'[h] = [sock[h] EXCEPT !.kind = "reset"]
    BY DEF SockShape, SendIsLost
  <2>2. sock[h] \in SocketStates
    BY Fields
  <2> QED
    BY <2>1, <2>2 DEF SocketStates, Kinds
<1>2. (\A g \in Handles \ {h} : sock'[g] = sock[g]) /\ queue' = queue
  BY DEF SockShape, SendIsLost
<1>3. SockShape'
  BY <1>1, <1>2 DEF SockShape, SendIsLost
<1>4. sock[h].peer = Gone
  BY DEF Connected
<1>5. EndsInv'
  BY <1>1, <1>2, <1>4, EndsStay
<1> QED
  BY <1>1, <1>2, <1>3, <1>4, <1>5

LEMMA ReceiveEffect ==
    ASSUME SockShape, EndsInv, NEW h \in Handles, NEW n \in 0 .. Len(sock[h].in), ReceiveBytes(h, n)
    PROVE  /\ sock'[h].kind = sock[h].kind /\ sock'[h].peer = sock[h].peer
           /\ Len(sock'[h].in) = Len(sock[h].in) - n
           /\ \A i \in 1 .. (Len(sock[h].in) - n) : sock'[h].in[i] = sock[h].in[n + i]
           /\ \A g \in Handles \ {h} : sock'[g] = sock[g]
           /\ queue' = queue /\ SockShape' /\ EndsInv'
<1>1. sock[h].in \in Seq(Nat) /\ Len(sock[h].in) \in Nat /\ sock[h] \in SocketStates
  BY Fields, LenProperties
<1>2. /\ SubSeq(sock[h].in, n + 1, Len(sock[h].in)) \in Seq(Nat)
      /\ Len(SubSeq(sock[h].in, n + 1, Len(sock[h].in))) = Len(sock[h].in) - n
      /\ \A i \in 1 .. (Len(sock[h].in) - n) :
            SubSeq(sock[h].in, n + 1, Len(sock[h].in))[i] = sock[h].in[n + i]
  <2>1. n + 1 \in 1 .. (Len(sock[h].in) + 1) /\ Len(sock[h].in) \in n .. Len(sock[h].in)
    BY <1>1
  <2>2. \A i \in 1 .. (Len(sock[h].in) - n) :
           SubSeq(sock[h].in, n + 1, Len(sock[h].in))[i] = sock[h].in[(n + 1) + i - 1]
    BY <1>1, <2>1, SubSeqProperties
  <2> QED
    BY <1>1, <2>1, <2>2, SubSeqProperties
<1>3. sock'[h] = [sock[h] EXCEPT !.in = SubSeq(sock[h].in, n + 1, Len(sock[h].in))]
  BY DEF SockShape, ReceiveBytes
<1>4. /\ sock'[h].kind = sock[h].kind /\ sock'[h].peer = sock[h].peer
      /\ sock'[h].in = SubSeq(sock[h].in, n + 1, Len(sock[h].in))
      /\ sock'[h] \in SocketStates
  BY <1>1, <1>2, <1>3 DEF SocketStates
<1>5. (\A g \in Handles \ {h} : sock'[g] = sock[g]) /\ queue' = queue
  BY DEF SockShape, ReceiveBytes
<1>6. SockShape'
  BY <1>4, <1>5 DEF SockShape, ReceiveBytes
<1>7. EndsInv'
  BY <1>4, <1>5, EndsStay
<1> QED
  BY <1>2, <1>4, <1>5, <1>6, <1>7

LEMMA Appended ==
    ASSUME NEW s \in Seq(Nat), NEW t \in Seq(Nat)
    PROVE  /\ s \o t \in Seq(Nat) /\ Len(s \o t) = Len(s) + Len(t)
           /\ \A i \in 1 .. Len(s) : (s \o t)[i] = s[i]
           /\ \A i \in 1 .. Len(t) : (s \o t)[Len(s) + i] = t[i]
           /\ Len(s) \in Nat /\ Len(t) \in Nat
           /\ DOMAIN s = 1 .. Len(s) /\ DOMAIN t = 1 .. Len(t)
           /\ DOMAIN (s \o t) = 1 .. (Len(s) + Len(t))
<1>1. s \o t \in Seq(Nat) /\ Len(s \o t) = Len(s) + Len(t)
  BY ConcatProperties
<1>2. Len(s) \in Nat /\ Len(t) \in Nat /\ DOMAIN s = 1 .. Len(s) /\ DOMAIN t = 1 .. Len(t)
  BY LenProperties
<1>3. \A i \in 1 .. Len(s) : (s \o t)[i] = s[i]
  BY <1>2, ConcatProperties
<1>4. \A i \in 1 .. Len(t) : (s \o t)[Len(s) + i] = t[i]
  BY <1>2, ConcatProperties
<1> QED
  BY <1>1, <1>2, <1>3, <1>4, LenProperties

\* send() to an end that is there: the bytes go to its socket, or into the
\* queue when it was not accepted yet.
LEMMA SendEffect ==
    ASSUME SockShape, EndsInv, NEW h \in Handles, NEW data \in Seq(Nat), Connected(h),
           SendBytes(h, data)
    PROVE  /\ \A g \in Handles : /\ sock'[g].kind = sock[g].kind /\ sock'[g].peer = sock[g].peer
                                 /\ sock'[g].in = IF g = sock[h].peer THEN sock[g].in \o data
                                                  ELSE sock[g].in
           /\ DOMAIN queue' = DOMAIN queue
           /\ \A i \in DOMAIN queue : /\ queue'[i].from = queue[i].from
                                      /\ queue'[i].early = IF queue[i].from = h
                                                           THEN queue[i].early \o data
                                                           ELSE queue[i].early
           /\ SockShape' /\ EndsInv'
<1>1. CASE sock[h].peer = Pending
  <2>1. /\ sock' = sock
        /\ queue' = [i \in DOMAIN queue |->
                       IF queue[i].from = h THEN [queue[i] EXCEPT !.early = @ \o data] ELSE queue[i]]
    BY <1>1 DEF SendBytes
  <2>2. ASSUME NEW i \in DOMAIN queue
        PROVE  /\ queue'[i].from = queue[i].from /\ queue'[i] \in Entries
               /\ queue'[i].early = IF queue[i].from = h
                                    THEN queue[i].early \o data ELSE queue[i].early
    <3>1. queue[i] \in Entries /\ queue[i].early \o data \in Seq(Nat)
      BY Fields, ConcatProperties
    <3> QED
      BY <2>1, <3>1 DEF Entries
  <2>3. queue' \in [1 .. Len(queue) -> Entries] /\ Len(queue) \in Nat
    BY <2>1, <2>2, Fields
  <2>4. queue' \in Seq(Entries)
    BY <2>3, SeqDef
  <2>5. SockShape'
    BY <2>1, <2>4 DEF SockShape
  <2>6. \A g \in Handles : g # sock[h].peer
    BY <1>1, HandleRange
  <2>7. DOMAIN queue' = DOMAIN queue
    BY <2>1
  <2>8. EndsInv'
    BY <2>1, <2>2, <2>7, EndsStay
  <2> QED
    BY <2>1, <2>2, <2>5, <2>6, <2>7, <2>8
<1>2. CASE sock[h].peer # Pending
  <2>1. PICK p \in Handles : p = sock[h].peer
    BY <1>2, Fields DEF Connected
  <2>2. queue' = queue /\ sock' = [sock EXCEPT ![p].in = @ \o data]
    BY <1>2, <2>1 DEF SendBytes
  <2>3. /\ sock'[p].kind = sock[p].kind /\ sock'[p].peer = sock[p].peer
        /\ sock'[p].in = sock[p].in \o data /\ sock'[p] \in SocketStates
    <3>1. sock[p] \in SocketStates /\ sock[p].in \o data \in Seq(Nat)
      BY Fields, ConcatProperties
    <3>2. sock'[p] = [sock[p] EXCEPT !.in = sock[p].in \o data]
      BY <2>2 DEF SockShape
    <3> QED
      BY <3>1, <3>2 DEF SocketStates
  <2>4. \A g \in Handles \ {p} : sock'[g] = sock[g]
    BY <2>2 DEF SockShape
  <2>5. SockShape'
    BY <2>2, <2>3, <2>4 DEF SockShape
  <2>6. \A i \in DOMAIN queue : queue[i].from # h
    <3>1. sock[h].peer # Gone /\ h # Gone
      BY HandleRange DEF Connected
    <3> QED
      BY <1>2, <3>1 DEF EndsInv
  <2>7. EndsInv'
    BY <2>2, <2>3, <2>4, EndsStay
  <2>8. \A g \in Handles :
           /\ sock'[g].kind = sock[g].kind /\ sock'[g].peer = sock[g].peer
           /\ sock'[g].in = IF g = sock[h].peer THEN sock[g].in \o data ELSE sock[g].in
    BY <2>1, <2>3, <2>4
  <2> QED
    BY <2>2, <2>5, <2>6, <2>7, <2>8
<1> QED
  BY <1>1, <1>2

\* The other end answers: the connection waits to be accepted.
LEMMA HandshakeEffect ==
    ASSUME SockShape, EndsInv, NEW h \in Handles, Handshake(h)
    PROVE  /\ sock[h].kind = "connecting" /\ sock'[h].in = sock[h].in
           /\ \A g \in Handles \ {h} : sock'[g] = sock[g]
           /\ \/ sock'[h].kind = "refused" /\ queue' = queue /\ sock'[h].peer = Gone
              \/ /\ sock'[h].kind = "connected" /\ sock'[h].peer = Pending
                 /\ queue' = Append(queue, [from |-> h, early |-> <<>>])
           /\ SockShape' /\ EndsInv'
<1>1. sock[h].kind = "connecting" /\ sock[h].peer = Gone
  BY DEF Handshake, EndsInv
<1>2. CASE Listening = {}
  <2>1. sock' = [sock EXCEPT ![h].kind = "refused"] /\ queue' = queue
    BY <1>2 DEF Handshake
  <2> QED
    BY <1>1, <2>1, RenameEffect DEF Kinds
<1>3. CASE Listening # {}
  <2>1. /\ sock' = [sock EXCEPT ![h].kind = "connected", ![h].peer = Pending]
        /\ queue' = Append(queue, [from |-> h, early |-> <<>>])
    BY <1>3 DEF Handshake
  <2>2. /\ sock'[h].kind = "connected" /\ sock'[h].peer = Pending /\ sock'[h].in = sock[h].in
        /\ sock'[h] \in SocketStates
        /\ \A g \in Handles \ {h} : sock'[g] = sock[g]
    <3>1. sock[h] \in SocketStates
      BY Fields
    <3>2. sock'[h] = [sock[h] EXCEPT !.kind = "connected", !.peer = Pending]
      BY <2>1 DEF SockShape
    <3> QED
      BY <2>1, <3>1, <3>2 DEF SockShape, SocketStates, Kinds
  <2>3. /\ queue' \in Seq(Entries) /\ Len(queue') = Len(queue) + 1
        /\ \A i \in 1 .. Len(queue) : queue'[i] = queue[i]
        /\ queue'[Len(queue) + 1] = [from |-> h, early |-> <<>>]
        /\ DOMAIN queue' = 1 .. (Len(queue) + 1)
    <3>1. [from |-> h, early |-> <<>>] \in Entries
      BY EmptySeq DEF Entries
    <3>2. queue \in Seq(Entries)
      BY DEF SockShape
    <3> QED
      BY <2>1, <3>1, <3>2, AppendProperties, LenProperties
  <2>4. SockShape'
    BY <2>1, <2>2, <2>3 DEF SockShape
  <2>5. queue'[Len(queue) + 1].from = h
    BY <2>3
  <2>6. \A i \in DOMAIN queue : queue[i].from # h
    <3>1. h # Gone /\ Pending # Gone
      BY HandleRange
    <3> QED
      BY <1>1, <3>1 DEF EndsInv
  <2>7. \A i \in DOMAIN queue' : (i \in DOMAIN queue /\ queue'[i] = queue[i]) \/ i = Len(queue) + 1
    BY <2>3, Fields
  <2>8. EndsInv'
    <3>1. \A g \in Handles : sock'[g].peer # Gone => sock'[g].kind = "connected"
      BY <2>2 DEF EndsInv
    <3>2. ASSUME NEW g \in Handles, sock'[g].peer \in Handles PROVE sock'[sock'[g].peer].peer = g
      <4>1. g # h /\ sock'[g] = sock[g]
        BY <2>2, <3>2, HandleRange
      <4>2. sock[g].peer \in Handles /\ sock[sock[g].peer].peer = g
        BY <3>2, <4>1 DEF EndsInv
      <4>3. sock[g].peer # h
        BY <1>1, <4>2, HandleRange
      <4> QED
        BY <2>2, <4>1, <4>2, <4>3
    <3>3. ASSUME NEW g \in Handles, sock'[g].peer = Pending
          PROVE  \E i \in DOMAIN queue' : queue'[i].from = g
      <4>1. CASE g = h
        BY <2>3, <2>5, <4>1, Fields
      <4>2. CASE g # h
        <5>1. PICK i \in DOMAIN queue : queue[i].from = g
          BY <2>2, <3>3, <4>2 DEF EndsInv
        <5>2. i \in 1 .. Len(queue) /\ Len(queue) \in Nat
          BY Fields
        <5> QED
          BY <2>3, <5>1, <5>2
      <4> QED
        BY <4>1, <4>2
    <3>4. ASSUME NEW i \in DOMAIN queue', queue'[i].from # Gone
          PROVE  sock'[queue'[i].from].peer = Pending
      <4>1. CASE i = Len(queue) + 1
        BY <2>2, <2>5, <4>1
      <4>2. CASE i \in DOMAIN queue /\ queue'[i] = queue[i]
        <5>1. queue[i].from \in Handles \ {h} /\ sock[queue[i].from].peer = Pending
          BY <2>6, <3>4, <4>2, Fields DEF EndsInv
        <5> QED
          BY <2>2, <4>2, <5>1
      <4> QED
        BY <2>7, <4>1, <4>2
    <3>5. \A i, j \in DOMAIN queue' :
             queue'[i].from = queue'[j].from /\ queue'[i].from # Gone => i = j
      BY <2>5, <2>6, <2>7 DEF EndsInv
    <3> QED
      BY <3>1, <3>2, <3>3, <3>4, <3>5 DEF EndsInv
  <2> QED
    BY <1>1, <2>1, <2>2, <2>4, <2>8
<1> QED
  BY <1>2, <1>3

LEMMA AcceptEffect ==
    ASSUME SockShape, EndsInv, NEW h, Accept(h)
    PROVE  /\ h \in Handles /\ IsFree(h) /\ queue # <<>> /\ queue' = Tail(queue)
           /\ sock'[h].kind = "connected" /\ sock'[h].in = Head(queue).early
           /\ sock'[h].peer = Head(queue).from
           /\ \A g \in Handles \ {h} :
                 /\ sock'[g].kind = sock[g].kind /\ sock'[g].in = sock[g].in
                 /\ sock'[g].peer = IF g = Head(queue).from THEN h ELSE sock[g].peer
           /\ SockShape' /\ EndsInv'
<1>1. h \in Handles /\ IsFree(h) /\ queue # <<>> /\ queue' = Tail(queue)
  BY LowestIsFree DEF Accept
<1>2. /\ Len(queue) \in Nat /\ Len(queue) > 0 /\ DOMAIN queue = 1 .. Len(queue)
      /\ Head(queue) = queue[1] /\ queue' \in Seq(Entries)
      /\ Len(queue') = Len(queue) - 1 /\ DOMAIN queue' = 1 .. (Len(queue) - 1)
      /\ \A i \in 1 .. (Len(queue) - 1) : queue'[i] = queue[i + 1]
  <2>1. queue \in Seq(Entries)
    BY DEF SockShape
  <2> QED
    BY <1>1, <2>1, HeadTailProperties, EmptySeq, LenProperties
<1>3. PICK f \in Handles \cup {Gone} : f = Head(queue).from
  BY <1>2, Fields
<1>4. sock[h].peer = Gone /\ f # h /\ \A g \in Handles : sock[g].peer # h
  <2>1. sock[h].peer = Gone
    BY <1>1 DEF EndsInv, IsFree
  <2>2. f # h
    BY <1>1, <1>2, <1>3, <2>1, HandleRange DEF EndsInv
  <2> QED
    BY <1>1, <2>1, <2>2, HandleRange DEF EndsInv
<1>5. /\ sock'[h] = [kind |-> "connected", peer |-> f, in |-> Head(queue).early]
      /\ \A g \in Handles \ {h} : sock'[g] = IF g = f THEN [sock[g] EXCEPT !.peer = h] ELSE sock[g]
  BY <1>1, <1>3 DEF Accept
<1>6. /\ sock'[h] \in SocketStates
      /\ \A g \in Handles \ {h} :
            /\ sock'[g] \in SocketStates
            /\ sock'[g].kind = sock[g].kind /\ sock'[g].in = sock[g].in
            /\ sock'[g].peer = IF g = f THEN h ELSE sock[g].peer
  <2>1. ASSUME NEW g \in Handles \ {h}
        PROVE  /\ sock'[g] \in SocketStates
               /\ sock'[g].kind = sock[g].kind /\ sock'[g].in = sock[g].in
               /\ sock'[g].peer = IF g = f THEN h ELSE sock[g].peer
    <3>1. sock[g] \in SocketStates
      BY Fields
    <3> QED
      BY <1>1, <1>5, <3>1 DEF SocketStates
  <2>2. sock'[h] \in SocketStates
    <3>1. Head(queue).early \in Seq(Nat)
      BY <1>2, Fields
    <3> QED
      BY <1>5, <3>1 DEF SocketStates, Kinds
  <2> QED
    BY <2>1, <2>2
<1>7. SockShape'
  <2>1. sock' = [g \in Handles |-> sock'[g]]
    BY DEF Accept
  <2>2. \A g \in Handles : sock'[g] \in SocketStates
    BY <1>6
  <2> QED
    BY <1>2, <2>1, <2>2 DEF SockShape
<1>8. f \in Handles => sock[f].peer = Pending /\ sock[f].kind = "connected"
  BY <1>2, <1>3, HandleRange DEF EndsInv
<1>9. sock'[h].kind = "connected" /\ sock'[h].peer = f /\ sock'[h].in = Head(queue).early
  BY <1>5
<1>10. EndsInv'
  <2>1. \A g \in Handles : sock'[g].peer # Gone => sock'[g].kind = "connected"
    BY <1>6, <1>8, <1>9 DEF EndsInv
  <2>2. ASSUME NEW g \in Handles, sock'[g].peer \in Handles PROVE sock'[sock'[g].peer].peer = g
    <3>1. CASE g = h
      <4>1. f \in Handles \ {h} /\ sock'[f].peer = h
        BY <1>4, <1>6, <1>9, <2>2, <3>1
      <4> QED
        BY <1>9, <3>1, <4>1
    <3>2. CASE g = f /\ g # h
      <4>1. sock'[g].peer = h
        BY <1>6, <3>2
      <4> QED
        BY <1>9, <3>2, <4>1
    <3>3. CASE g # f /\ g # h
      <4>1. sock'[g].peer = sock[g].peer /\ sock[g].peer \in Handles \ {h}
        BY <1>4, <1>6, <2>2, <3>3
      <4>2. sock[sock[g].peer].peer = g
        BY <4>1 DEF EndsInv
      <4>3. sock[g].peer # f
        BY <1>8, <4>1, <4>2, HandleRange
      <4> QED
        BY <1>6, <4>1, <4>2, <4>3
    <3> QED
      BY <3>1, <3>2, <3>3
  <2>3. ASSUME NEW g \in Handles, sock'[g].peer = Pending
        PROVE  \E i \in DOMAIN queue' : queue'[i].from = g
    <3>1. g # h /\ g # f /\ sock[g].peer = Pending
      BY <1>1, <1>6, <1>9, <2>3, HandleRange
    <3>2. PICK i \in DOMAIN queue : queue[i].from = g
      BY <3>1 DEF EndsInv
    <3>3. i - 1 \in DOMAIN queue' /\ queue'[i - 1] = queue[i]
      BY <1>2, <1>3, <3>1, <3>2
    <3> QED
      BY <3>2, <3>3
  <2>4. ASSUME NEW i \in DOMAIN queue', queue'[i].from # Gone
        PROVE  sock'[queue'[i].from].peer = Pending
    <3>1. i + 1 \in DOMAIN queue /\ queue'[i] = queue[i + 1] /\ 1 \in DOMAIN queue /\ i + 1 # 1
      BY <1>2
    <3>2. PICK g \in Handles : g = queue[i + 1].from
      BY <2>4, <3>1, Fields
    <3>3. sock[g].peer = Pending /\ g # h
      BY <1>4, <2>4, <3>1, <3>2, HandleRange DEF EndsInv
    <3>4. g # f
      BY <1>2, <1>3, <2>4, <3>1, <3>2 DEF EndsInv
    <3> QED
      BY <1>6, <3>1, <3>2, <3>3, <3>4
  <2>5. ASSUME NEW i \in DOMAIN queue', NEW j \in DOMAIN queue',
               queue'[i].from = queue'[j].from, queue'[i].from # Gone
        PROVE  i = j
    <3>1. /\ i + 1 \in DOMAIN queue /\ queue'[i] = queue[i + 1] /\ i \in Nat
          /\ j + 1 \in DOMAIN queue /\ queue'[j] = queue[j + 1] /\ j \in Nat
      BY <1>2
    <3>2. i + 1 = j + 1
      BY <2>5, <3>1 DEF EndsInv
    <3> QED
      BY <3>1, <3>2
  <2> QED
    BY <2>1, <2>2, <2>3, <2>4, <2>5 DEF EndsInv
<1> QED
  BY <1>1, <1>3, <1>6, <1>7, <1>9, <1>10

-----------------------------------------------------------------------------
\* What the places have, one by one.
HasFacts ==
    /\ \A c \in Clients : Has[<<"connector", c>>] = connector[c]
    /\ \A p \in Procs : /\ Has[<<"local", p>>] = local[p]
                        /\ Has[<<"stream", p>>] = stream[p].handle
    /\ Has[<<"listener", Server>>] = listener.handle
    /\ Has[<<"next", Server>>] = listener.nextHandle

LEMMA PlaceCases ==
    /\ \A c \in Clients : <<"connector", c>> \in Places
    /\ \A p \in Procs : <<"local", p>> \in Places /\ <<"stream", p>> \in Places
    /\ <<"listener", Server>> \in Places /\ <<"next", Server>> \in Places
    /\ \A s \in Places : \/ \E c \in Clients : s = <<"connector", c>>
                         \/ \E p \in Procs : s = <<"local", p>> \/ s = <<"stream", p>>
                         \/ s = <<"listener", Server>> \/ s = <<"next", Server>>
  BY DEF Places

LEMMA HasAt == HasFacts
  BY PlaceCases DEF Has, HasFacts

LEMMA HasAtNext == HasFacts'
  BY HasAt, PTL

\* One place, or two, change.
Change(s, h)  == \A u \in Places : Has'[u] = IF u = s THEN h ELSE Has[u]
MoveTo(s, t) ==
    \A u \in Places : Has'[u] = IF u = t THEN Has[s] ELSE IF u = s THEN NoHandle ELSE Has[u]

\* All places but these have what they had.
LEMMA HasSame ==
    ASSUME NEW Changed,
           \A c \in Clients : <<"connector", c>> \notin Changed => connector'[c] = connector[c],
           \A q \in Procs : <<"local", q>> \notin Changed => local'[q] = local[q],
           \A q \in Procs : <<"stream", q>> \notin Changed => stream'[q].handle = stream[q].handle,
           <<"listener", Server>> \notin Changed => listener'.handle = listener.handle,
           <<"next", Server>> \notin Changed => listener'.nextHandle = listener.nextHandle
    PROVE  \A s \in Places \ Changed : Has'[s] = Has[s]
<1> SUFFICES ASSUME NEW s \in Places, s \notin Changed PROVE Has'[s] = Has[s]
  OBVIOUS
<1>1. \/ \E c \in Clients : s = <<"connector", c>>
      \/ \E q \in Procs : s = <<"local", q>> \/ s = <<"stream", q>>
      \/ s = <<"listener", Server>> \/ s = <<"next", Server>>
  BY PlaceCases
<1>2. HasFacts /\ HasFacts'
  BY HasAt, HasAtNext
<1>3. CASE \E c \in Clients : s = <<"connector", c>>
  <2>1. PICK c \in Clients : s = <<"connector", c>>
    BY <1>3
  <2> QED
    BY <1>2, <2>1 DEF HasFacts
<1>4. CASE \E q \in Procs : s = <<"local", q>> \/ s = <<"stream", q>>
  <2>1. PICK q \in Procs : s = <<"local", q>> \/ s = <<"stream", q>>
    BY <1>4
  <2>2. CASE s = <<"local", q>>
    BY <1>2, <2>2 DEF HasFacts
  <2>3. CASE s = <<"stream", q>>
    BY <1>2, <2>3 DEF HasFacts
  <2> QED
    BY <2>1, <2>2, <2>3
<1>5. CASE s = <<"listener", Server>> \/ s = <<"next", Server>>
  BY <1>2, <1>5 DEF HasFacts
<1> QED
  BY <1>1, <1>3, <1>4, <1>5

FreeAs(g) == sock'[g].kind = "free" <=> sock[g].kind = "free"

LEMMA PlacesStay ==
    ASSUME PlaceInv, \A s \in Places : Has'[s] = Has[s], leaked' = leaked,
           \A s \in Places : Has[s] \in Handles \cup {NoHandle}, leaked \subseteq Handles,
           \A g \in Handles : FreeAs(g)
    PROVE  PlaceInv'
<1> QED
  BY DEF PlaceInv, FreeAs, IsFree, Places

\* A socket is opened or accepted into a place that had none.
LEMMA PlaceTakes ==
    ASSUME PlaceInv, NEW s \in Places, NEW h \in Handles, Change(s, h), Has[s] = NoHandle,
           IsFree(h), sock'[h].kind # "free", leaked' = leaked,
           \A u \in Places : Has[u] \in Handles \cup {NoHandle}, leaked \subseteq Handles,
           \A g \in Handles \ {h} : FreeAs(g)
    PROVE  PlaceInv'
<1>1. h # NoHandle /\ h \notin leaked /\ \A u \in Places : Has[u] # h
  BY HandleRange DEF PlaceInv
<1>2. \A u, t \in Places : Has'[u] = Has'[t] /\ Has'[u] # NoHandle => u = t
  BY <1>1 DEF PlaceInv, Change
<1>3. \A u \in Places : Has'[u] # NoHandle => sock'[Has'[u]].kind # "free" /\ Has'[u] \notin leaked'
  BY <1>1 DEF PlaceInv, Change, FreeAs, IsFree
<1>4. ASSUME NEW g \in Handles, sock'[g].kind # "free"
      PROVE  g \in leaked' \/ \E u \in Places : Has'[u] = g
  <2>1. CASE g = h
    BY <2>1 DEF Change
  <2>2. CASE g # h
    BY <1>4, <2>2, HandleRange DEF PlaceInv, Change, FreeAs, IsFree
  <2> QED
    BY <2>1, <2>2
<1>5. \A g \in leaked' : sock'[g].kind # "free"
  BY <1>1 DEF PlaceInv, FreeAs, IsFree
<1> QED
  BY <1>2, <1>3, <1>4, <1>5 DEF PlaceInv, IsFree, Places

\* The handle of a place is closed.
LEMMA PlaceCloses ==
    ASSUME PlaceInv, NEW s \in Places, NEW h \in Handles, Change(s, NoHandle), Has[s] = h,
           sock'[h].kind = "free", leaked' = leaked,
           \A u \in Places : Has[u] \in Handles \cup {NoHandle}, leaked \subseteq Handles,
           \A g \in Handles \ {h} : FreeAs(g)
    PROVE  PlaceInv'
<1>1. h # NoHandle /\ h \notin leaked /\ \A u \in Places : Has[u] = h => u = s
  BY HandleRange DEF PlaceInv
<1>2. \A u, t \in Places : Has'[u] = Has'[t] /\ Has'[u] # NoHandle => u = t
  BY <1>1 DEF PlaceInv, Change
<1>3. \A u \in Places : Has'[u] # NoHandle => sock'[Has'[u]].kind # "free" /\ Has'[u] \notin leaked'
  BY <1>1 DEF PlaceInv, Change, FreeAs, IsFree
<1>4. ASSUME NEW g \in Handles, sock'[g].kind # "free"
      PROVE  g \in leaked' \/ \E u \in Places : Has'[u] = g
  <2>1. g # h
    BY <1>4
  <2> QED
    BY <1>4, <2>1, HandleRange DEF PlaceInv, Change, FreeAs, IsFree
<1>5. \A g \in leaked' : sock'[g].kind # "free"
  BY <1>1 DEF PlaceInv, FreeAs, IsFree
<1> QED
  BY <1>2, <1>3, <1>4, <1>5 DEF PlaceInv, IsFree, Places

\* A handle goes from one place to another.
LEMMA PlaceMoves ==
    ASSUME PlaceInv, NEW s \in Places, NEW t \in Places, s # t, MoveTo(s, t),
           Has[t] = NoHandle, leaked' = leaked,
           \A u \in Places : Has[u] \in Handles \cup {NoHandle}, leaked \subseteq Handles,
           \A g \in Handles : FreeAs(g)
    PROVE  PlaceInv'
<1>2. \A u, v \in Places : Has'[u] = Has'[v] /\ Has'[u] # NoHandle => u = v
  BY DEF PlaceInv, MoveTo
<1>3. \A u \in Places : Has'[u] # NoHandle => sock'[Has'[u]].kind # "free" /\ Has'[u] \notin leaked'
  BY DEF PlaceInv, MoveTo, FreeAs, IsFree
<1>4. ASSUME NEW g \in Handles, sock'[g].kind # "free"
      PROVE  g \in leaked' \/ \E u \in Places : Has'[u] = g
  <2>1. g \in leaked \/ \E u \in Places : Has[u] = g
    BY <1>4 DEF PlaceInv, FreeAs, IsFree
  <2> QED
    BY <2>1, HandleRange DEF MoveTo
<1>5. \A g \in leaked' : sock'[g].kind # "free"
  BY DEF PlaceInv, FreeAs, IsFree
<1> QED
  BY <1>2, <1>3, <1>4, <1>5 DEF PlaceInv, IsFree, Places

\* The listener is destroyed: its handle is closed, and what it had accepted
\* is in no place any more.
LEMMA PlaceLeaks ==
    ASSUME PlaceInv, NEW s \in Places, NEW t \in Places, s # t, NEW h \in Handles, Has[s] = h,
           \A u \in Places : Has'[u] = IF u = s \/ u = t THEN NoHandle ELSE Has[u],
           sock'[h].kind = "free", leaked' = leaked \cup ({Has[t]} \ {NoHandle}),
           \A u \in Places : Has[u] \in Handles \cup {NoHandle}, leaked \subseteq Handles,
           \A g \in Handles \ {h} : FreeAs(g)
    PROVE  PlaceInv'
<1>1. h # NoHandle /\ h \notin leaked /\ \A u \in Places : Has[u] = h => u = s
  BY HandleRange DEF PlaceInv
<1>2. \A u, v \in Places : Has'[u] = Has'[v] /\ Has'[u] # NoHandle => u = v
  BY DEF PlaceInv
<1>3. \A u \in Places : Has'[u] # NoHandle => sock'[Has'[u]].kind # "free" /\ Has'[u] \notin leaked'
  BY <1>1 DEF PlaceInv, FreeAs, IsFree
<1>4. ASSUME NEW g \in Handles, sock'[g].kind # "free"
      PROVE  g \in leaked' \/ \E u \in Places : Has'[u] = g
  <2>1. g # h /\ g # NoHandle
    BY <1>4, HandleRange
  <2>2. g \in leaked \/ \E u \in Places : Has[u] = g
    BY <1>4, <2>1 DEF PlaceInv, FreeAs, IsFree
  <2> QED
    BY <2>1, <2>2
<1>5. \A g \in leaked' : sock'[g].kind # "free"
  <2>1. Has[t] # h
    BY <1>1
  <2> QED
    BY <1>1, <2>1 DEF PlaceInv, FreeAs, IsFree
<1> QED
  BY <1>2, <1>3, <1>4, <1>5 DEF PlaceInv, IsFree, Places

-----------------------------------------------------------------------------
\* A step of thread p leaves the others where they are.
OthersStay(p) ==
    /\ \A q \in Procs \ {p} : /\ call'[q].pc = call[q].pc /\ local'[q] = local[q]
                              /\ stream'[q].handle = stream[q].handle
    /\ \A c \in Clients \ {p} : connector'[c] = connector[c]
    /\ p # Server => listener' = listener
    /\ \A q \in Procs \ {p} : call[q].pc \in {"connect", "listen"} => sock'[local[q]].kind = "new"

LEMMA OthersKeep ==
    ASSUME OwnInv, NEW p \in Procs, OthersStay(p), ProcAt(p)',
           p \in Clients => ClientAt(p)', p = Server => ServerInv'
    PROVE  ClientInv' /\ ServerInv' /\ ProcInv'
<1>1. ASSUME NEW c \in Clients PROVE ClientAt(c)'
  <2>1. CASE c = p
    BY <2>1
  <2>2. CASE c # p
    <3>1. /\ call'[c].pc = call[c].pc /\ local'[c] = local[c] /\ connector'[c] = connector[c]
          /\ stream'[c].handle = stream[c].handle
      BY <2>2 DEF OthersStay, Procs
    <3> QED
      BY <3>1 DEF OwnInv, ClientInv, ClientAt, HasStream
  <2> QED
    BY <2>1, <2>2
<1>2. ServerInv'
  <2>1. CASE p # Server
    <3>1. /\ call'[Server].pc = call[Server].pc /\ listener' = listener
          /\ stream'[Server].handle = stream[Server].handle
      BY <2>1 DEF OthersStay, Procs
    <3> QED
      BY <3>1 DEF OwnInv, ServerInv, HasStream
  <2> QED
    BY <2>1
<1>3. ASSUME NEW q \in Procs PROVE ProcAt(q)'
  <2>1. CASE q # p
    <3>1. /\ call'[q].pc = call[q].pc /\ local'[q] = local[q]
          /\ stream'[q].handle = stream[q].handle
          /\ call[q].pc \in {"connect", "listen"} => sock'[local[q]].kind = "new"
      BY <2>1 DEF OthersStay
    <3> QED
      BY <3>1 DEF OwnInv, ProcInv, ProcAt, HasStream
  <2> QED
    BY <2>1
<1> QED
  BY <1>1, <1>2, <1>3 DEF ClientInv, ProcInv

\* What the invariant says of the places.
LEMMA PlaceTypes ==
    ASSUME OwnInv
    PROVE  /\ \A s \in Places : Has[s] \in Handles \cup {NoHandle}
           /\ leaked \subseteq Handles /\ PlaceInv
           /\ \A p \in Procs : local[p] \in Handles \cup {NoHandle} /\ stream[p].handle \in Handles \cup {NoHandle}
           /\ \A c \in Clients : connector[c] \in Handles \cup {NoHandle} /\ c \in Procs /\ c # Server
           /\ listener.handle \in Handles \cup {NoHandle} /\ listener.nextHandle \in Handles \cup {NoHandle}
           /\ Server \in Procs
<1>1. /\ \A p \in Procs : local[p] \in Handles \cup {NoHandle} /\ stream[p].handle \in Handles \cup {NoHandle}
      /\ \A c \in Clients : connector[c] \in Handles \cup {NoHandle} /\ c \in Procs /\ c # Server
      /\ listener.handle \in Handles \cup {NoHandle} /\ listener.nextHandle \in Handles \cup {NoHandle}
      /\ Server \in Procs
  BY TCPAssumption DEF OwnInv, ThreadShape, Procs
<1>2. \A s \in Places : Has[s] \in Handles \cup {NoHandle}
  <2> SUFFICES ASSUME NEW s \in Places PROVE Has[s] \in Handles \cup {NoHandle}
    OBVIOUS
  <2>1. \/ \E c \in Clients : s = <<"connector", c>>
        \/ \E p \in Procs : s = <<"local", p>> \/ s = <<"stream", p>>
        \/ s = <<"listener", Server>> \/ s = <<"next", Server>>
    BY PlaceCases
  <2>2. HasFacts
    BY HasAt
  <2> QED
    BY <1>1, <2>1, <2>2 DEF HasFacts
<1> QED
  BY <1>1, <1>2 DEF OwnInv, ThreadShape

\* A new socket is not touched by another thread's call.
LEMMA NewStays ==
    ASSUME OwnInv, NEW p \in Procs, NEW h \in Handles,
           \/ IsFree(h)
           \/ \E s \in Places : Has[s] = h /\ s[2] = p,
           \A g \in Handles \ {h} : sock[g].kind = "new" => sock'[g].kind = "new"
    PROVE  \A q \in Procs \ {p} : call[q].pc \in {"connect", "listen"} => sock'[local[q]].kind = "new"
<1> SUFFICES ASSUME NEW q \in Procs \ {p}, call[q].pc \in {"connect", "listen"}
             PROVE  sock'[local[q]].kind = "new"
  OBVIOUS
<1>1. sock[local[q]].kind = "new" /\ local[q] # NoHandle /\ local[q] \in Handles
  BY PlaceTypes DEF OwnInv, ProcInv, ProcAt
<1>2. local[q] # h
  <2>1. CASE IsFree(h)
    BY <1>1, <2>1 DEF IsFree
  <2>2. CASE \E s \in Places : Has[s] = h /\ s[2] = p
    <3>1. PICK s \in Places : Has[s] = h /\ s[2] = p
      BY <2>2
    <3>2. <<"local", q>> \in Places /\ Has[<<"local", q>>] = local[q]
      BY PlaceCases, HasAt DEF HasFacts
    <3>3. s # <<"local", q>>
      <4>1. <<"local", q>>[2] = q
        OBVIOUS
      <4> QED
        BY <3>1, <4>1
    <3> QED
      BY <1>1, <3>1, <3>2, <3>3, HandleRange DEF OwnInv, PlaceInv
  <2> QED
    BY <2>1, <2>2
<1> QED
  BY <1>1, <1>2

-----------------------------------------------------------------------------
LEMMA CallTo ==
    ASSUME ThreadShape, NEW p \in Procs, NEW r \in Calls, call' = [call EXCEPT ![p] = r]
    PROVE  /\ call' \in [Procs -> Calls] /\ call'[p] = r
           /\ \A q \in Procs \ {p} : call'[q] = call[q]
  BY DEF ThreadShape

LEMMA GoToEffect ==
    ASSUME ThreadShape, NEW p \in Procs, NEW pc \in ClientCalls \cup ServerCalls, GoTo(p, pc)
    PROVE  /\ call' \in [Procs -> Calls]
           /\ call'[p].pc = pc /\ call'[p].size = 0 /\ call'[p].position = 0
           /\ \A q \in Procs \ {p} : call'[q] = call[q]
<1> DEFINE r == [pc |-> pc, size |-> 0, position |-> 0]
<1>1. r \in Calls /\ call' = [call EXCEPT ![p] = r]
  <2>1. r \in Calls
    BY DEF Calls
  <2>2. [Idle EXCEPT !.pc = pc] = r
    BY DEF Idle
  <2> QED
    BY <2>1, <2>2 DEF GoTo
<1>2. r.pc = pc /\ r.size = 0 /\ r.position = 0
  OBVIOUS
<1> HIDE DEF r
<1> QED
  BY <1>1, <1>2, CallTo

LEMMA FromTo ==
    ASSUME ThreadShape, NEW p \in Procs, NEW pc \in ClientCalls \cup ServerCalls,
           call' = [call EXCEPT ![p].pc = pc]
    PROVE  /\ call' \in [Procs -> Calls]
           /\ call'[p].pc = pc /\ call'[p].size = call[p].size /\ call'[p].position = call[p].position
           /\ \A q \in Procs \ {p} : call'[q] = call[q]
<1>1. call[p] \in Calls
  BY DEF ThreadShape
<1>2. call'[p] = [call[p] EXCEPT !.pc = pc] /\ \A q \in Procs \ {p} : call'[q] = call[q]
  BY DEF ThreadShape
<1>3. /\ call'[p] \in Calls /\ call'[p].pc = pc
      /\ call'[p].size = call[p].size /\ call'[p].position = call[p].position
  BY <1>1, <1>2 DEF Calls
<1> QED
  BY <1>2, <1>3 DEF ThreadShape

LEMMA CallFields ==
    ASSUME ThreadShape
    PROVE  \A p \in Procs : /\ call[p] \in Calls /\ call[p].pc \in ClientCalls \cup ServerCalls
                            /\ call[p].size \in Nat /\ call[p].position \in Nat
  BY DEF ThreadShape, Calls

\* A step of p that changes neither what anybody has nor which handles are free.
LEMMA ControlOnly ==
    ASSUME OwnInv, NEW p \in Procs, SockShape', EndsInv', ThreadShape',
           UNCHANGED <<connector, listener, local, leaked>>,
           \A q \in Procs : stream'[q].handle = stream[q].handle,
           \A g \in Handles : FreeAs(g) /\ (sock[g].kind = "new" => sock'[g].kind = "new"),
           \A q \in Procs \ {p} : call'[q].pc = call[q].pc,
           ProcAt(p)', p \in Clients => ClientAt(p)', p = Server => ServerInv'
    PROVE  OwnInv'
<1>1. OthersStay(p)
  <2>1. ASSUME NEW q \in Procs \ {p}, call[q].pc \in {"connect", "listen"}
        PROVE  sock'[local[q]].kind = "new"
    <3>1. sock[local[q]].kind = "new" /\ local[q] \in Handles
      BY <2>1, PlaceTypes DEF OwnInv, ProcInv, ProcAt
    <3> QED
      BY <3>1
  <2> QED
    BY <2>1 DEF OthersStay
<1>2. \A s \in Places : Has'[s] = Has[s]
  <2>1. \A s \in Places \ {} : Has'[s] = Has[s]
    BY HasSame
  <2> QED
    BY <2>1
<1>3. PlaceInv'
  BY <1>2, PlaceTypes, PlacesStay
<1> QED
  BY <1>1, <1>3, OthersKeep DEF OwnInv

\* Streams keep their handles when only isValid changes.
LEMMA StreamType ==
    ASSUME ThreadShape, NEW p \in Procs, NEW b \in BOOLEAN,
           stream' = [stream EXCEPT ![p].isValid = b]
    PROVE  /\ stream' \in [Procs -> [handle : Handles \cup {NoHandle}, isValid : BOOLEAN]]
           /\ \A q \in Procs : stream'[q].handle = stream[q].handle
  BY DEF ThreadShape

\* Calls that begin, wait, wake up, or end without a word to the sockets.
LEMMA CalmSteps ==
    ASSUME OwnInv, NEW p \in Procs,
           \/ Start(p, "read") \/ Start(p, "write") \/ IOFails(p)
           \/ ReadNothing(p) \/ WriteNothing(p) \/ StreamWakes(p) \/ WaitThrows(p)
           \/ p \in Clients /\ ConnectorWait(p)
           \/ /\ p = Server
              /\ \/ ListenerCheck \/ CheckHasHandle \/ CheckWouldBlock \/ CheckThrows \/ ListenerWakes
    PROVE  OwnInv'
<1>0. /\ ThreadShape /\ call[p] \in Calls /\ ProcAt(p) /\ ServerInv /\ SockShape /\ EndsInv
      /\ p \in Clients => ClientAt(p)
      /\ p # Server => p \in Clients
  BY CallFields DEF OwnInv, ProcInv, ClientInv, Procs
<1> DEFINE Quiet == UNCHANGED <<sock, queue, connector, listener, local, leaked, got>>
<1> DEFINE Ok(pc) ==
       /\ pc \in {"idle", "wait", "check", "checkToGet", "listenerWait", "get"} \cup StreamCalls
       /\ local[p] = NoHandle
       /\ pc \in StreamCalls => HasStream(p)
       /\ p \in Clients => /\ pc \in ClientCalls
                           /\ connector[p] # NoHandle => pc \in {"idle", "wait"}
                           /\ pc = "wait" => connector[p] # NoHandle
       /\ p = Server => /\ pc \in ServerCalls
                        /\ pc \in {"check", "checkToGet", "listenerWait", "get"} => listener.handle # NoHandle
                        /\ pc \in {"checkToGet", "listenerWait", "get"} => ~HasStream(Server)
<1>1. ASSUME Quiet, ThreadShape', \A q \in Procs : stream'[q].handle = stream[q].handle,
             \A q \in Procs \ {p} : call'[q].pc = call[q].pc, Ok(call'[p].pc)
      PROVE  OwnInv'
  <2>1. SockShape' /\ EndsInv'
    BY <1>0, <1>1 DEF SockShape, EndsInv
  <2>2. \A g \in Handles : FreeAs(g) /\ (sock[g].kind = "new" => sock'[g].kind = "new")
    BY <1>1 DEF FreeAs
  <2>3. ProcAt(p)'
    BY <1>0, <1>1 DEF ProcAt, StreamCalls, HasStream
  <2>4. p \in Clients => ClientAt(p)'
    BY <1>0, <1>1 DEF ClientAt, HasStream
  <2>5. p = Server => ServerInv'
    BY <1>0, <1>1 DEF ServerInv, HasStream, StreamCalls
  <2> QED
    BY <1>1, <2>1, <2>2, <2>3, <2>4, <2>5, ControlOnly
<1>2. ASSUME Quiet, call' \in [Procs -> Calls], \A q \in Procs \ {p} : call'[q] = call[q],
             stream' = stream, written' \in [Procs -> Nat], Ok(call'[p].pc)
      PROVE  OwnInv'
  <2>1. ThreadShape'
    BY <1>0, <1>2 DEF ThreadShape
  <2> QED
    BY <1>1, <1>2, <2>1
<1> HIDE DEF Ok
<1>taken. written[p] + TakenOf(p) \in Nat
  BY <1>0, CallFields DEF ThreadShape, TakenOf
<1>3. CASE Start(p, "read") \/ Start(p, "write")
  <2>1. PICK pc \in {"read", "write"}, n \in Sizes :
           call' = [call EXCEPT ![p] = [pc |-> pc, size |-> n, position |-> 0]]
    BY <1>3 DEF Start
  <2>2. [pc |-> pc, size |-> n, position |-> 0] \in Calls
    BY TCPAssumption DEF Calls, ClientCalls
  <2>3. call' \in [Procs -> Calls] /\ call'[p].pc = pc /\ \A q \in Procs \ {p} : call'[q] = call[q]
    BY <1>0, <2>1, <2>2, CallTo
  <2>4. Quiet /\ stream' = stream /\ written' = written /\ In(p, "idle") /\ HasStream(p)
    BY <1>3 DEF Start, sockets
  <2>5. Ok(pc)
    BY <1>0, <2>4 DEF Ok, In, ProcAt, ClientAt, StreamCalls, ClientCalls, ServerCalls
  <2> QED
    BY <1>0, <1>2, <2>3, <2>4, <2>5 DEF ThreadShape
<1>4. CASE IOFails(p)
  <2>1. /\ call[p].pc \in {"read", "write"} /\ stream' = [stream EXCEPT ![p].isValid = FALSE]
        /\ GoTo(p, "idle") /\ UNCHANGED <<sock, queue, connector, listener, local, got, leaked>>
        /\ written' = [written EXCEPT ![p] = @ + TakenOf(p)]
    BY <1>4 DEF IOFails, In, Return, sockets
  <2>2. call' \in [Procs -> Calls] /\ call'[p].pc = "idle" /\ \A q \in Procs \ {p} : call'[q] = call[q]
    BY <1>0, <2>1, GoToEffect DEF ClientCalls
  <2>3. /\ stream' \in [Procs -> [handle : Handles \cup {NoHandle}, isValid : BOOLEAN]]
        /\ \A q \in Procs : stream'[q].handle = stream[q].handle
    BY <1>0, <2>1, StreamType
  <2>4. ThreadShape'
    BY <1>0, <2>1, <2>2, <2>3, <1>taken DEF ThreadShape
  <2>5. Ok("idle")
    BY <1>0, <2>1 DEF Ok, ProcAt, ClientAt, StreamCalls, ClientCalls, ServerCalls
  <2> QED
    BY <1>1, <2>1, <2>2, <2>3, <2>4, <2>5
<1>5. CASE ReadNothing(p) \/ WriteNothing(p) \/ StreamWakes(p)
  <2>1. PICK pc \in StreamCalls : call' = [call EXCEPT ![p].pc = pc]
    BY <1>5 DEF ReadNothing, WriteNothing, StreamWakes, StreamCalls
  <2>2. call[p].pc \in StreamCalls
    BY <1>5 DEF ReadNothing, WriteNothing, StreamWakes, StreamCalls, In
  <2>3. Quiet /\ stream' = stream /\ written' = written
    BY <1>5 DEF ReadNothing, WriteNothing, StreamWakes, sockets
  <2>4. call' \in [Procs -> Calls] /\ call'[p].pc = pc /\ \A q \in Procs \ {p} : call'[q] = call[q]
    <3>1. pc \in ClientCalls \cup ServerCalls
      BY DEF StreamCalls, ClientCalls
    <3> QED
      BY <1>0, <2>1, <3>1, FromTo
  <2>5. Ok(pc)
    BY <1>0, <2>2 DEF Ok, ProcAt, ClientAt, StreamCalls, ClientCalls, ServerCalls
  <2> QED
    BY <1>0, <1>2, <2>3, <2>4, <2>5 DEF ThreadShape
<1>6. CASE WaitThrows(p)
  <2>1. /\ call[p].pc \in {"readWait", "writeWait", "listenerWait"} /\ GoTo(p, "idle")
        /\ UNCHANGED <<sock, queue, connector, listener, stream, local, got, leaked>>
        /\ written' = [written EXCEPT ![p] = @ + TakenOf(p)]
    BY <1>6 DEF WaitThrows, Return, sockets
  <2>2. call' \in [Procs -> Calls] /\ call'[p].pc = "idle" /\ \A q \in Procs \ {p} : call'[q] = call[q]
    BY <1>0, <2>1, GoToEffect DEF ClientCalls
  <2>3. written' \in [Procs -> Nat]
    BY <1>0, <2>1, <1>taken DEF ThreadShape
  <2>4. Ok("idle")
    BY <1>0, <2>1 DEF Ok, ProcAt, ClientAt, StreamCalls, ClientCalls, ServerCalls
  <2> QED
    BY <1>2, <2>1, <2>2, <2>3, <2>4
<1>7. CASE p \in Clients /\ ConnectorWait(p)
  <2>1. /\ call[p].pc = "idle" /\ connector[p] # NoHandle /\ GoTo(p, "wait")
        /\ UNCHANGED <<sock, queue, connector, listener, stream, local, written, got, leaked>>
    BY <1>7 DEF ConnectorWait, In, sockets
  <2>2. call' \in [Procs -> Calls] /\ call'[p].pc = "wait" /\ \A q \in Procs \ {p} : call'[q] = call[q]
    BY <1>0, <2>1, GoToEffect DEF ClientCalls
  <2>3. Ok("wait")
    BY <1>0, <1>7, <2>1, PlaceTypes DEF Ok, ProcAt, ClientAt, StreamCalls, ClientCalls, ServerCalls
  <2> QED
    BY <1>0, <1>2, <2>1, <2>2, <2>3 DEF ThreadShape
<1>8. CASE p = Server /\ \/ ListenerCheck \/ CheckHasHandle \/ CheckWouldBlock
                         \/ CheckThrows \/ ListenerWakes
  <2>1. UNCHANGED <<sock, queue, connector, listener, stream, local, written, got, leaked>>
    BY <1>8 DEF ListenerCheck, CheckHasHandle, CheckWouldBlock, CheckThrows, ListenerWakes, sockets
  <2>2. PICK pc \in {"idle", "check", "checkToGet", "listenerWait", "get"} :
           /\ GoTo(Server, pc) /\ listener.handle # NoHandle /\ local[Server] = NoHandle
           /\ pc \in {"checkToGet", "listenerWait", "get"} => ~HasStream(Server)
    BY <1>0, <1>8
    DEF ListenerCheck, CheckHasHandle, CheckWouldBlock, CheckThrows, ListenerWakes, In, Return,
        CheckTrue, Checking, ProcAt, ServerInv
  <2>3. call' \in [Procs -> Calls] /\ call'[p].pc = pc /\ \A q \in Procs \ {p} : call'[q] = call[q]
    <3>1. pc \in ClientCalls \cup ServerCalls
      BY DEF ServerCalls
    <3> QED
      BY <1>0, <1>8, <2>2, <3>1, GoToEffect
  <2>4. Ok(pc)
    BY <1>8, <2>2, PlaceTypes DEF Ok, StreamCalls, ServerCalls
  <2> QED
    BY <1>0, <1>2, <2>1, <2>3, <2>4 DEF ThreadShape
<1> QED
  BY <1>3, <1>4, <1>5, <1>6, <1>7, <1>8

-----------------------------------------------------------------------------
\* Reading and writing: n bytes, after which the call goes on or ends.
LEMMA AdvanceEffect ==
    ASSUME ThreadShape, NEW p \in Procs, NEW n \in Nat, n <= Wanted(p), Advance(p, n),
           call[p].pc \in {"read", "write"}
    PROVE  /\ call' \in [Procs -> Calls] /\ \A q \in Procs \ {p} : call'[q] = call[q]
           /\ \/ n = Wanted(p) /\ call'[p].pc = "idle" /\ call'[p].position = 0 /\ call'[p].size = 0
              \/ /\ n # Wanted(p) /\ call'[p].pc = call[p].pc /\ call'[p].size = call[p].size
                 /\ call'[p].position = call[p].position + n
<1>1. CASE n = Wanted(p)
  <2>1. GoTo(p, "idle")
    BY <1>1 DEF Advance, Return
  <2> QED
    BY <1>1, <2>1, GoToEffect DEF ClientCalls
<1>2. CASE n # Wanted(p)
  <2>1. call' = [call EXCEPT ![p].position = @ + n]
    BY <1>2 DEF Advance
  <2>2. call[p] \in Calls /\ call[p].position + n \in Nat
    BY CallFields
  <2>3. call'[p] = [call[p] EXCEPT !.position = @ + n] /\ \A q \in Procs \ {p} : call'[q] = call[q]
    BY <2>1 DEF ThreadShape
  <2>4. /\ call'[p] \in Calls /\ call'[p].pc = call[p].pc /\ call'[p].size = call[p].size
        /\ call'[p].position = call[p].position + n
    BY <2>2, <2>3 DEF Calls
  <2>5. call' \in [Procs -> Calls]
    BY <2>1, <2>3, <2>4 DEF ThreadShape
  <2> QED
    BY <1>2, <2>3, <2>4, <2>5
<1> QED
  BY <1>1, <1>2

\* What a thread that reads or writes has.
LEMMA InStream ==
    ASSUME OwnInv, NEW p \in Procs, call[p].pc \in StreamCalls
    PROVE  /\ Handle(p) \in Handles /\ ~IsFree(Handle(p)) /\ local[p] = NoHandle
           /\ p \in Clients => connector[p] = NoHandle
<1>1. Handle(p) \in Handles
  BY PlaceTypes DEF OwnInv, ProcInv, ProcAt, HasStream, Handle
<1>2. ~IsFree(Handle(p))
  <2>1. <<"stream", p>> \in Places /\ Has[<<"stream", p>>] = Handle(p)
    BY PlaceCases, HasAt DEF HasFacts, Handle
  <2> QED
    BY <1>1, <2>1, HandleRange DEF OwnInv, PlaceInv
<1>3. local[p] = NoHandle /\ (p \in Clients => connector[p] = NoHandle)
  BY DEF OwnInv, ProcInv, ProcAt, ClientInv, ClientAt, StreamCalls
<1> QED
  BY <1>1, <1>2, <1>3

LEMMA WantedType ==
    ASSUME ThreadShape, NEW p \in Procs, call[p].position <= call[p].size, NEW m \in Nat
    PROVE  /\ Wanted(p) \in Nat /\ Lesser(Wanted(p), m) \in Nat
           /\ Lesser(Wanted(p), m) <= Wanted(p) /\ Lesser(Wanted(p), m) <= m
  BY CallFields DEF Wanted, Lesser

\* The call goes on or ends, and the sockets keep what they are.
LEMMA StreamKeeps ==
    ASSUME OwnInv, NEW p \in Procs, call[p].pc \in {"read", "write"},
           SockShape', EndsInv', ThreadShape',
           UNCHANGED <<connector, listener, stream, local, leaked>>,
           \A g \in Handles : FreeAs(g) /\ (sock[g].kind = "new" => sock'[g].kind = "new"),
           \A q \in Procs \ {p} : call'[q] = call[q],
           call'[p].pc = "idle" \/ call'[p].pc = call[p].pc
    PROVE  OwnInv'
<1>1. local[p] = NoHandle /\ HasStream(p) /\ (p \in Clients => connector[p] = NoHandle)
  BY InStream DEF OwnInv, ProcInv, ProcAt, StreamCalls
<1>2. ProcAt(p)'
  BY <1>1 DEF ProcAt, StreamCalls, HasStream
<1>3. p \in Clients => ClientAt(p)'
  BY <1>1 DEF ClientAt, HasStream, ClientCalls
<1>4. p = Server => ServerInv'
  BY <1>1 DEF OwnInv, ServerInv, HasStream, ServerCalls
<1> QED
  BY <1>2, <1>3, <1>4, ControlOnly

LEMMA ReadSomeKeeps == ASSUME OwnInv, NEW p \in Procs, Within(p), ReadSome(p) PROVE OwnInv'
<1> DEFINE h == Handle(p)
<1> DEFINE n == Lesser(Wanted(p), Len(sock[h].in))
<1>1. /\ call[p].pc = "read" /\ ReceiveBytes(h, n) /\ Advance(p, n)
      /\ got' = [got EXCEPT ![p] = @ \o SubSeq(sock[h].in, 1, n)]
      /\ UNCHANGED <<connector, listener, stream, local, written, leaked>>
  BY DEF ReadSome, In
<1>2. h \in Handles /\ SockShape /\ EndsInv /\ ThreadShape
  BY <1>1, InStream DEF StreamCalls, OwnInv
<1>3. sock[h].in \in Seq(Nat) /\ Len(sock[h].in) \in Nat
  BY <1>2, Fields, LenProperties
<1>4. n \in Nat /\ n <= Wanted(p) /\ n \in 0 .. Len(sock[h].in)
  BY <1>2, <1>3, WantedType DEF Within
<1> HIDE DEF h, n
<1>5. /\ sock'[h].kind = sock[h].kind /\ \A g \in Handles \ {h} : sock'[g] = sock[g]
      /\ SockShape' /\ EndsInv'
  BY <1>1, <1>2, <1>4, ReceiveEffect
<1>6. /\ call' \in [Procs -> Calls] /\ \A q \in Procs \ {p} : call'[q] = call[q]
      /\ call'[p].pc = "idle" \/ call'[p].pc = call[p].pc
  BY <1>1, <1>2, <1>4, AdvanceEffect
<1>7. got' \in [Procs -> Seq(Nat)]
  <2>1. SubSeq(sock[h].in, 1, n) \in Seq(Nat) /\ got[p] \in Seq(Nat)
    <3>1. \A i \in 1 .. n : sock[h].in[i] \in Nat
      BY <1>3, <1>4, ElementOfSeq
    <3> QED
      BY <1>2, <1>4, <3>1, SubSeqProperties DEF ThreadShape
  <2>2. got[p] \o SubSeq(sock[h].in, 1, n) \in Seq(Nat)
    BY <2>1, ConcatProperties
  <2> QED
    BY <1>1, <1>2, <2>2 DEF ThreadShape
<1>8. ThreadShape'
  BY <1>1, <1>2, <1>6, <1>7 DEF ThreadShape
<1>9. \A g \in Handles : FreeAs(g) /\ (sock[g].kind = "new" => sock'[g].kind = "new")
  BY <1>5 DEF FreeAs
<1> QED
  BY <1>1, <1>5, <1>6, <1>8, <1>9, StreamKeeps

LEMMA BufferType ==
    ASSUME NEW p \in Procs, written[p] \in Nat, NEW m \in Nat, NEW n \in Nat
    PROVE  /\ Buffer(p, m, n) \in Seq(Nat) /\ Len(Buffer(p, m, n)) = n
           /\ \A i \in 1 .. n : Buffer(p, m, n)[i] = written[p] + m + i
<1>1. Buffer(p, m, n) \in [1 .. n -> Nat] /\ \A i \in 1 .. n : Buffer(p, m, n)[i] = written[p] + m + i
  BY DEF Buffer
<1> QED
  BY <1>1, SeqDef, LenProperties

LEMMA SpaceType ==
    ASSUME SockShape, EndsInv, NEW h \in Handles, Connected(h), Space(h) > 0
    PROVE  Space(h) \in Nat
<1>1. Len(Underway(h)) \in Nat
  <2>1. CASE sock[h].peer = Pending
    <3>1. \E i \in DOMAIN queue : queue[i].from = h
      BY <2>1 DEF EndsInv
    <3>2. Underway(h) = queue[CHOOSE i \in DOMAIN queue : queue[i].from = h].early
      BY <2>1 DEF Underway
    <3>3. Underway(h) \in Seq(Nat)
      BY <3>1, <3>2, Fields
    <3> QED
      BY <3>3, LenProperties
  <2>2. CASE sock[h].peer # Pending
    <3>1. sock[h].peer \in Handles
      BY <2>2, Fields DEF Connected
    <3>2. Underway(h) \in Seq(Nat)
      BY <2>2, <3>1, Fields DEF Underway
    <3> QED
      BY <3>2, LenProperties
  <2> QED
    BY <2>1, <2>2
<1>2. Capacity \in Nat
  BY TCPAssumption
<1>3. Space(h) \in Int
  BY <1>1, <1>2 DEF Space
<1> QED
  BY <1>3

LEMMA WriteSomeKeeps == ASSUME OwnInv, NEW p \in Procs, Within(p), WriteSome(p) PROVE OwnInv'
<1> DEFINE h == Handle(p)
<1> DEFINE n == Lesser(Wanted(p), Space(h))
<1>1. /\ call[p].pc = "write" /\ Connected(h) /\ Space(h) > 0
      /\ SendBytes(h, Buffer(p, call[p].position, n)) /\ Advance(p, n)
      /\ written' = [written EXCEPT ![p] = IF n = Wanted(p) THEN @ + call[p].size ELSE @]
      /\ UNCHANGED <<connector, listener, stream, local, got, leaked>>
  BY DEF WriteSome, In
<1>2. h \in Handles /\ SockShape /\ EndsInv /\ ThreadShape
  BY <1>1, InStream DEF StreamCalls, OwnInv
<1>3. Space(h) \in Nat /\ written[p] \in Nat /\ call[p].position \in Nat /\ call[p].size \in Nat
  BY <1>1, <1>2, SpaceType, CallFields DEF ThreadShape
<1>4. n \in Nat /\ n <= Wanted(p)
  BY <1>2, <1>3, WantedType DEF Within
<1> HIDE DEF h, n
<1>5. /\ \A g \in Handles : sock'[g].kind = sock[g].kind
      /\ SockShape' /\ EndsInv'
  BY <1>1, <1>2, <1>3, <1>4, BufferType, SendEffect
<1>6. /\ call' \in [Procs -> Calls] /\ \A q \in Procs \ {p} : call'[q] = call[q]
      /\ call'[p].pc = "idle" \/ call'[p].pc = call[p].pc
  BY <1>1, <1>2, <1>4, AdvanceEffect
<1>7. written' \in [Procs -> Nat]
  BY <1>1, <1>2, <1>3 DEF ThreadShape
<1>8. ThreadShape'
  BY <1>1, <1>2, <1>6, <1>7 DEF ThreadShape
<1>9. \A g \in Handles : FreeAs(g) /\ (sock[g].kind = "new" => sock'[g].kind = "new")
  BY <1>5 DEF FreeAs
<1> QED
  BY <1>1, <1>5, <1>6, <1>8, <1>9, StreamKeeps

LEMMA WriteIsLostKeeps == ASSUME OwnInv, NEW p \in Procs, WriteIsLost(p) PROVE OwnInv'
<1> DEFINE h == Handle(p)
<1>1. /\ call[p].pc = "write" /\ sock[h].kind = "connected" /\ ~Connected(h)
      /\ SendIsLost(h) /\ GoTo(p, "idle")
      /\ written' = [written EXCEPT ![p] = @ + call[p].size]
      /\ UNCHANGED <<connector, listener, stream, local, got, leaked>>
  BY DEF WriteIsLost, In, Return
<1>2. h \in Handles /\ SockShape /\ EndsInv /\ ThreadShape
  BY <1>1, InStream DEF StreamCalls, OwnInv
<1>3. written[p] \in Nat /\ call[p].size \in Nat
  BY <1>2, CallFields DEF ThreadShape
<1> HIDE DEF h
<1>4. /\ sock'[h].kind = "reset" /\ \A g \in Handles \ {h} : sock'[g] = sock[g]
      /\ SockShape' /\ EndsInv'
  BY <1>1, <1>2, LostEffect
<1>5. call' \in [Procs -> Calls] /\ call'[p].pc = "idle" /\ \A q \in Procs \ {p} : call'[q] = call[q]
  BY <1>1, <1>2, GoToEffect DEF ClientCalls
<1>6. written' \in [Procs -> Nat]
  BY <1>1, <1>2, <1>3 DEF ThreadShape
<1>7. ThreadShape'
  BY <1>1, <1>2, <1>5, <1>6 DEF ThreadShape
<1>8. \A g \in Handles : FreeAs(g) /\ (sock[g].kind = "new" => sock'[g].kind = "new")
  BY <1>1, <1>4 DEF FreeAs
<1> QED
  BY <1>1, <1>4, <1>5, <1>7, <1>8, StreamKeeps

LEMMA NetworkKeeps == ASSUME OwnInv, Network PROVE OwnInv'
<1>1. PICK h \in Handles : Handshake(h)
  BY DEF Network
<1>2. UNCHANGED <<connector, listener, stream, local, call, written, got, leaked>>
  BY DEF Network
<1>3. /\ sock[h].kind = "connecting" /\ sock'[h].kind \in {"refused", "connected"}
      /\ \A g \in Handles \ {h} : sock'[g] = sock[g]
      /\ SockShape' /\ EndsInv'
  BY <1>1, HandshakeEffect DEF OwnInv
<1>4. \A g \in Handles : FreeAs(g) /\ (sock[g].kind = "new" => sock'[g].kind = "new")
  BY <1>3 DEF FreeAs
<1>5. ThreadShape' /\ Server \in Procs
  BY <1>2, PlaceTypes DEF OwnInv, ThreadShape
<1>6. ProcAt(Server)'
  <2>1. call[Server].pc \in {"connect", "listen"} => sock'[local[Server]].kind = "new"
    <3>1. call[Server].pc \in {"connect", "listen"} =>
             sock[local[Server]].kind = "new" /\ local[Server] \in Handles
      BY <1>5, PlaceTypes DEF OwnInv, ProcInv, ProcAt
    <3> QED
      BY <1>4, <3>1
  <2> QED
    BY <1>2, <1>5, <2>1 DEF OwnInv, ProcInv, ProcAt, HasStream
<1>7. ServerInv'
  BY <1>2 DEF OwnInv, ServerInv, HasStream
<1>8. Server \notin Clients
  BY TCPAssumption
<1> QED
  BY <1>2, <1>3, <1>4, <1>5, <1>6, <1>7, <1>8, ControlOnly

-----------------------------------------------------------------------------
\* Steps that change who has what.  What they have in common:
LEMMA HeldIsOpen ==
    ASSUME OwnInv, NEW s \in Places, Has[s] # NoHandle
    PROVE  Has[s] \in Handles /\ ~IsFree(Has[s])
  BY PlaceTypes DEF OwnInv, PlaceInv

LEMMA CloseKeeps ==
    ASSUME NEW h \in Handles, \A g \in Handles \ {h} : Kept(g)
    PROVE  /\ \A g \in Handles \ {h} : FreeAs(g)
           /\ \A g \in Handles \ {h} : sock[g].kind = "new" => sock'[g].kind = "new"
  BY DEF Kept, FreeAs

\* A thread closes the handle of one of its places.
LEMMA ClosePlace ==
    ASSUME OwnInv, NEW p \in Procs, NEW s \in Places, s[2] = p, Has[s] # NoHandle, Close(Has[s]),
           ThreadShape', \A u \in Places \ {s} : Has'[u] = Has[u], Has'[s] = NoHandle,
           leaked' = leaked
    PROVE  /\ SockShape' /\ EndsInv' /\ PlaceInv'
           /\ \A q \in Procs \ {p} : call[q].pc \in {"connect", "listen"} => sock'[local[q]].kind = "new"
<1>1. Has[s] \in Handles
  BY HeldIsOpen
<1>2. /\ sock'[Has[s]] = Socket("free") /\ \A g \in Handles \ {Has[s]} : Kept(g)
      /\ SockShape' /\ EndsInv'
  BY <1>1, CloseEffect DEF OwnInv
<1>3. /\ \A g \in Handles \ {Has[s]} : FreeAs(g)
      /\ \A g \in Handles \ {Has[s]} : sock[g].kind = "new" => sock'[g].kind = "new"
  BY <1>1, <1>2, CloseKeeps
<1>4. sock'[Has[s]].kind = "free"
  BY <1>2, NewSocket DEF Kinds
<1>5. Change(s, NoHandle)
  BY DEF Change
<1>6. PlaceInv'
  BY <1>1, <1>3, <1>4, <1>5, PlaceTypes, PlaceCloses
<1>7. \A q \in Procs \ {p} : call[q].pc \in {"connect", "listen"} => sock'[local[q]].kind = "new"
  BY <1>1, <1>3, NewStays
<1> QED
  BY <1>2, <1>6, <1>7

LEMMA CreateKeeps == ASSUME OwnInv, NEW p \in Procs, Create(p) PROVE OwnInv'
<1> DEFINE pc == IF p = Server THEN "listen" ELSE "connect"
<1> DEFINE s == <<"local", p>>
<1>1. PICK h \in Handles : OpenSocket(h) /\ local' = [local EXCEPT ![p] = h]
  BY DEF Create
<1>2. /\ call[p].pc = "idle" /\ GoTo(p, pc)
      /\ p \in Clients => connector[p] = NoHandle /\ ~HasStream(p)
      /\ p = Server => listener.handle = NoHandle
      /\ UNCHANGED <<connector, listener, stream, written, got, leaked>>
  BY DEF Create, In
<1>3. /\ IsFree(h) /\ sock'[h] = Socket("new") /\ \A g \in Handles \ {h} : sock'[g] = sock[g]
      /\ SockShape' /\ EndsInv'
  BY <1>1, OpenEffect DEF OwnInv
<1>4. sock'[h].kind = "new"
  BY <1>3, NewSocket DEF Kinds
<1>5. local[p] = NoHandle /\ ThreadShape
  BY <1>2 DEF OwnInv, ProcInv, ProcAt
<1>6. call' \in [Procs -> Calls] /\ call'[p].pc = pc /\ \A q \in Procs \ {p} : call'[q] = call[q]
  BY <1>2, <1>5, GoToEffect DEF ClientCalls, ServerCalls
<1>7. /\ local' \in [Procs -> Handles \cup {NoHandle}] /\ local'[p] = h
      /\ \A q \in Procs \ {p} : local'[q] = local[q]
  BY <1>1, <1>5 DEF ThreadShape
<1>8. ThreadShape'
  BY <1>2, <1>5, <1>6, <1>7 DEF ThreadShape
<1>9. PlaceInv'
  <2>1. s \in Places /\ Has[s] = NoHandle /\ Has'[s] = h
    BY <1>5, <1>7, PlaceCases, HasAt, HasAtNext DEF HasFacts
  <2>2. \A u \in Places \ {s} : Has'[u] = Has[u]
    BY <1>2, <1>7, HasSame
  <2>3. Change(s, h)
    BY <2>1, <2>2 DEF Change
  <2>4. \A g \in Handles \ {h} : FreeAs(g)
    BY <1>3 DEF FreeAs
  <2> QED
    BY <1>2, <1>3, <1>4, <2>1, <2>3, <2>4, PlaceTypes, PlaceTakes
<1>10. OthersStay(p)
  <2>1. \A q \in Procs \ {p} : call[q].pc \in {"connect", "listen"} => sock'[local[q]].kind = "new"
    BY <1>3, NewStays
  <2> QED
    BY <1>2, <1>6, <1>7, <2>1 DEF OthersStay
<1>11. ProcAt(p)'
  BY <1>4, <1>6, <1>7, HandleRange DEF ProcAt, StreamCalls
<1>12. p \in Clients => ClientAt(p)'
  BY <1>2, <1>6, PlaceTypes DEF ClientAt, ClientCalls, HasStream
<1>13. p = Server => ServerInv'
  BY <1>2, <1>6 DEF OwnInv, ServerInv, ServerCalls
<1> QED
  BY <1>3, <1>8, <1>9, <1>10, <1>11, <1>12, <1>13, OthersKeep DEF OwnInv

LEMMA CreateFailsKeeps == ASSUME OwnInv, NEW p \in Procs, CreateFails(p) PROVE OwnInv'
<1> DEFINE s == <<"local", p>>
<1>1. /\ call[p].pc \in {"connect", "listen", "geterror"} /\ Close(local[p])
      /\ local' = [local EXCEPT ![p] = NoHandle] /\ GoTo(p, "idle")
      /\ UNCHANGED <<connector, listener, stream, written, got, leaked>>
  BY DEF CreateFails, Return
<1>2. ThreadShape /\ local[p] # NoHandle
  BY <1>1 DEF OwnInv, ProcInv, ProcAt
<1>3. call' \in [Procs -> Calls] /\ call'[p].pc = "idle" /\ \A q \in Procs \ {p} : call'[q] = call[q]
  BY <1>1, <1>2, GoToEffect DEF ClientCalls
<1>4. /\ local' \in [Procs -> Handles \cup {NoHandle}] /\ local'[p] = NoHandle
      /\ \A q \in Procs \ {p} : local'[q] = local[q]
  BY <1>1, <1>2 DEF ThreadShape
<1>5. ThreadShape'
  BY <1>1, <1>2, <1>3, <1>4 DEF ThreadShape
<1>6. s \in Places /\ s[2] = p /\ Has[s] = local[p] /\ Has'[s] = NoHandle
  BY <1>4, PlaceCases, HasAt, HasAtNext DEF HasFacts
<1>7. \A u \in Places \ {s} : Has'[u] = Has[u]
  BY <1>1, <1>4, HasSame
<1> HIDE DEF s
<1>8. /\ SockShape' /\ EndsInv' /\ PlaceInv'
      /\ \A q \in Procs \ {p} : call[q].pc \in {"connect", "listen"} => sock'[local[q]].kind = "new"
  BY <1>1, <1>2, <1>5, <1>6, <1>7, ClosePlace
<1>9. OthersStay(p)
  BY <1>1, <1>3, <1>4, <1>8 DEF OthersStay
<1>10. ProcAt(p)'
  BY <1>3, <1>4 DEF ProcAt, StreamCalls
<1>11. p \in Clients => ClientAt(p)'
  BY <1>1, <1>3, <1>4 DEF OwnInv, ClientInv, ClientAt, ClientCalls, HasStream
<1>12. p = Server => ServerInv'
  BY <1>1, <1>3 DEF OwnInv, ServerInv, ServerCalls, HasStream
<1> QED
  BY <1>5, <1>8, <1>9, <1>10, <1>11, <1>12, OthersKeep DEF OwnInv

\* A connector or a stream is closed, and the thread is idle.
LEMMA ConnectorClosesKeeps ==
    ASSUME OwnInv, NEW c \in Clients, DestroyConnector(c) \/ ConnectorWaitThrows(c) PROVE OwnInv'
<1> DEFINE s == <<"connector", c>>
<1>1. /\ Close(connector[c]) /\ connector' = [connector EXCEPT ![c] = NoHandle]
      /\ UNCHANGED <<listener, stream, local, written, got, leaked>>
  BY DEF DestroyConnector, ConnectorWaitThrows
<1>2. ThreadShape /\ c \in Procs /\ c # Server /\ connector[c] # NoHandle /\ local[c] = NoHandle
  BY PlaceTypes DEF OwnInv, ClientInv, ClientAt, ProcInv, ProcAt, DestroyConnector, ConnectorWaitThrows, In
<1>3. call' \in [Procs -> Calls] /\ call'[c].pc = "idle" /\ \A q \in Procs \ {c} : call'[q] = call[q]
  <2>1. CASE DestroyConnector(c)
    BY <1>2, <2>1 DEF DestroyConnector, In, ThreadShape
  <2>2. CASE ConnectorWaitThrows(c)
    BY <1>2, <2>2, GoToEffect DEF ConnectorWaitThrows, Return, ClientCalls
  <2> QED
    BY <2>1, <2>2
<1>4. /\ connector' \in [Clients -> Handles \cup {NoHandle}] /\ connector'[c] = NoHandle
      /\ \A d \in Clients \ {c} : connector'[d] = connector[d]
  BY <1>1, <1>2 DEF ThreadShape
<1>5. ThreadShape'
  BY <1>1, <1>2, <1>3, <1>4 DEF ThreadShape
<1>6. s \in Places /\ s[2] = c /\ Has[s] = connector[c] /\ Has'[s] = NoHandle
  BY <1>4, PlaceCases, HasAt, HasAtNext DEF HasFacts
<1>7. \A u \in Places \ {s} : Has'[u] = Has[u]
  BY <1>1, <1>4, HasSame
<1> HIDE DEF s
<1>8. /\ SockShape' /\ EndsInv' /\ PlaceInv'
      /\ \A q \in Procs \ {c} : call[q].pc \in {"connect", "listen"} => sock'[local[q]].kind = "new"
  BY <1>1, <1>2, <1>5, <1>6, <1>7, ClosePlace
<1>9. OthersStay(c)
  BY <1>1, <1>3, <1>4, <1>8 DEF OthersStay
<1>10. ProcAt(c)'
  BY <1>1, <1>2, <1>3 DEF ProcAt, StreamCalls
<1>11. ClientAt(c)'
  BY <1>1, <1>2, <1>3, <1>4 DEF ClientAt, ClientCalls, HasStream
<1> QED
  BY <1>2, <1>5, <1>8, <1>9, <1>10, <1>11, OthersKeep DEF OwnInv

LEMMA DestroyStreamKeeps == ASSUME OwnInv, NEW p \in Procs, DestroyStream(p) PROVE OwnInv'
<1> DEFINE s == <<"stream", p>>
<1>1. /\ call[p].pc = "idle" /\ stream[p].handle # NoHandle /\ Close(stream[p].handle)
      /\ stream' = [stream EXCEPT ![p] = NoStream]
      /\ written' = [written EXCEPT ![p] = 0] /\ got' = [got EXCEPT ![p] = <<>>]
      /\ UNCHANGED <<connector, listener, local, call, leaked>>
  BY DEF DestroyStream, In, HasStream, Handle
<1>2. ThreadShape
  BY DEF OwnInv
<1>3. /\ stream' \in [Procs -> [handle : Handles \cup {NoHandle}, isValid : BOOLEAN]]
      /\ stream'[p].handle = NoHandle
      /\ \A q \in Procs \ {p} : stream'[q] = stream[q]
  BY <1>1, <1>2 DEF ThreadShape, NoStream
<1>4. written' \in [Procs -> Nat] /\ got' \in [Procs -> Seq(Nat)]
  BY <1>1, <1>2, EmptySeq DEF ThreadShape
<1>5. ThreadShape'
  BY <1>1, <1>2, <1>3, <1>4 DEF ThreadShape
<1>6. s \in Places /\ s[2] = p /\ Has[s] = stream[p].handle /\ Has'[s] = NoHandle
  BY <1>3, PlaceCases, HasAt, HasAtNext DEF HasFacts
<1>7. \A u \in Places \ {s} : Has'[u] = Has[u]
  BY <1>1, <1>3, HasSame
<1> HIDE DEF s
<1>8. /\ SockShape' /\ EndsInv' /\ PlaceInv'
      /\ \A q \in Procs \ {p} : call[q].pc \in {"connect", "listen"} => sock'[local[q]].kind = "new"
  BY <1>1, <1>5, <1>6, <1>7, ClosePlace
<1>9. OthersStay(p)
  BY <1>1, <1>3, <1>8 DEF OthersStay
<1>10. ProcAt(p)'
  BY <1>1 DEF OwnInv, ProcInv, ProcAt, StreamCalls
<1>11. p \in Clients => ClientAt(p)'
  BY <1>1, <1>3 DEF OwnInv, ClientInv, ClientAt, HasStream
<1>12. p = Server => ServerInv'
  BY <1>1, <1>3 DEF OwnInv, ServerInv, HasStream
<1> QED
  BY <1>5, <1>8, <1>9, <1>10, <1>11, <1>12, OthersKeep DEF OwnInv

\* A thread passes a handle from one of its places to another, and may change
\* what the socket is.
LEMMA MovePlace ==
    ASSUME OwnInv, NEW p \in Procs, NEW s \in Places, NEW t \in Places, s # t, s[2] = p,
           Has[s] # NoHandle, Has[t] = NoHandle, Has'[t] = Has[s], Has'[s] = NoHandle,
           \A u \in Places \ {s, t} : Has'[u] = Has[u], leaked' = leaked,
           sock'[Has[s]].kind # "free",
           \A g \in Handles \ {Has[s]} : sock'[g] = sock[g]
    PROVE  /\ PlaceInv'
           /\ \A q \in Procs \ {p} : call[q].pc \in {"connect", "listen"} => sock'[local[q]].kind = "new"
<1>1. Has[s] \in Handles /\ ~IsFree(Has[s])
  BY HeldIsOpen
<1>2. \A g \in Handles : FreeAs(g)
  BY <1>1 DEF FreeAs, IsFree
<1>3. MoveTo(s, t)
  BY DEF MoveTo
<1>4. PlaceInv'
  BY <1>2, <1>3, PlaceTypes, PlaceMoves
<1>5. \A q \in Procs \ {p} : call[q].pc \in {"connect", "listen"} => sock'[local[q]].kind = "new"
  BY <1>1, NewStays
<1> QED
  BY <1>4, <1>5

LEMMA ConnectKeeps == ASSUME OwnInv, NEW c \in Clients, Connect(c) PROVE OwnInv'
<1> DEFINE s == <<"local", c>>
<1> DEFINE t == <<"connector", c>>
<1>1. /\ call[c].pc = "connect" /\ StartConnect(local[c])
      /\ connector' = [connector EXCEPT ![c] = local[c]] /\ local' = [local EXCEPT ![c] = NoHandle]
      /\ GoTo(c, "idle") /\ UNCHANGED <<listener, stream, written, got, leaked>>
  BY DEF Connect, In, Return
<1>2. /\ ThreadShape /\ c \in Procs /\ c # Server /\ SockShape /\ EndsInv
      /\ local[c] \in Handles /\ sock[local[c]].kind = "new" /\ connector[c] = NoHandle
      /\ ~HasStream(c)
  BY <1>1, PlaceTypes DEF OwnInv, ClientInv, ClientAt, ProcInv, ProcAt
<1>3. /\ sock'[local[c]].kind = "connecting" /\ SockShape' /\ EndsInv'
      /\ \A g \in Handles \ {local[c]} : sock'[g] = sock[g]
  BY <1>1, <1>2, RenameEffect DEF StartConnect, Kinds
<1>4. call' \in [Procs -> Calls] /\ call'[c].pc = "idle" /\ \A q \in Procs \ {c} : call'[q] = call[q]
  BY <1>1, <1>2, GoToEffect DEF ClientCalls
<1>5. /\ local' \in [Procs -> Handles \cup {NoHandle}] /\ local'[c] = NoHandle
      /\ \A q \in Procs \ {c} : local'[q] = local[q]
      /\ connector' \in [Clients -> Handles \cup {NoHandle}] /\ connector'[c] = local[c]
      /\ \A d \in Clients \ {c} : connector'[d] = connector[d]
  BY <1>1, <1>2 DEF ThreadShape
<1>6. ThreadShape'
  BY <1>1, <1>2, <1>4, <1>5 DEF ThreadShape
<1>7. /\ s \in Places /\ t \in Places /\ s # t /\ s[2] = c /\ Has[s] = local[c] /\ Has[s] # NoHandle
      /\ Has[t] = NoHandle /\ Has'[t] = Has[s] /\ Has'[s] = NoHandle
  BY <1>2, <1>5, PlaceCases, HasAt, HasAtNext, HandleRange DEF HasFacts
<1>8. \A u \in Places \ {s, t} : Has'[u] = Has[u]
  BY <1>1, <1>5, HasSame
<1> HIDE DEF s, t
<1>9. /\ PlaceInv'
      /\ \A q \in Procs \ {c} : call[q].pc \in {"connect", "listen"} => sock'[local[q]].kind = "new"
  BY <1>1, <1>2, <1>3, <1>7, <1>8, MovePlace
<1>10. OthersStay(c)
  BY <1>1, <1>4, <1>5, <1>9 DEF OthersStay
<1>11. ProcAt(c)'
  BY <1>4, <1>5 DEF ProcAt, StreamCalls
<1>12. ClientAt(c)'
  BY <1>1, <1>2, <1>4, <1>5 DEF ClientAt, ClientCalls, HasStream
<1> QED
  BY <1>2, <1>3, <1>6, <1>9, <1>10, <1>11, <1>12, OthersKeep DEF OwnInv

LEMMA BindAndListenKeeps == ASSUME OwnInv, BindAndListen PROVE OwnInv'
<1> DEFINE s == <<"local", Server>>
<1> DEFINE t == <<"listener", Server>>
<1>1. /\ call[Server].pc = "listen" /\ Listen(local[Server])
      /\ listener' = [handle |-> local[Server], nextHandle |-> NoHandle]
      /\ local' = [local EXCEPT ![Server] = NoHandle]
      /\ GoTo(Server, "idle") /\ UNCHANGED <<connector, stream, written, got, leaked>>
  BY DEF BindAndListen, In, Return
<1>2. /\ ThreadShape /\ Server \in Procs /\ Server \notin Clients /\ SockShape /\ EndsInv
      /\ local[Server] \in Handles /\ sock[local[Server]].kind = "new"
      /\ listener.handle = NoHandle /\ listener.nextHandle = NoHandle
  BY <1>1, PlaceTypes, TCPAssumption DEF OwnInv, ServerInv, ProcInv, ProcAt
<1>3. /\ sock'[local[Server]].kind = "listening" /\ SockShape' /\ EndsInv'
      /\ \A g \in Handles \ {local[Server]} : sock'[g] = sock[g]
  BY <1>1, <1>2, RenameEffect DEF Listen, Kinds
<1>4. /\ call' \in [Procs -> Calls] /\ call'[Server].pc = "idle"
      /\ \A q \in Procs \ {Server} : call'[q] = call[q]
  BY <1>1, <1>2, GoToEffect DEF ClientCalls
<1>5. /\ local' \in [Procs -> Handles \cup {NoHandle}] /\ local'[Server] = NoHandle
      /\ \A q \in Procs \ {Server} : local'[q] = local[q]
      /\ listener' \in [handle : Handles \cup {NoHandle}, nextHandle : Handles \cup {NoHandle}]
      /\ listener'.handle = local[Server] /\ listener'.nextHandle = NoHandle
  BY <1>1, <1>2 DEF ThreadShape
<1>6. ThreadShape'
  BY <1>1, <1>2, <1>4, <1>5 DEF ThreadShape
<1>7. /\ s \in Places /\ t \in Places /\ s # t /\ s[2] = Server
      /\ Has[s] = local[Server] /\ Has[s] # NoHandle
      /\ Has[t] = NoHandle /\ Has'[t] = Has[s] /\ Has'[s] = NoHandle
  BY <1>2, <1>5, PlaceCases, HasAt, HasAtNext, HandleRange DEF HasFacts
<1>8. \A u \in Places \ {s, t} : Has'[u] = Has[u]
  BY <1>1, <1>2, <1>5, HasSame
<1> HIDE DEF s, t
<1>9. /\ PlaceInv'
      /\ \A q \in Procs \ {Server} : call[q].pc \in {"connect", "listen"} => sock'[local[q]].kind = "new"
  BY <1>1, <1>2, <1>3, <1>7, <1>8, MovePlace
<1>10. OthersStay(Server)
  BY <1>1, <1>4, <1>5, <1>9 DEF OthersStay
<1>11. ProcAt(Server)'
  BY <1>4, <1>5 DEF ProcAt, StreamCalls
<1>12. ServerInv'
  BY <1>4, <1>5 DEF ServerInv, ServerCalls
<1> QED
  BY <1>2, <1>3, <1>6, <1>9, <1>10, <1>11, <1>12, OthersKeep DEF OwnInv

LEMMA ConnectorGetKeeps == ASSUME OwnInv, NEW c \in Clients, ConnectorGet(c) PROVE OwnInv'
<1> DEFINE s == <<"connector", c>>
<1> DEFINE t == <<"local", c>>
<1>1. /\ call[c].pc = "wait" /\ connector' = [connector EXCEPT ![c] = NoHandle]
      /\ local' = [local EXCEPT ![c] = connector[c]] /\ GoTo(c, "geterror")
      /\ UNCHANGED <<sock, queue, listener, stream, written, got, leaked>>
  BY DEF ConnectorGet, In, sockets
<1>2. /\ ThreadShape /\ c \in Procs /\ c # Server /\ SockShape /\ EndsInv
      /\ connector[c] \in Handles /\ connector[c] # NoHandle /\ local[c] = NoHandle /\ ~HasStream(c)
  BY <1>1, PlaceTypes DEF OwnInv, ClientInv, ClientAt, ProcInv, ProcAt
<1>3. SockShape' /\ EndsInv'
  BY <1>1, <1>2 DEF SockShape, EndsInv
<1>4. call' \in [Procs -> Calls] /\ call'[c].pc = "geterror" /\ \A q \in Procs \ {c} : call'[q] = call[q]
  BY <1>1, <1>2, GoToEffect DEF ClientCalls
<1>5. /\ local' \in [Procs -> Handles \cup {NoHandle}] /\ local'[c] = connector[c]
      /\ \A q \in Procs \ {c} : local'[q] = local[q]
      /\ connector' \in [Clients -> Handles \cup {NoHandle}] /\ connector'[c] = NoHandle
      /\ \A d \in Clients \ {c} : connector'[d] = connector[d]
  BY <1>1, <1>2 DEF ThreadShape
<1>6. ThreadShape'
  BY <1>1, <1>2, <1>4, <1>5 DEF ThreadShape
<1>7. /\ s \in Places /\ t \in Places /\ s # t /\ s[2] = c /\ Has[s] = connector[c] /\ Has[s] # NoHandle
      /\ Has[t] = NoHandle /\ Has'[t] = Has[s] /\ Has'[s] = NoHandle
  BY <1>2, <1>5, PlaceCases, HasAt, HasAtNext DEF HasFacts
<1>8. \A u \in Places \ {s, t} : Has'[u] = Has[u]
  BY <1>1, <1>5, HasSame
<1> HIDE DEF s, t
<1>9. sock'[Has[s]].kind # "free" /\ \A g \in Handles : sock'[g] = sock[g]
  BY <1>1, <1>7, HeldIsOpen DEF IsFree
<1>10. /\ PlaceInv'
       /\ \A q \in Procs \ {c} : call[q].pc \in {"connect", "listen"} => sock'[local[q]].kind = "new"
  BY <1>1, <1>2, <1>7, <1>8, <1>9, MovePlace
<1>11. OthersStay(c)
  BY <1>1, <1>4, <1>5, <1>10 DEF OthersStay
<1>12. ProcAt(c)'
  BY <1>2, <1>4, <1>5 DEF ProcAt, StreamCalls
<1>13. ClientAt(c)'
  BY <1>1, <1>2, <1>4, <1>5 DEF ClientAt, ClientCalls, HasStream
<1> QED
  BY <1>2, <1>3, <1>6, <1>10, <1>11, <1>12, <1>13, OthersKeep DEF OwnInv

\* A new stream.
LEMMA NewStreamEffect ==
    ASSUME ThreadShape, NEW p \in Procs, NEW h \in Handles \cup {NoHandle}, NewStream(p, h)
    PROVE  /\ stream' \in [Procs -> [handle : Handles \cup {NoHandle}, isValid : BOOLEAN]]
           /\ stream'[p].handle = h /\ \A q \in Procs \ {p} : stream'[q] = stream[q]
           /\ UNCHANGED <<written, got>>
  BY DEF ThreadShape, NewStream

LEMMA ConnectorGetsNoErrorKeeps ==
    ASSUME OwnInv, NEW c \in Clients, ConnectorGetsNoError(c) PROVE OwnInv'
<1> DEFINE s == <<"local", c>>
<1> DEFINE t == <<"stream", c>>
<1>1. /\ call[c].pc = "geterror" /\ NewStream(c, local[c])
      /\ local' = [local EXCEPT ![c] = NoHandle] /\ GoTo(c, "idle")
      /\ UNCHANGED <<sock, queue, connector, listener, leaked>>
  BY DEF ConnectorGetsNoError, In, Return, sockets
<1>2. /\ ThreadShape /\ c \in Procs /\ c # Server /\ SockShape /\ EndsInv
      /\ local[c] \in Handles /\ local[c] # NoHandle
      /\ stream[c].handle = NoHandle /\ connector[c] = NoHandle
  BY <1>1, PlaceTypes DEF OwnInv, ClientInv, ClientAt, ProcInv, ProcAt, HasStream
<1>3. SockShape' /\ EndsInv'
  BY <1>1, <1>2 DEF SockShape, EndsInv
<1>4. call' \in [Procs -> Calls] /\ call'[c].pc = "idle" /\ \A q \in Procs \ {c} : call'[q] = call[q]
  BY <1>1, <1>2, GoToEffect DEF ClientCalls
<1>5. /\ local' \in [Procs -> Handles \cup {NoHandle}] /\ local'[c] = NoHandle
      /\ \A q \in Procs \ {c} : local'[q] = local[q]
  BY <1>1, <1>2 DEF ThreadShape
<1>6. /\ stream' \in [Procs -> [handle : Handles \cup {NoHandle}, isValid : BOOLEAN]]
      /\ stream'[c].handle = local[c] /\ \A q \in Procs \ {c} : stream'[q] = stream[q]
      /\ UNCHANGED <<written, got>>
  BY <1>1, <1>2, NewStreamEffect
<1>7. ThreadShape'
  BY <1>1, <1>2, <1>4, <1>5, <1>6 DEF ThreadShape
<1>8. /\ s \in Places /\ t \in Places /\ s # t /\ s[2] = c /\ Has[s] = local[c] /\ Has[s] # NoHandle
      /\ Has[t] = NoHandle /\ Has'[t] = Has[s] /\ Has'[s] = NoHandle
  BY <1>2, <1>5, <1>6, PlaceCases, HasAt, HasAtNext DEF HasFacts
<1>9. \A u \in Places \ {s, t} : Has'[u] = Has[u]
  BY <1>1, <1>5, <1>6, HasSame
<1> HIDE DEF s, t
<1>10. sock'[Has[s]].kind # "free" /\ \A g \in Handles : sock'[g] = sock[g]
  BY <1>1, <1>8, HeldIsOpen DEF IsFree
<1>11. /\ PlaceInv'
       /\ \A q \in Procs \ {c} : call[q].pc \in {"connect", "listen"} => sock'[local[q]].kind = "new"
  BY <1>1, <1>2, <1>8, <1>9, <1>10, MovePlace
<1>12. OthersStay(c)
  BY <1>1, <1>4, <1>5, <1>6, <1>11 DEF OthersStay
<1>13. ProcAt(c)'
  BY <1>2, <1>4, <1>5 DEF ProcAt, StreamCalls
<1>14. ClientAt(c)'
  BY <1>1, <1>2, <1>4, <1>5 DEF ClientAt, ClientCalls
<1> QED
  BY <1>2, <1>3, <1>7, <1>11, <1>12, <1>13, <1>14, OthersKeep DEF OwnInv

LEMMA ListenerGetKeeps == ASSUME OwnInv, ListenerGet PROVE OwnInv'
<1> DEFINE s == <<"next", Server>>
<1> DEFINE t == <<"stream", Server>>
<1>1. /\ call[Server].pc \in {"get", "idle"} /\ listener.nextHandle # NoHandle /\ ~HasStream(Server)
      /\ NewStream(Server, listener.nextHandle)
      /\ listener' = [listener EXCEPT !.nextHandle = NoHandle] /\ GoTo(Server, "idle")
      /\ UNCHANGED <<sock, queue, connector, local, leaked>>
  BY DEF ListenerGet, In, Return, sockets
<1>2. /\ ThreadShape /\ Server \in Procs /\ Server \notin Clients /\ SockShape /\ EndsInv
      /\ listener.nextHandle \in Handles /\ listener.handle # NoHandle
      /\ stream[Server].handle = NoHandle /\ local[Server] = NoHandle
  BY <1>1, PlaceTypes, TCPAssumption DEF OwnInv, ServerInv, ProcInv, ProcAt, HasStream
<1>3. SockShape' /\ EndsInv'
  BY <1>1, <1>2 DEF SockShape, EndsInv
<1>4. /\ call' \in [Procs -> Calls] /\ call'[Server].pc = "idle"
      /\ \A q \in Procs \ {Server} : call'[q] = call[q]
  BY <1>1, <1>2, GoToEffect DEF ClientCalls
<1>5. /\ listener' \in [handle : Handles \cup {NoHandle}, nextHandle : Handles \cup {NoHandle}]
      /\ listener'.handle = listener.handle /\ listener'.nextHandle = NoHandle
  BY <1>1, <1>2 DEF ThreadShape
<1>6. /\ stream' \in [Procs -> [handle : Handles \cup {NoHandle}, isValid : BOOLEAN]]
      /\ stream'[Server].handle = listener.nextHandle /\ \A q \in Procs \ {Server} : stream'[q] = stream[q]
      /\ UNCHANGED <<written, got>>
  BY <1>1, <1>2, NewStreamEffect
<1>7. ThreadShape'
  BY <1>1, <1>2, <1>4, <1>5, <1>6 DEF ThreadShape
<1>8. /\ s \in Places /\ t \in Places /\ s # t /\ s[2] = Server
      /\ Has[s] = listener.nextHandle /\ Has[s] # NoHandle
      /\ Has[t] = NoHandle /\ Has'[t] = Has[s] /\ Has'[s] = NoHandle
  BY <1>1, <1>2, <1>5, <1>6, PlaceCases, HasAt, HasAtNext DEF HasFacts
<1>9. \A u \in Places \ {s, t} : Has'[u] = Has[u]
  BY <1>1, <1>5, <1>6, HasSame
<1> HIDE DEF s, t
<1>10. sock'[Has[s]].kind # "free" /\ \A g \in Handles : sock'[g] = sock[g]
  BY <1>1, <1>8, HeldIsOpen DEF IsFree
<1>11. /\ PlaceInv'
       /\ \A q \in Procs \ {Server} : call[q].pc \in {"connect", "listen"} => sock'[local[q]].kind = "new"
  BY <1>1, <1>2, <1>8, <1>9, <1>10, MovePlace
<1>12. OthersStay(Server)
  BY <1>1, <1>4, <1>6, <1>11 DEF OthersStay
<1>13. ProcAt(Server)'
  BY <1>1, <1>2, <1>4 DEF ProcAt, StreamCalls
<1>14. ServerInv'
  BY <1>2, <1>4, <1>5 DEF ServerInv, ServerCalls
<1> QED
  BY <1>2, <1>3, <1>7, <1>11, <1>12, <1>13, <1>14, OthersKeep DEF OwnInv

LEMMA CheckAcceptsKeeps == ASSUME OwnInv, CheckAccepts PROVE OwnInv'
<1> DEFINE s == <<"next", Server>>
<1>1. PICK h \in Handles : Accept(h) /\ listener' = [listener EXCEPT !.nextHandle = h]
  BY DEF CheckAccepts
<1>2. /\ call[Server].pc \in {"check", "checkToGet"} /\ listener.nextHandle = NoHandle
      /\ UNCHANGED <<connector, stream, local, written, got, leaked>>
      /\ GoTo(Server, "idle") \/ (call[Server].pc = "checkToGet" /\ GoTo(Server, "get"))
  BY DEF CheckAccepts, Checking, CheckTrue, In, Return
<1>3. /\ ThreadShape /\ Server \in Procs /\ Server \notin Clients /\ local[Server] = NoHandle
      /\ listener.handle # NoHandle /\ (call[Server].pc = "checkToGet" => ~HasStream(Server))
  BY <1>2, PlaceTypes, TCPAssumption DEF OwnInv, ServerInv, ProcInv, ProcAt
<1>4. /\ IsFree(h) /\ sock'[h].kind = "connected" /\ SockShape' /\ EndsInv'
      /\ \A g \in Handles \ {h} : sock'[g].kind = sock[g].kind
  BY <1>1, AcceptEffect DEF OwnInv
<1>5. /\ call' \in [Procs -> Calls] /\ \A q \in Procs \ {Server} : call'[q] = call[q]
      /\ call'[Server].pc \in {"idle", "get"} /\ (call'[Server].pc = "get" => ~HasStream(Server))
  BY <1>2, <1>3, GoToEffect DEF ClientCalls, ServerCalls
<1>6. /\ listener' \in [handle : Handles \cup {NoHandle}, nextHandle : Handles \cup {NoHandle}]
      /\ listener'.handle = listener.handle /\ listener'.nextHandle = h
  BY <1>1, <1>3 DEF ThreadShape
<1>7. ThreadShape'
  BY <1>2, <1>3, <1>5, <1>6 DEF ThreadShape
<1>8. PlaceInv'
  <2>1. s \in Places /\ Has[s] = NoHandle /\ Has'[s] = h
    BY <1>2, <1>6, PlaceCases, HasAt, HasAtNext DEF HasFacts
  <2>2. \A u \in Places \ {s} : Has'[u] = Has[u]
    BY <1>2, <1>6, HasSame
  <2>3. Change(s, h)
    BY <2>1, <2>2 DEF Change
  <2>4. \A g \in Handles \ {h} : FreeAs(g)
    BY <1>4 DEF FreeAs
  <2> QED
    BY <1>2, <1>4, <2>1, <2>3, <2>4, PlaceTypes, PlaceTakes
<1>9. OthersStay(Server)
  <2>1. \A q \in Procs \ {Server} : call[q].pc \in {"connect", "listen"} => sock'[local[q]].kind = "new"
    BY <1>3, <1>4, NewStays
  <2> QED
    BY <1>2, <1>5, <2>1 DEF OthersStay
<1>10. ProcAt(Server)'
  BY <1>2, <1>3, <1>5 DEF ProcAt, StreamCalls
<1>11. ServerInv'
  BY <1>2, <1>3, <1>5, <1>6 DEF ServerInv, ServerCalls, HasStream
<1> QED
  BY <1>3, <1>4, <1>7, <1>8, <1>9, <1>10, <1>11, OthersKeep DEF OwnInv

LEMMA DestroyListenerKeeps == ASSUME OwnInv, DestroyListener PROVE OwnInv'
<1> DEFINE s == <<"listener", Server>>
<1> DEFINE t == <<"next", Server>>
<1>1. /\ call[Server].pc = "idle" /\ listener.handle # NoHandle /\ Close(listener.handle)
      /\ leaked' = leaked \cup ({listener.nextHandle} \ {NoHandle})
      /\ listener' = [handle |-> NoHandle, nextHandle |-> NoHandle]
      /\ UNCHANGED <<connector, stream, local, call, written, got>>
  BY DEF DestroyListener, In
<1>2. /\ ThreadShape /\ Server \in Procs /\ Server \notin Clients
      /\ listener.handle \in Handles /\ listener.nextHandle \in Handles \cup {NoHandle}
  BY <1>1, PlaceTypes, TCPAssumption DEF OwnInv
<1>3. /\ listener' \in [handle : Handles \cup {NoHandle}, nextHandle : Handles \cup {NoHandle}]
      /\ listener'.handle = NoHandle /\ listener'.nextHandle = NoHandle
  BY <1>1
<1>4. ThreadShape'
  BY <1>1, <1>2, <1>3 DEF ThreadShape
<1>5. /\ sock'[listener.handle] = Socket("free") /\ \A g \in Handles \ {listener.handle} : Kept(g)
      /\ SockShape' /\ EndsInv'
  BY <1>1, <1>2, CloseEffect DEF OwnInv
<1>6. /\ sock'[listener.handle].kind = "free"
      /\ \A g \in Handles \ {listener.handle} : FreeAs(g)
      /\ \A g \in Handles \ {listener.handle} : sock[g].kind = "new" => sock'[g].kind = "new"
  BY <1>2, <1>5, NewSocket, CloseKeeps DEF Kinds
<1>7. /\ s \in Places /\ t \in Places /\ s # t /\ s[2] = Server /\ Has[s] = listener.handle
      /\ Has[t] = listener.nextHandle /\ Has'[s] = NoHandle /\ Has'[t] = NoHandle
  BY <1>3, PlaceCases, HasAt, HasAtNext DEF HasFacts
<1>8. \A u \in Places \ {s, t} : Has'[u] = Has[u]
  BY <1>1, <1>3, HasSame
<1> HIDE DEF s, t
<1>9. PlaceInv'
  BY <1>1, <1>2, <1>6, <1>7, <1>8, PlaceTypes, PlaceLeaks
<1>10. OthersStay(Server)
  <2>1. \A q \in Procs \ {Server} : call[q].pc \in {"connect", "listen"} => sock'[local[q]].kind = "new"
    BY <1>2, <1>6, <1>7, NewStays
  <2> QED
    BY <1>1, <2>1 DEF OthersStay
<1>11. ProcAt(Server)'
  BY <1>1, <1>2 DEF OwnInv, ProcInv, ProcAt, StreamCalls, HasStream
<1>12. ServerInv'
  BY <1>1, <1>3 DEF ServerInv, ServerCalls
<1> QED
  BY <1>2, <1>4, <1>5, <1>9, <1>10, <1>11, <1>12, OthersKeep DEF OwnInv

-----------------------------------------------------------------------------
\* A call that goes on after n bytes has not reached its end.
LEMMA WithinGoTo ==
    ASSUME OwnInv, WithinInv, NEW p \in Procs, NEW pc \in ClientCalls \cup ServerCalls, GoTo(p, pc)
    PROVE  WithinInv'
<1>1. /\ call'[p].size = 0 /\ call'[p].position = 0 /\ \A q \in Procs \ {p} : call'[q] = call[q]
  BY GoToEffect DEF OwnInv
<1> QED
  BY <1>1 DEF WithinInv, Within

LEMMA WithinKeeps == ASSUME OwnInv, WithinInv, Next PROVE WithinInv'
<1>0. ThreadShape /\ Server \in Procs /\ \A c \in Clients : c \in Procs
  BY PlaceTypes DEF OwnInv
<1>1. CASE call' = call
  BY <1>1 DEF WithinInv, Within
<1>2. CASE \E p \in Procs, pc \in ClientCalls \cup ServerCalls : GoTo(p, pc)
  BY <1>2, WithinGoTo
<1>3. CASE \E p \in Procs, pc \in {"read", "write"} : Start(p, pc)
  <2>1. PICK p \in Procs, pc \in {"read", "write"}, n \in Sizes :
           call' = [call EXCEPT ![p] = [pc |-> pc, size |-> n, position |-> 0]]
    BY <1>3 DEF Start
  <2>2. n \in Nat
    BY TCPAssumption
  <2>3. /\ call'[p].size = n /\ call'[p].position = 0
        /\ \A q \in Procs \ {p} : call'[q] = call[q]
    BY <1>0, <2>1 DEF ThreadShape
  <2> QED
    BY <2>2, <2>3 DEF WithinInv, Within
<1>4. CASE \E p \in Procs, pc \in StreamCalls : call' = [call EXCEPT ![p].pc = pc]
  <2>1. PICK p \in Procs, pc \in StreamCalls : call' = [call EXCEPT ![p].pc = pc]
    BY <1>4
  <2>2. pc \in ClientCalls \cup ServerCalls
    BY DEF StreamCalls, ClientCalls
  <2>3. /\ call'[p].size = call[p].size /\ call'[p].position = call[p].position
        /\ \A q \in Procs \ {p} : call'[q] = call[q]
    BY <1>0, <2>1, <2>2, FromTo
  <2> QED
    BY <2>3 DEF WithinInv, Within
<1>5. CASE \E p \in Procs : /\ call[p].pc \in {"read", "write"}
                            /\ \E n \in Nat : n <= Wanted(p) /\ Advance(p, n)
  <2>1. PICK p \in Procs, n \in Nat :
           call[p].pc \in {"read", "write"} /\ n <= Wanted(p) /\ Advance(p, n)
    BY <1>5
  <2>2. /\ \A q \in Procs \ {p} : call'[q] = call[q]
        /\ \/ call'[p].position = 0 /\ call'[p].size = 0
           \/ call'[p].size = call[p].size /\ call'[p].position = call[p].position + n
    BY <1>0, <2>1, AdvanceEffect
  <2>3. call'[p].position <= call'[p].size
    <3>1. call[p].position \in Nat /\ call[p].size \in Nat
      BY <1>0, CallFields
    <3>2. n <= call[p].size - call[p].position
      BY <2>1 DEF Wanted
    <3> QED
      BY <2>2, <3>1, <3>2
  <2> QED
    BY <2>2, <2>3 DEF WithinInv, Within
<1> DEFINE Moves ==
      \/ call' = call \/ \E p \in Procs, pc \in ClientCalls \cup ServerCalls : GoTo(p, pc)
<1>6. ASSUME NEW p \in Procs, CreateFails(p) \/ Create(p) \/ DestroyStream(p) \/ WriteIsLost(p)
                              \/ IOFails(p) \/ WaitThrows(p)
      PROVE  Moves
  <2>1. {"idle", "listen", "connect"} \subseteq ClientCalls \cup ServerCalls
    BY DEF ClientCalls, ServerCalls
  <2> QED
    BY <1>6, <2>1 DEF CreateFails, Create, DestroyStream, WriteIsLost, IOFails, WaitThrows, Return
<1>7. ASSUME NEW c \in Clients, DestroyConnector(c) \/ ConnectorWait(c) \/ ConnectorWaitThrows(c) \/ ClientStep(c)
      PROVE  Moves
  <2>1. {"idle", "wait", "geterror"} \subseteq ClientCalls \cup ServerCalls
    BY DEF ClientCalls
  <2> QED
    BY <1>0, <1>7, <2>1 DEF DestroyConnector, ConnectorWait, ConnectorWaitThrows, ClientStep, Connect,
                            ConnectorGet, ConnectorGetsNoError, Return
<1>8. ASSUME ListenerCheck \/ DestroyListener \/ ServerStep \/ Network
      PROVE  Moves
  <2>1. {"idle", "check", "checkToGet", "listenerWait", "get"} \subseteq ClientCalls \cup ServerCalls
    BY DEF ClientCalls, ServerCalls
  <2> QED
    BY <1>0, <1>8, <2>1 DEF ListenerCheck, DestroyListener, ServerStep, Network, BindAndListen,
         CheckAccepts, CheckHasHandle, CheckWouldBlock, CheckThrows, ListenerWakes, ListenerGet, Return, CheckTrue
<1>9. ASSUME NEW p \in Procs, ReadNothing(p) \/ WriteNothing(p) \/ StreamWakes(p)
      PROVE  \E pc \in StreamCalls : call' = [call EXCEPT ![p].pc = pc]
  BY <1>9 DEF ReadNothing, WriteNothing, StreamWakes, StreamCalls
<1>10. ASSUME NEW p \in Procs, ReadSome(p)
       PROVE  call[p].pc \in {"read", "write"} /\ \E n \in Nat : n <= Wanted(p) /\ Advance(p, n)
  <2>1. call[p].pc = "read" /\ Handle(p) \in Handles /\ SockShape
    BY <1>10, InStream DEF ReadSome, In, StreamCalls, OwnInv
  <2>2. Len(sock[Handle(p)].in) \in Nat
    BY <2>1, Fields, LenProperties
  <2> QED
    BY <1>0, <1>10, <2>1, <2>2, WantedType DEF ReadSome, WithinInv, Within
<1>11. ASSUME NEW p \in Procs, WriteSome(p)
       PROVE  call[p].pc \in {"read", "write"} /\ \E n \in Nat : n <= Wanted(p) /\ Advance(p, n)
  <2>1. /\ call[p].pc = "write" /\ Handle(p) \in Handles /\ SockShape /\ EndsInv
        /\ Connected(Handle(p)) /\ Space(Handle(p)) > 0
    BY <1>11, InStream DEF WriteSome, In, StreamCalls, OwnInv
  <2>2. Space(Handle(p)) \in Nat
    BY <2>1, SpaceType
  <2> QED
    BY <1>0, <1>11, <2>1, <2>2, WantedType DEF WriteSome, WithinInv, Within
<1> QED
  <2>1. Moves => WithinInv'
    BY <1>1, <1>2
  <2> HIDE DEF Moves
  <2> QED
    BY <1>3, <1>4, <1>5, <1>6, <1>7, <1>8, <1>9, <1>10, <1>11, <2>1 DEF Next, Begin, StreamStep

\* Nobody loses a handle, and nobody has one twice.
LEMMA OwnKeeps == ASSUME OwnInv, WithinInv, Next PROVE OwnInv'
<1>1. ASSUME NEW p \in Procs, Begin(p) \/ CreateFails(p) PROVE OwnInv'
  BY <1>1, CreateKeeps, CreateFailsKeeps, DestroyStreamKeeps, CalmSteps DEF Begin
<1>2. ASSUME NEW p \in Procs, StreamStep(p) \/ WaitThrows(p) PROVE OwnInv'
  BY <1>2, ReadSomeKeeps, WriteSomeKeeps, WriteIsLostKeeps, CalmSteps DEF StreamStep, WithinInv
<1>3. ASSUME NEW c \in Clients,
             DestroyConnector(c) \/ ConnectorWait(c) \/ ConnectorWaitThrows(c) \/ ClientStep(c)
      PROVE  OwnInv'
  <2>1. c \in Procs
    BY DEF Procs
  <2> QED
    BY <1>3, <2>1, ConnectorClosesKeeps, CalmSteps, ConnectKeeps, ConnectorGetKeeps,
       ConnectorGetsNoErrorKeeps DEF ClientStep
<1>4. ASSUME ListenerCheck \/ DestroyListener \/ ServerStep PROVE OwnInv'
  <2>1. Server \in Procs
    BY DEF Procs
  <2> QED
    BY <1>4, <2>1, CalmSteps, DestroyListenerKeeps, BindAndListenKeeps, CheckAcceptsKeeps,
       ListenerGetKeeps DEF ServerStep
<1> QED
  BY <1>1, <1>2, <1>3, <1>4, NetworkKeeps DEF Next

LEMMA OwnStutters == ASSUME OwnInv, WithinInv, UNCHANGED vars PROVE OwnInv' /\ WithinInv'
<1>1. UNCHANGED <<sock, queue, connector, listener, stream, local, call, written, got, leaked>>
  BY DEF vars
<1>2. SockShape' /\ EndsInv' /\ ThreadShape' /\ ClientInv' /\ ServerInv' /\ ProcInv' /\ WithinInv'
  BY <1>1 DEF OwnInv, SockShape, EndsInv, ThreadShape, ClientInv, ClientAt, ServerInv, ProcInv, ProcAt,
              HasStream, WithinInv, Within
<1>3. Has' = Has
  BY <1>1 DEF Has, Places
<1>4. PlaceInv'
  BY <1>1, <1>3 DEF OwnInv, PlaceInv, Places, IsFree
<1> QED
  BY <1>2, <1>4 DEF OwnInv

LEMMA OwnStarts == ASSUME Init PROVE OwnInv /\ WithinInv
<1>1. \A h \in Handles : /\ sock[h] \in SocketStates /\ sock[h].kind = "free"
                         /\ sock[h].peer = Gone /\ sock[h].in = <<>>
  BY NewSocket DEF Init, SocketsInit, Kinds
<1>2. queue = <<>> /\ queue \in Seq(Entries) /\ DOMAIN queue = {}
  BY EmptySeq DEF Init, SocketsInit
<1>3. SockShape /\ EndsInv
  <2>1. SockShape
    BY <1>1, <1>2 DEF Init, SocketsInit, SockShape
  <2>2. EndsInv
    BY <1>1, <1>2, HandleRange DEF EndsInv
  <2> QED
    BY <2>1, <2>2
<1>4. /\ \A p \in Procs : /\ call[p] = Idle /\ local[p] = NoHandle /\ stream[p].handle = NoHandle
                          /\ call[p].pc = "idle" /\ call[p].size = 0 /\ call[p].position = 0
      /\ \A c \in Clients : connector[c] = NoHandle /\ c \in Procs
      /\ listener.handle = NoHandle /\ listener.nextHandle = NoHandle /\ leaked = {} /\ Server \in Procs
  BY DEF Init, NoStream, Idle, Procs
<1>5. ThreadShape
  <2>1. Idle \in Calls
    BY DEF Idle, Calls, ClientCalls
  <2> QED
    BY <2>1, EmptySeq DEF Init, NoStream, ThreadShape
<1>6. ClientInv /\ ServerInv /\ ProcInv /\ WithinInv
  BY <1>4 DEF ClientInv, ClientAt, ServerInv, ProcInv, ProcAt, HasStream, WithinInv, Within,
              ClientCalls, ServerCalls, StreamCalls
<1>7. PlaceInv
  <2>1. ASSUME NEW s \in Places PROVE Has[s] = NoHandle
    <3>1. \/ \E c \in Clients : s = <<"connector", c>>
          \/ \E p \in Procs : s = <<"local", p>> \/ s = <<"stream", p>>
          \/ s = <<"listener", Server>> \/ s = <<"next", Server>>
      BY PlaceCases
    <3>2. /\ \A c \in Clients : Has[<<"connector", c>>] = NoHandle
          /\ \A p \in Procs : Has[<<"local", p>>] = NoHandle /\ Has[<<"stream", p>>] = NoHandle
          /\ Has[<<"listener", Server>>] = NoHandle /\ Has[<<"next", Server>>] = NoHandle
      BY <1>4, HasAt DEF HasFacts
    <3> QED
      BY <3>1, <3>2
  <2> QED
    BY <1>1, <1>4, <2>1 DEF PlaceInv, IsFree
<1> QED
  BY <1>3, <1>5, <1>6, <1>7 DEF OwnInv

LEMMA OwnAlways == Spec => [](OwnInv /\ WithinInv)
<1>1. Init => OwnInv /\ WithinInv
  BY OwnStarts
<1>2. OwnInv /\ WithinInv /\ [Next]_vars => (OwnInv /\ WithinInv)'
  BY OwnKeeps, WithinKeeps, OwnStutters
<1> QED
  BY <1>1, <1>2, PTL DEF Spec

\* The owners are the places with what they have.
LEMMA OwnerPlaces ==
    Owners = {<<s[1], s[2], Has[s]>> : s \in Places}
<1>1. HasFacts
  BY HasAt
<1>2. ASSUME NEW o \in Owners PROVE \E s \in Places : o = <<s[1], s[2], Has[s]>>
  <2>1. \/ \E c \in Clients : o = <<"connector", c, connector[c]>>
        \/ \E p \in Procs : o = <<"local", p, local[p]>> \/ o = <<"stream", p, stream[p].handle>>
        \/ o = <<"listener", Server, listener.handle>> \/ o = <<"next", Server, listener.nextHandle>>
    BY <1>2 DEF Owners, Handle
  <2>2. CASE \E c \in Clients : o = <<"connector", c, connector[c]>>
    <3>1. PICK c \in Clients : o = <<"connector", c, connector[c]>>
      BY <2>2
    <3>2. <<"connector", c>> \in Places /\ Has[<<"connector", c>>] = connector[c]
      BY <1>1, PlaceCases DEF HasFacts
    <3> QED
      BY <3>1, <3>2
  <2>3. CASE \E p \in Procs : o = <<"local", p, local[p]>>
    <3>1. PICK p \in Procs : o = <<"local", p, local[p]>>
      BY <2>3
    <3>2. <<"local", p>> \in Places /\ Has[<<"local", p>>] = local[p]
      BY <1>1, PlaceCases DEF HasFacts
    <3> QED
      BY <3>1, <3>2
  <2>4. CASE \E p \in Procs : o = <<"stream", p, stream[p].handle>>
    <3>1. PICK p \in Procs : o = <<"stream", p, stream[p].handle>>
      BY <2>4
    <3>2. <<"stream", p>> \in Places /\ Has[<<"stream", p>>] = stream[p].handle
      BY <1>1, PlaceCases DEF HasFacts
    <3> QED
      BY <3>1, <3>2
  <2>5. CASE o = <<"listener", Server, listener.handle>>
    <3>1. <<"listener", Server>> \in Places /\ Has[<<"listener", Server>>] = listener.handle
      BY <1>1, PlaceCases DEF HasFacts
    <3> QED
      BY <2>5, <3>1
  <2>6. CASE o = <<"next", Server, listener.nextHandle>>
    <3>1. <<"next", Server>> \in Places /\ Has[<<"next", Server>>] = listener.nextHandle
      BY <1>1, PlaceCases DEF HasFacts
    <3> QED
      BY <2>6, <3>1
  <2> QED
    BY <2>1, <2>2, <2>3, <2>4, <2>5, <2>6
<1>3. ASSUME NEW s \in Places PROVE <<s[1], s[2], Has[s]>> \in Owners
  <2>1. CASE \E c \in Clients : s = <<"connector", c>>
    BY <1>1, <2>1 DEF HasFacts, Owners
  <2>2. CASE \E p \in Procs : s = <<"local", p>>
    <3>1. PICK p \in Procs : s = <<"local", p>>
      BY <2>2
    <3>2. s[1] = "local" /\ s[2] = p /\ Has[s] = local[p]
      BY <1>1, <3>1 DEF HasFacts
    <3> QED
      BY <3>2 DEF Owners
  <2>3. CASE \E p \in Procs : s = <<"stream", p>>
    <3>1. PICK p \in Procs : s = <<"stream", p>>
      BY <2>3
    <3>2. s[1] = "stream" /\ s[2] = p /\ Has[s] = Handle(p)
      BY <1>1, <3>1 DEF HasFacts, Handle
    <3> QED
      BY <3>2 DEF Owners
  <2>4. CASE s = <<"listener", Server>> \/ s = <<"next", Server>>
    BY <1>1, <2>4 DEF HasFacts, Owners
  <2> QED
    BY <2>1, <2>2, <2>3, <2>4, PlaceCases
<1> QED
  BY <1>2, <1>3

LEMMA OwnedOnce == ASSUME OwnInv PROVE HandlesOwnedOnce
<1> SUFFICES ASSUME NEW h \in Handles
             PROVE  LET owners == {o \in Owners : o[3] = h}
                    IN  IF h \in leaked THEN owners = {} /\ ~IsFree(h)
                        ELSE Cardinality(owners) = (IF IsFree(h) THEN 0 ELSE 1)
  BY DEF HandlesOwnedOnce
<1> DEFINE owners == {o \in Owners : o[3] = h}
<1>1. owners = {<<s[1], s[2], Has[s]>> : s \in {t \in Places : Has[t] = h}}
  BY OwnerPlaces
<1>2. h # NoHandle
  BY HandleRange
<1>3. CASE h \in leaked
  <2>1. {t \in Places : Has[t] = h} = {}
    BY <1>2, <1>3 DEF OwnInv, PlaceInv
  <2>2. owners = {} /\ ~IsFree(h)
    BY <1>1, <1>3, <2>1 DEF OwnInv, PlaceInv
  <2> QED
    BY <1>3, <2>2
<1>4. CASE IsFree(h)
  <2>1. {t \in Places : Has[t] = h} = {} /\ h \notin leaked
    BY <1>2, <1>4 DEF OwnInv, PlaceInv
  <2>2. owners = {}
    BY <1>1, <2>1
  <2>3. Cardinality(owners) = 0
    BY <2>2, FS_EmptySet
  <2> QED
    BY <1>4, <2>1, <2>3
<1>5. CASE h \notin leaked /\ ~IsFree(h)
  <2>1. PICK s \in Places : {t \in Places : Has[t] = h} = {s}
    BY <1>2, <1>5 DEF OwnInv, PlaceInv
  <2>2. owners = {<<s[1], s[2], Has[s]>>}
    BY <1>1, <2>1
  <2>3. Cardinality(owners) = 1
    BY <2>2, FS_Singleton
  <2> QED
    BY <1>5, <2>3
<1> QED
  BY <1>3, <1>4, <1>5

\* A handle that is open belongs to one object or one local variable, and what
\* they have is open: no handle is used after it was closed, or closed twice.
\* Only what a destroyed listener had accepted is left (listener.loci:57).
THEOREM OpenHandlesHaveOneOwner == Spec => []HandlesOwnedOnce
  BY OwnAlways, OwnedOnce, PTL

-----------------------------------------------------------------------------
\* Which thread has a handle as its stream: one at most, and so what has been
\* sent from and read at a handle is what that thread has written and read.
SentFacts ==
    /\ \A p \in Procs : HasStream(p) => /\ Sent(stream[p].handle) = Taken(p)
                                        /\ Read(stream[p].handle) = Len(got[p])
    /\ \A h \in Handles : (\A p \in Procs : stream[p].handle # h) => Sent(h) = 0 /\ Read(h) = 0
    /\ \A p, q \in Procs : stream[p].handle = stream[q].handle /\ HasStream(p) => p = q

LEMMA OneStream ==
    ASSUME OwnInv, NEW p \in Procs, NEW q \in Procs, stream[p].handle = stream[q].handle, HasStream(p)
    PROVE  p = q
<1>1. /\ <<"stream", p>> \in Places /\ Has[<<"stream", p>>] = stream[p].handle
      /\ <<"stream", q>> \in Places /\ Has[<<"stream", q>>] = stream[q].handle
  BY PlaceCases, HasAt DEF HasFacts
<1>2. <<"stream", p>> = <<"stream", q>>
  BY <1>1 DEF OwnInv, PlaceInv, HasStream
<1> QED
  BY <1>2

LEMMA SentAt == OwnInv => SentFacts
<1> SUFFICES ASSUME OwnInv PROVE SentFacts
  OBVIOUS
<1>1. ASSUME NEW p \in Procs, HasStream(p)
      PROVE  /\ Sent(stream[p].handle) = Taken(p)
             /\ Read(stream[p].handle) = Len(got[p])
  <2>1. IsStream(stream[p].handle)
    BY DEF IsStream
  <2>2. (CHOOSE q \in Procs : stream[q].handle = stream[p].handle) = p
    BY <1>1, OneStream
  <2> QED
    BY <2>1, <2>2 DEF Sent, Read
<1>2. ASSUME NEW h \in Handles, \A p \in Procs : stream[p].handle # h PROVE Sent(h) = 0 /\ Read(h) = 0
  BY <1>2 DEF IsStream, Sent, Read
<1> QED
  BY <1>1, <1>2, OneStream DEF SentFacts

LEMMA SentAtNext == OwnInv' => SentFacts'
  BY SentAt, PTL

\* A handle that is not the stream of p, before or after its step.
LEMMA SentStays ==
    ASSUME OwnInv, OwnInv', NEW p \in Procs,
           \A q \in Procs \ {p} : /\ stream'[q].handle = stream[q].handle
                                  /\ Taken(q)' = Taken(q) /\ got'[q] = got[q],
           NEW h \in Handles, h # stream[p].handle, h # stream'[p].handle
    PROVE  Sent(h)' = Sent(h) /\ Read(h)' = Read(h)
<1>1. SentFacts /\ SentFacts'
  BY SentAt, SentAtNext
<1>2. h # NoHandle
  BY HandleRange
<1>3. CASE \E q \in Procs : stream[q].handle = h
  <2>1. PICK q \in Procs \ {p} : stream[q].handle = h /\ stream'[q].handle = h
    BY <1>3
  <2>2. Sent(h) = Taken(q) /\ Read(h) = Len(got[q])
    BY <1>1, <1>2, <2>1 DEF SentFacts, HasStream
  <2>3. Sent(h)' = Taken(q)' /\ Read(h)' = Len(got'[q])
    BY <1>1, <1>2, <2>1 DEF SentFacts, HasStream
  <2> QED
    BY <2>1, <2>2, <2>3
<1>4. CASE \A q \in Procs : stream[q].handle # h
  <2>1. Sent(h) = 0 /\ Read(h) = 0
    BY <1>1, <1>4 DEF SentFacts
  <2>2. \A q \in Procs : stream'[q].handle # h
    BY <1>4
  <2>3. Sent(h)' = 0 /\ Read(h)' = 0
    BY <1>1, <2>2 DEF SentFacts
  <2> QED
    BY <2>1, <2>3
<1> QED
  BY <1>3, <1>4

-----------------------------------------------------------------------------
Joined(h) == sock[h].kind \in {"connected", "reset"}

\* Sockets are emptied and forgotten, or keep what they have; a connection is
\* reset or closed, and becomes nothing else.
SocksStay ==
    \A h \in Handles :
        \/ sock'[h].in = <<>> /\ sock'[h].peer = Gone
        \/ /\ sock'[h].in = sock[h].in
           /\ sock'[h].peer = sock[h].peer \/ sock'[h].peer = Gone
QueueStays ==
    /\ DOMAIN queue' \subseteq DOMAIN queue
    /\ \A k \in DOMAIN queue' : /\ queue'[k].early = queue[k].early
                                /\ queue'[k].from = queue[k].from \/ queue'[k].from = Gone
KindsStay ==
    \A h \in Handles :
        /\ Joined(h) => sock'[h].kind \in {"connected", "reset", "free"}
        /\ \/ sock'[h].kind \in {"connected", "reset"}
           \/ sock'[h].in = <<>>
           \/ sock'[h].in = sock[h].in /\ ~Joined(h)

\* Streams are made of connections.
LEMMA KindKeeps ==
    ASSUME OwnInv, OwnInv', KindInv, KindsStay,
           \A p \in Procs : \/ stream'[p].handle \in {stream[p].handle, NoHandle}
                            \/ stream'[p].handle \in Handles /\ Joined(stream'[p].handle),
           \/ listener'.nextHandle \in {listener.nextHandle, NoHandle}
           \/ listener'.nextHandle \in Handles /\ sock'[listener'.nextHandle].kind = "connected"
    PROVE  KindInv'
<1>1. /\ \A p \in Procs : stream'[p].handle \in Handles \cup {NoHandle}
      /\ listener'.nextHandle \in Handles \cup {NoHandle}
  BY DEF OwnInv, ThreadShape
<1>2. HasFacts' /\ PlaceInv'
  BY HasAtNext DEF OwnInv
<1>3. ASSUME NEW p \in Procs, stream'[p].handle # NoHandle
      PROVE  sock'[stream'[p].handle].kind \in {"connected", "reset"}
  <2>1. stream'[p].handle \in Handles /\ Joined(stream'[p].handle)
    BY <1>1, <1>3 DEF KindInv, HasStream, Joined
  <2>2. sock'[stream'[p].handle].kind # "free"
    <3>1. <<"stream", p>> \in Places /\ Has'[<<"stream", p>>] = stream'[p].handle
      BY <1>2, PlaceCases DEF HasFacts
    <3> QED
      BY <1>2, <1>3, <3>1 DEF PlaceInv, IsFree, Places
  <2> QED
    BY <2>1, <2>2 DEF KindsStay
<1>4. ASSUME listener'.nextHandle # NoHandle
      PROVE  sock'[listener'.nextHandle].kind \in {"connected", "reset"}
  <2>1. sock'[listener'.nextHandle].kind # "free"
    BY <1>2, <1>4, PlaceCases DEF PlaceInv, HasFacts, IsFree, Places
  <2>2. CASE listener'.nextHandle = listener.nextHandle
    BY <1>1, <1>4, <2>1, <2>2 DEF KindInv, Joined, KindsStay
  <2> QED
    BY <1>4, <2>2
<1>5. \A h \in Handles : sock'[h].kind \notin {"connected", "reset"} => sock'[h].in = <<>>
  BY DEF KindInv, KindsStay, Joined
<1> QED
  BY <1>3, <1>4, <1>5 DEF KindInv, HasStream

\* Nothing is sent, and nothing is read.
LEMMA BytesStay ==
    ASSUME OwnInv, OwnInv', BytesInv, SocksStay, QueueStays, \A p \in Procs : GotAt(p)',
           \A h \in Handles : Read(h)' = Read(h) \/ (sock'[h].in = <<>> /\ sock'[h].peer = Gone),
           \A h \in Handles : sock'[h].peer # Gone => Sent(h)' = Sent(h)
    PROVE  BytesInv'
<1>1. EndsInv'
  BY DEF OwnInv
<1>2. ASSUME NEW h \in Handles PROVE InAt(h)'
  <2>1. CASE sock'[h].in = <<>> /\ sock'[h].peer = Gone
    BY <2>1, HandleRange DEF InAt
  <2>2. CASE ~(sock'[h].in = <<>> /\ sock'[h].peer = Gone)
    <3>1. /\ sock'[h].in = sock[h].in /\ Read(h)' = Read(h) /\ InAt(h)
          /\ sock'[h].peer = sock[h].peer \/ sock'[h].peer = Gone
      BY <2>2 DEF SocksStay, BytesInv
    <3>2. ASSUME sock'[h].peer \in Handles
          PROVE  \E g \in Handles : g = sock'[h].peer /\ g = sock[h].peer /\ Sent(g)' = Sent(g)
      <4>1. PICK g \in Handles : g = sock'[h].peer /\ g = sock[h].peer
        BY <3>1, <3>2, HandleRange
      <4>2. sock'[g].peer = h
        BY <1>1, <3>2, <4>1 DEF EndsInv
      <4>3. sock'[g].peer # Gone
        BY <4>2, HandleRange
      <4> QED
        BY <4>1, <4>3
    <3> QED
      BY <3>1, <3>2, HandleRange DEF InAt
  <2> QED
    BY <2>1, <2>2
<1>3. ASSUME NEW k \in DOMAIN queue' PROVE EarlyAt(k)'
  <2>1. /\ k \in DOMAIN queue /\ EarlyAt(k) /\ queue'[k].early = queue[k].early
        /\ queue'[k].from = queue[k].from \/ queue'[k].from = Gone
    BY DEF QueueStays, BytesInv
  <2>2. ASSUME queue'[k].from # Gone
        PROVE  \E g \in Handles : g = queue'[k].from /\ g = queue[k].from /\ Sent(g)' = Sent(g)
    <3>1. PICK f \in Handles \cup {Gone} : f = queue[k].from
      BY <2>1, Fields DEF OwnInv
    <3>2. PICK g \in Handles : g = queue'[k].from /\ g = queue[k].from
      BY <2>1, <2>2, <3>1
    <3>3. sock'[g].peer # Gone
      BY <1>1, <2>2, <3>2, HandleRange DEF EndsInv
    <3> QED
      BY <3>2, <3>3
  <2> QED
    BY <2>1, <2>2 DEF EarlyAt
<1> QED
  BY <1>2, <1>3 DEF BytesInv

\* What the system calls that carry no bytes do to the sockets.
AllStay == SocksStay /\ QueueStays /\ KindsStay

LEMMA SameStays == ASSUME UNCHANGED <<sock, queue>> PROVE AllStay
  BY DEF AllStay, SocksStay, QueueStays, KindsStay, Joined

LEMMA OpenStays == ASSUME OwnInv, NEW h, OpenSocket(h) PROVE AllStay
<1>1. /\ h \in Handles /\ IsFree(h) /\ sock'[h] = Socket("new") /\ queue' = queue
      /\ \A g \in Handles \ {h} : sock'[g] = sock[g]
  BY OpenEffect DEF OwnInv
<1>2. sock'[h].in = <<>> /\ sock'[h].peer = Gone /\ ~Joined(h)
  BY <1>1, NewSocket DEF Kinds, Joined, IsFree
<1> QED
  BY <1>1, <1>2 DEF AllStay, SocksStay, QueueStays, KindsStay, Joined

LEMMA CloseStays == ASSUME OwnInv, NEW h \in Handles, Close(h) PROVE AllStay
<1>1. /\ sock'[h] = Socket("free") /\ \A g \in Handles \ {h} : Kept(g)
      /\ DOMAIN queue' \subseteq DOMAIN queue
      /\ \A i \in DOMAIN queue' : /\ queue'[i].early = queue[i].early
                                  /\ queue'[i].from = queue[i].from \/ queue'[i].from = Gone
  BY CloseEffect DEF OwnInv
<1>2. sock'[h].in = <<>> /\ sock'[h].peer = Gone /\ sock'[h].kind = "free"
  BY <1>1, NewSocket DEF Kinds
<1>3. SocksStay
  BY <1>1, <1>2 DEF SocksStay, Kept
<1>4. KindsStay
  <2>1. ASSUME NEW g \in Handles \ {h}
        PROVE  /\ Joined(g) => sock'[g].kind \in {"connected", "reset", "free"}
               /\ \/ sock'[g].kind \in {"connected", "reset"}
                  \/ sock'[g].in = sock[g].in /\ ~Joined(g)
    BY <1>1 DEF Kept, Joined
  <2> QED
    BY <1>2, <2>1 DEF KindsStay
<1> QED
  BY <1>1, <1>3, <1>4 DEF AllStay, QueueStays

LEMMA RenameStays ==
    ASSUME OwnInv, NEW h \in Handles, NEW k \in Kinds, ~Joined(h),
           sock' = [sock EXCEPT ![h].kind = k], queue' = queue
    PROVE  AllStay
<1>1. /\ sock'[h].in = sock[h].in /\ sock'[h].peer = sock[h].peer
      /\ \A g \in Handles \ {h} : sock'[g] = sock[g]
  BY RenameEffect DEF OwnInv, Joined
<1> QED
  BY <1>1 DEF AllStay, SocksStay, QueueStays, KindsStay, Joined

LEMMA LostStays ==
    ASSUME OwnInv, NEW h \in Handles, sock[h].kind = "connected", ~Connected(h), SendIsLost(h)
    PROVE  AllStay /\ sock'[h].peer = Gone
<1>1. /\ sock'[h].kind = "reset" /\ sock'[h].in = sock[h].in /\ sock'[h].peer = Gone
      /\ sock[h].peer = Gone /\ queue' = queue /\ \A g \in Handles \ {h} : sock'[g] = sock[g]
  BY LostEffect DEF OwnInv
<1> QED
  BY <1>1 DEF AllStay, SocksStay, QueueStays, KindsStay, Joined

-----------------------------------------------------------------------------
\* A step of p that sends and reads nothing, and leaves the streams where they
\* are.  What p has written may only be forgotten when nobody is there to read.
LEMMA QuietBytes ==
    ASSUME OwnInv, OwnInv', KindInv, BytesInv, NEW p \in Procs, AllStay,
           \A q \in Procs : stream'[q].handle = stream[q].handle, got' = got,
           listener'.nextHandle \in {listener.nextHandle, NoHandle},
           \A q \in Procs \ {p} : Taken(q)' = Taken(q) /\ written'[q] = written[q],
           ~HasStream(p) => written'[p] = written[p],
           \/ Taken(p)' = Taken(p)
           \/ HasStream(p) /\ sock'[stream[p].handle].peer = Gone
    PROVE  KindInv' /\ BytesInv'
<1>1. KindInv'
  BY KindKeeps DEF AllStay
<1>2. \A q \in Procs : GotAt(q)'
  BY DEF BytesInv, GotAt, HasStream
<1>3. ASSUME NEW h \in Handles
      PROVE  /\ Read(h)' = Read(h)
             /\ sock'[h].peer # Gone => Sent(h)' = Sent(h)
  <2>1. CASE h # stream[p].handle
    BY <2>1, SentStays
  <2>2. CASE h = stream[p].handle
    <3>1. HasStream(p) /\ HasStream(p)'
      BY <2>2, HandleRange DEF HasStream
    <3>2. Sent(h) = Taken(p) /\ Read(h) = Len(got[p])
      BY <2>2, <3>1, SentAt DEF SentFacts
    <3>3. Sent(h)' = Taken(p)' /\ Read(h)' = Len(got'[p])
      BY <2>2, <3>1, SentAtNext DEF SentFacts
    <3> QED
      BY <2>2, <3>2, <3>3
  <2> QED
    BY <2>1, <2>2
<1>4. BytesInv'
  BY <1>2, <1>3, BytesStay DEF AllStay
<1> QED
  BY <1>1, <1>4

\* The most of them do not write at all.
LEMMA ControlBytes ==
    ASSUME OwnInv, OwnInv', KindInv, BytesInv, NEW p \in Procs, AllStay,
           UNCHANGED <<stream, written, got>>,
           listener'.nextHandle \in {listener.nextHandle, NoHandle},
           \A q \in Procs \ {p} : call'[q] = call[q],
           call[p].pc \notin {"write", "writeWait"}, call'[p].pc \notin {"write", "writeWait"}
    PROVE  KindInv' /\ BytesInv'
<1>1. \A q \in Procs : Taken(q)' = Taken(q)
  BY DEF Taken
<1> QED
  BY <1>1, QuietBytes

\* Calls that begin, wait, wake up or end.
LEMMA CalmBytes ==
    ASSUME OwnInv, OwnInv', KindInv, BytesInv, NEW p \in Procs,
           \/ Start(p, "read") \/ Start(p, "write") \/ IOFails(p)
           \/ ReadNothing(p) \/ WriteNothing(p) \/ StreamWakes(p) \/ WaitThrows(p)
    PROVE  KindInv' /\ BytesInv'
<1>0. ThreadShape /\ written[p] \in Nat /\ call[p].position \in Nat /\ EndsInv
  BY CallFields DEF OwnInv, ThreadShape
<1>1. /\ UNCHANGED <<sock, queue, listener, got>> /\ AllStay
      /\ ~WaitThrows(p) /\ ~IOFails(p) => written' = written
  BY SameStays DEF Start, IOFails, ReadNothing, WriteNothing, StreamWakes, WaitThrows, sockets
<1>2. ASSUME stream' = stream, \A q \in Procs \ {p} : call'[q] = call[q] /\ written'[q] = written[q],
             ~HasStream(p) => written'[p] = written[p], Taken(p)' = Taken(p)
      PROVE  KindInv' /\ BytesInv'
  <2>1. \A q \in Procs \ {p} : Taken(q)' = Taken(q)
    BY <1>2 DEF Taken
  <2> QED
    BY <1>1, <1>2, <2>1, QuietBytes
<1>3. CASE Start(p, "read") \/ Start(p, "write")
  <2>1. PICK pc \in {"read", "write"}, n \in Sizes :
           call' = [call EXCEPT ![p] = [pc |-> pc, size |-> n, position |-> 0]]
    BY <1>3 DEF Start
  <2>2. /\ call'[p].pc = pc /\ call'[p].position = 0 /\ \A q \in Procs \ {p} : call'[q] = call[q]
    BY <1>0, <2>1 DEF ThreadShape
  <2>3. call[p].pc = "idle" /\ stream' = stream /\ written' = written
    BY <1>3 DEF Start, In
  <2>4. Taken(p)' = Taken(p)
    BY <1>0, <2>2, <2>3 DEF Taken
  <2> QED
    BY <1>2, <2>2, <2>3, <2>4
<1>4. CASE IOFails(p)
  <2>1. /\ call[p].pc \in {"read", "write"} /\ stream' = [stream EXCEPT ![p].isValid = FALSE]
        /\ GoTo(p, "idle") /\ written' = [written EXCEPT ![p] = @ + TakenOf(p)]
    BY <1>4 DEF IOFails, Return
  <2>2. call'[p].pc = "idle" /\ \A q \in Procs \ {p} : call'[q] = call[q]
    BY <1>0, <2>1, GoToEffect DEF ClientCalls
  <2>3. \A q \in Procs : stream'[q].handle = stream[q].handle
    BY <1>0, <2>1, StreamType
  <2>4. /\ written'[p] = written[p] + TakenOf(p)
        /\ \A q \in Procs \ {p} : Taken(q)' = Taken(q) /\ written'[q] = written[q]
    BY <1>0, <2>1, <2>2 DEF Taken, ThreadShape
  <2>5. Taken(p)' = Taken(p)
    BY <1>0, <2>2, <2>4 DEF Taken, TakenOf
  <2>6. HasStream(p)
    BY <2>1 DEF OwnInv, ProcInv, ProcAt, StreamCalls
  <2> QED
    BY <1>1, <2>1, <2>2, <2>3, <2>4, <2>5, <2>6, QuietBytes
<1>5. CASE ReadNothing(p) \/ WriteNothing(p) \/ StreamWakes(p)
  <2>1. PICK pc \in StreamCalls :
           /\ call' = [call EXCEPT ![p].pc = pc]
           /\ pc \in {"write", "writeWait"} <=> call[p].pc \in {"write", "writeWait"}
    BY <1>5 DEF ReadNothing, WriteNothing, StreamWakes, StreamCalls, In
  <2>2. stream' = stream /\ written' = written
    BY <1>5 DEF ReadNothing, WriteNothing, StreamWakes
  <2>3. /\ call'[p].pc = pc /\ call'[p].position = call[p].position
        /\ \A q \in Procs \ {p} : call'[q] = call[q]
    <3>1. pc \in ClientCalls \cup ServerCalls
      BY DEF StreamCalls, ClientCalls
    <3> QED
      BY <1>0, <2>1, <3>1, FromTo
  <2>4. Taken(p)' = Taken(p)
    BY <2>1, <2>2, <2>3 DEF Taken
  <2> QED
    BY <1>2, <2>2, <2>3, <2>4
<1>6. CASE WaitThrows(p)
  <2>1. /\ call[p].pc \in {"readWait", "writeWait", "listenerWait"} /\ GoTo(p, "idle")
        /\ stream' = stream
        /\ written' = [written EXCEPT ![p] = @ + TakenOf(p)]
    BY <1>6 DEF WaitThrows, Return
  <2>2. call'[p].pc = "idle" /\ \A q \in Procs \ {p} : call'[q] = call[q]
    BY <1>0, <2>1, GoToEffect DEF ClientCalls
  <2>3. /\ written'[p] = written[p] + TakenOf(p)
        /\ \A q \in Procs \ {p} : written'[q] = written[q]
    BY <1>0, <2>1 DEF ThreadShape
  <2>4. Taken(p)' = Taken(p)
    BY <1>0, <2>1, <2>2, <2>3 DEF Taken, TakenOf
  <2>5. ~HasStream(p) => written'[p] = written[p]
    BY <1>0, <2>1, <2>3 DEF OwnInv, ProcInv, ProcAt, StreamCalls, TakenOf
  <2> QED
    BY <1>2, <2>1, <2>2, <2>3, <2>4, <2>5
<1> QED
  BY <1>3, <1>4, <1>5, <1>6

\* Sockets are made, named, closed; connectors and the listener come and go.
LEMMA CreateBytes ==
    ASSUME OwnInv, OwnInv', KindInv, BytesInv, NEW p \in Procs, Create(p) \/ CreateFails(p)
    PROVE  KindInv' /\ BytesInv'
<1>1. /\ UNCHANGED <<listener, stream, written, got>>
      /\ \E pc \in {"listen", "connect", "idle"} : GoTo(p, pc)
      /\ call[p].pc \in {"idle", "connect", "listen", "geterror"}
  BY DEF Create, CreateFails, Return, In
<1>2. call'[p].pc \in {"listen", "connect", "idle"} /\ \A q \in Procs \ {p} : call'[q] = call[q]
  BY <1>1, GoToEffect DEF ClientCalls, ServerCalls, OwnInv
<1>3. AllStay
  <2>1. CASE Create(p)
    BY <2>1, OpenStays DEF Create
  <2>2. CASE CreateFails(p)
    <3>1. local[p] \in Handles /\ Close(local[p])
      BY <2>2, PlaceTypes DEF CreateFails, OwnInv, ProcInv, ProcAt
    <3> QED
      BY <3>1, CloseStays
  <2> QED
    BY <2>1, <2>2
<1> QED
  BY <1>1, <1>2, <1>3, ControlBytes

LEMMA ConnectorBytes ==
    ASSUME OwnInv, OwnInv', KindInv, BytesInv, NEW c \in Clients,
           \/ Connect(c) \/ DestroyConnector(c) \/ ConnectorWait(c) \/ ConnectorWaitThrows(c)
           \/ ConnectorGet(c)
    PROVE  KindInv' /\ BytesInv'
<1>0. c \in Procs /\ ThreadShape
  BY PlaceTypes DEF OwnInv
<1>1. /\ UNCHANGED <<listener, stream, written, got>>
      /\ call' = call \/ \E pc \in {"idle", "wait", "geterror"} : GoTo(c, pc)
      /\ call[c].pc \in {"idle", "connect", "wait"}
  BY DEF Connect, DestroyConnector, ConnectorWait, ConnectorWaitThrows, ConnectorGet, Return, In
<1>2. /\ call'[c].pc \in {"idle", "connect", "wait", "geterror"}
      /\ \A q \in Procs \ {c} : call'[q] = call[q]
  BY <1>0, <1>1, GoToEffect DEF ClientCalls
<1>3. AllStay
  <2>1. CASE Connect(c)
    <3>1. local[c] \in Handles /\ sock[local[c]].kind = "new" /\ StartConnect(local[c])
      BY <1>0, <2>1, PlaceTypes DEF Connect, In, OwnInv, ProcInv, ProcAt
    <3>2. ~Joined(local[c])
      BY <3>1 DEF Joined
    <3> QED
      BY <3>1, <3>2, RenameStays DEF StartConnect, Kinds
  <2>2. CASE DestroyConnector(c) \/ ConnectorWaitThrows(c)
    <3>1. connector[c] \in Handles /\ Close(connector[c])
      BY <2>2, PlaceTypes DEF DestroyConnector, ConnectorWaitThrows, In, OwnInv, ClientInv, ClientAt
    <3> QED
      BY <3>1, CloseStays
  <2>3. CASE ConnectorWait(c) \/ ConnectorGet(c)
    BY <2>3, SameStays DEF ConnectorWait, ConnectorGet, sockets
  <2> QED
    BY <2>1, <2>2, <2>3
<1> QED
  BY <1>0, <1>1, <1>2, <1>3, ControlBytes

LEMMA ListenerBytes ==
    ASSUME OwnInv, OwnInv', KindInv, BytesInv,
           \/ ListenerCheck \/ DestroyListener \/ BindAndListen
           \/ CheckHasHandle \/ CheckWouldBlock \/ CheckThrows \/ ListenerWakes
    PROVE  KindInv' /\ BytesInv'
<1>0. Server \in Procs /\ ThreadShape
  BY PlaceTypes DEF OwnInv
<1>1. /\ UNCHANGED <<stream, written, got>> /\ listener'.nextHandle \in {listener.nextHandle, NoHandle}
      /\ call' = call \/ \E pc \in {"idle", "check", "checkToGet", "listenerWait", "get"} : GoTo(Server, pc)
      /\ call[Server].pc \in {"idle", "listen", "check", "checkToGet", "listenerWait"}
  BY DEF ListenerCheck, DestroyListener, BindAndListen, CheckHasHandle, CheckWouldBlock, CheckThrows,
         ListenerWakes, Return, In, CheckTrue, Checking
<1>2. /\ call'[Server].pc \in {"idle", "listen", "check", "checkToGet", "listenerWait", "get"}
      /\ \A q \in Procs \ {Server} : call'[q] = call[q]
  BY <1>0, <1>1, GoToEffect DEF ServerCalls
<1>3. AllStay
  <2>1. CASE BindAndListen
    <3>1. local[Server] \in Handles /\ sock[local[Server]].kind = "new" /\ Listen(local[Server])
      BY <1>0, <2>1, PlaceTypes DEF BindAndListen, In, OwnInv, ProcInv, ProcAt
    <3>2. ~Joined(local[Server])
      BY <3>1 DEF Joined
    <3> QED
      BY <3>1, <3>2, RenameStays DEF Listen, Kinds
  <2>2. CASE DestroyListener
    <3>1. listener.handle \in Handles /\ Close(listener.handle)
      BY <2>2, PlaceTypes DEF DestroyListener
    <3> QED
      BY <3>1, CloseStays
  <2>3. CASE ListenerCheck \/ CheckHasHandle \/ CheckWouldBlock \/ CheckThrows \/ ListenerWakes
    BY <2>3, SameStays DEF ListenerCheck, CheckHasHandle, CheckWouldBlock, CheckThrows, ListenerWakes, sockets
  <2> QED
    BY <2>1, <2>2, <2>3
<1> QED
  BY <1>0, <1>1, <1>2, <1>3, ControlBytes

LEMMA WriteIsLostBytes ==
    ASSUME OwnInv, OwnInv', KindInv, BytesInv, NEW p \in Procs, WriteIsLost(p)
    PROVE  KindInv' /\ BytesInv'
<1>1. /\ call[p].pc = "write" /\ sock[Handle(p)].kind = "connected" /\ ~Connected(Handle(p))
      /\ SendIsLost(Handle(p)) /\ GoTo(p, "idle") /\ UNCHANGED <<listener, stream, got>>
      /\ written' = [written EXCEPT ![p] = @ + call[p].size]
  BY DEF WriteIsLost, In, Return
<1>2. Handle(p) \in Handles /\ HasStream(p) /\ ThreadShape
  BY <1>1, InStream DEF StreamCalls, OwnInv, ProcInv, ProcAt
<1>3. AllStay /\ sock'[stream[p].handle].peer = Gone
  BY <1>1, <1>2, LostStays DEF Handle
<1>4. \A q \in Procs \ {p} : call'[q] = call[q] /\ written'[q] = written[q]
  BY <1>1, <1>2, GoToEffect DEF ClientCalls, ThreadShape
<1>5. \A q \in Procs \ {p} : Taken(q)' = Taken(q)
  BY <1>4 DEF Taken
<1> QED
  BY <1>1, <1>2, <1>3, <1>4, <1>5, QuietBytes

-----------------------------------------------------------------------------
\* A stream that begins has a connection that nothing was read from.
LEMMA NewStreamBytes ==
    ASSUME OwnInv, OwnInv', KindInv, BytesInv, NEW p \in Procs, NEW h \in Handles, Joined(h),
           ~HasStream(p), NewStream(p, h), UNCHANGED <<sock, queue>>,
           listener'.nextHandle \in {listener.nextHandle, NoHandle},
           \A q \in Procs \ {p} : call'[q] = call[q], call'[p].pc = "idle"
    PROVE  KindInv' /\ BytesInv'
<1>1. /\ stream'[p].handle = h /\ \A q \in Procs \ {p} : stream'[q] = stream[q]
      /\ UNCHANGED <<written, got>>
  BY NewStreamEffect DEF OwnInv
<1>2. AllStay /\ h # NoHandle
  BY SameStays, HandleRange
<1>3. KindInv'
  BY <1>1, <1>2, KindKeeps DEF AllStay
<1>4. \A q \in Procs : GotAt(q)'
  BY <1>1 DEF BytesInv, GotAt, HasStream
<1>5. \A q \in Procs \ {p} : Taken(q)' = Taken(q)
  BY <1>1 DEF Taken
<1>6. ASSUME NEW g \in Handles PROVE Read(g)' = Read(g) /\ Sent(g)' = Sent(g)
  <2>1. CASE g # h
    <3>1. g # stream[p].handle
      BY HandleRange DEF HasStream
    <3> QED
      BY <1>1, <1>5, <2>1, <3>1, SentStays
  <2>2. CASE g = h
    <3>1. written[p] = 0 /\ got[p] = <<>>
      BY DEF BytesInv, GotAt
    <3>2. Sent(h)' = Taken(p)' /\ Read(h)' = Len(got'[p])
      BY <1>1, <1>2, SentAtNext DEF SentFacts, HasStream
    <3>3. Sent(h)' = 0 /\ Read(h)' = 0
      BY <1>1, <3>1, <3>2 DEF Taken
    <3>4. \A q \in Procs : stream[q].handle # h
      BY <1>1, <1>2, SentAtNext DEF SentFacts, HasStream
    <3>5. Sent(h) = 0 /\ Read(h) = 0
      BY <3>4, SentAt DEF SentFacts
    <3> QED
      BY <2>2, <3>3, <3>5
  <2> QED
    BY <2>1, <2>2
<1>7. BytesInv'
  BY <1>2, <1>4, <1>6, BytesStay DEF AllStay
<1> QED
  BY <1>3, <1>7

LEMMA GetsStreamBytes ==
    ASSUME OwnInv, OwnInv', KindInv, BytesInv,
           (\E c \in Clients : ConnectorGetsNoError(c)) \/ ListenerGet
    PROVE  KindInv' /\ BytesInv'
<1>1. ASSUME NEW c \in Clients, ConnectorGetsNoError(c) PROVE KindInv' /\ BytesInv'
  <2>1. /\ call[c].pc = "geterror" /\ sock[local[c]].kind = "connected" /\ NewStream(c, local[c])
        /\ GoTo(c, "idle") /\ UNCHANGED <<sock, queue, listener>>
    BY <1>1 DEF ConnectorGetsNoError, In, Return, sockets
  <2>2. c \in Procs /\ local[c] \in Handles /\ ~HasStream(c) /\ ThreadShape
    BY <2>1, PlaceTypes DEF OwnInv, ClientInv, ClientAt, ProcInv, ProcAt
  <2>3. call'[c].pc = "idle" /\ \A q \in Procs \ {c} : call'[q] = call[q]
    BY <2>1, <2>2, GoToEffect DEF ClientCalls
  <2>4. Joined(local[c])
    BY <2>1 DEF Joined
  <2> QED
    BY <2>1, <2>2, <2>3, <2>4, NewStreamBytes
<1>2. ASSUME ListenerGet PROVE KindInv' /\ BytesInv'
  <2>1. /\ listener.nextHandle # NoHandle /\ ~HasStream(Server) /\ NewStream(Server, listener.nextHandle)
        /\ listener' = [listener EXCEPT !.nextHandle = NoHandle]
        /\ GoTo(Server, "idle") /\ UNCHANGED <<sock, queue>>
    BY <1>2 DEF ListenerGet, Return, sockets
  <2>2. /\ Server \in Procs /\ listener.nextHandle \in Handles /\ ThreadShape
        /\ listener'.nextHandle = NoHandle
    BY <2>1, PlaceTypes DEF OwnInv, ThreadShape
  <2>3. call'[Server].pc = "idle" /\ \A q \in Procs \ {Server} : call'[q] = call[q]
    BY <2>1, <2>2, GoToEffect DEF ClientCalls
  <2>4. Joined(listener.nextHandle)
    BY <2>1 DEF KindInv, Joined
  <2> QED
    BY <2>1, <2>2, <2>3, <2>4, NewStreamBytes
<1> QED
  BY <1>1, <1>2

LEMMA DestroyStreamBytes ==
    ASSUME OwnInv, OwnInv', KindInv, BytesInv, NEW p \in Procs, DestroyStream(p)
    PROVE  KindInv' /\ BytesInv'
<1>1. /\ HasStream(p) /\ Close(Handle(p)) /\ stream' = [stream EXCEPT ![p] = NoStream]
      /\ written' = [written EXCEPT ![p] = 0] /\ got' = [got EXCEPT ![p] = <<>>]
      /\ UNCHANGED <<listener, call>>
  BY DEF DestroyStream
<1>2. ThreadShape /\ Handle(p) \in Handles /\ SockShape /\ EndsInv
  BY <1>1, PlaceTypes DEF OwnInv, HasStream, Handle
<1>3. AllStay
  BY <1>1, <1>2, CloseStays
<1>4. /\ stream'[p].handle = NoHandle /\ written'[p] = 0 /\ got'[p] = <<>>
      /\ \A q \in Procs \ {p} : /\ stream'[q] = stream[q] /\ written'[q] = written[q]
                                /\ got'[q] = got[q]
  BY <1>1, <1>2 DEF ThreadShape, NoStream
<1>5. sock'[Handle(p)].in = <<>> /\ sock'[Handle(p)].peer = Gone
  BY <1>1, <1>2, CloseEffect, NewSocket DEF Kinds
<1>6. KindInv'
  BY <1>1, <1>3, <1>4, KindKeeps DEF AllStay
<1>7. \A q \in Procs : GotAt(q)'
  BY <1>4 DEF BytesInv, GotAt, HasStream
<1>8. \A q \in Procs \ {p} : Taken(q)' = Taken(q)
  BY <1>1, <1>4 DEF Taken
<1>9. \A g \in Handles : g # Handle(p) => Read(g)' = Read(g) /\ Sent(g)' = Sent(g)
  BY <1>4, <1>8, HandleRange, SentStays DEF Handle
<1>10. BytesInv'
  BY <1>3, <1>5, <1>7, <1>9, BytesStay DEF AllStay
<1> QED
  BY <1>6, <1>10

\* The streams, what they have written and what they have read stay the same.
LEMMA SentSame ==
    ASSUME OwnInv, OwnInv',
           \A q \in Procs : /\ stream'[q].handle = stream[q].handle
                            /\ Taken(q)' = Taken(q) /\ got'[q] = got[q]
    PROVE  \A h \in Handles : Sent(h)' = Sent(h) /\ Read(h)' = Read(h)
<1> SUFFICES ASSUME NEW h \in Handles PROVE Sent(h)' = Sent(h) /\ Read(h)' = Read(h)
  OBVIOUS
<1>1. SentFacts /\ SentFacts'
  BY SentAt, SentAtNext
<1>2. CASE \E p \in Procs : stream[p].handle = h
  <2>1. PICK p \in Procs : stream[p].handle = h
    BY <1>2
  <2>2. HasStream(p) /\ HasStream(p)' /\ stream'[p].handle = h
    BY <2>1, HandleRange DEF HasStream
  <2> QED
    BY <1>1, <2>1, <2>2 DEF SentFacts
<1>3. CASE \A p \in Procs : stream[p].handle # h
  BY <1>1, <1>3 DEF SentFacts
<1> QED
  BY <1>2, <1>3

LEMMA CheckAcceptsBytes ==
    ASSUME OwnInv, OwnInv', KindInv, BytesInv, CheckAccepts PROVE KindInv' /\ BytesInv'
<1>1. PICK h \in Handles : Accept(h) /\ listener' = [listener EXCEPT !.nextHandle = h]
  BY DEF CheckAccepts
<1>2. /\ call[Server].pc \in {"check", "checkToGet"} /\ \E pc \in {"idle", "get"} : GoTo(Server, pc)
      /\ UNCHANGED <<stream, written, got>>
  BY DEF CheckAccepts, Checking, CheckTrue, In, Return
<1>3. Server \in Procs /\ ThreadShape /\ SockShape /\ EndsInv
  BY PlaceTypes DEF OwnInv
<1>4. call'[Server].pc \in {"idle", "get"} /\ \A q \in Procs \ {Server} : call'[q] = call[q]
  BY <1>2, <1>3, GoToEffect DEF ServerCalls
<1>5. \A q \in Procs : Taken(q)' = Taken(q)
  BY <1>2, <1>4 DEF Taken
<1>6. \A g \in Handles : Sent(g)' = Sent(g) /\ Read(g)' = Read(g)
  BY <1>2, <1>5, SentSame
<1>7. /\ IsFree(h) /\ queue # <<>> /\ queue' = Tail(queue)
      /\ sock'[h].kind = "connected" /\ sock'[h].in = Head(queue).early
      /\ sock'[h].peer = Head(queue).from
      /\ \A g \in Handles \ {h} :
            /\ sock'[g].kind = sock[g].kind /\ sock'[g].in = sock[g].in
            /\ sock'[g].peer = IF g = Head(queue).from THEN h ELSE sock[g].peer
  BY <1>1, <1>3, AcceptEffect
<1>8. /\ 1 \in DOMAIN queue /\ Head(queue) = queue[1] /\ DOMAIN queue' = 1 .. (Len(queue) - 1)
      /\ \A i \in DOMAIN queue' : i + 1 \in DOMAIN queue /\ queue'[i] = queue[i + 1]
  <2>1. queue \in Seq(Entries)
    BY <1>3 DEF SockShape
  <2> QED
    BY <1>7, <2>1, HeadTailProperties, EmptySeq, LenProperties
<1>9. KindInv'
  <2>1. KindsStay
    BY <1>7 DEF KindsStay, Joined, IsFree
  <2>2. listener'.nextHandle = h
    BY <1>1, <1>3 DEF ThreadShape
  <2> QED
    BY <1>2, <1>7, <2>1, <2>2, KindKeeps
<1>10. Sent(h) = 0 /\ Read(h) = 0
  <2>1. \A p \in Procs : stream[p].handle # h
    <3>1. \A p \in Procs : stream[p].handle = h => HasStream(p)
      BY HandleRange DEF HasStream
    <3> QED
      BY <1>7, <3>1 DEF KindInv, IsFree
  <2> QED
    BY <2>1, SentAt DEF SentFacts
<1>11. PICK f \in Handles \cup {Gone} : f = Head(queue).from
  BY <1>3, <1>8, Fields
<1>12. EarlyAt(1) /\ (f # Gone => sock[f].peer = Pending /\ f # h)
  <2>1. EarlyAt(1)
    BY <1>8 DEF BytesInv
  <2>2. f # Gone => sock[f].peer = Pending
    BY <1>3, <1>8, <1>11 DEF EndsInv
  <2>3. sock[h].peer = Gone
    BY <1>3, <1>7 DEF EndsInv, IsFree
  <2> QED
    BY <2>1, <2>2, <2>3, HandleRange
<1>13. ASSUME NEW g \in Handles PROVE InAt(g)'
  <2>1. CASE g = h
    <3>1. f # Pending
      BY <1>11, HandleRange
    <3>2. Read(h)' = 0 /\ (f \in Handles => Sent(f)' = Sent(f) /\ f # Gone)
      BY <1>6, <1>10, HandleRange
    <3>3. /\ \A i \in DOMAIN queue[1].early : queue[1].early[i] = i /\ i \in Nat
          /\ Len(queue[1].early) \in Nat
      <4>1. queue[1].early \in Seq(Nat)
        BY <1>3, <1>8, Fields
      <4> QED
        BY <1>12, <4>1, LenProperties DEF EarlyAt
    <3>4. f \in Handles => Len(queue[1].early) = Sent(f)
      BY <1>8, <1>11, <1>12, HandleRange DEF EarlyAt
    <3>5. sock'[h].in = queue[1].early /\ sock'[h].peer = f
      BY <1>7, <1>8, <1>11
    <3> QED
      BY <2>1, <3>1, <3>2, <3>3, <3>4, <3>5 DEF InAt
  <2>2. CASE g = f /\ g # h
    <3>1. InAt(g) /\ sock[g].peer = Pending
      BY <1>12, <2>2, HandleRange DEF BytesInv
    <3>2. Read(g) = 0 /\ sock[g].in = <<>>
      BY <3>1 DEF InAt
    <3>3. sock'[g].in = <<>> /\ sock'[g].peer = h /\ Read(g)' = 0 /\ Sent(h)' = 0
      BY <1>6, <1>7, <1>10, <1>11, <2>2, <3>2
    <3> QED
      BY <3>3, HandleRange DEF InAt
  <2>3. CASE g # f /\ g # h
    <3>1. InAt(g) /\ sock'[g].in = sock[g].in /\ sock'[g].peer = sock[g].peer /\ Read(g)' = Read(g)
      BY <1>6, <1>7, <1>11, <2>3 DEF BytesInv
    <3>2. sock[g].peer \in Handles => \E q \in Handles : q = sock[g].peer /\ Sent(q)' = Sent(q)
      BY <1>6
    <3> QED
      BY <3>1, <3>2 DEF InAt
  <2> QED
    BY <2>1, <2>2, <2>3
<1>14. ASSUME NEW k \in DOMAIN queue' PROVE EarlyAt(k)'
  <2>1. k + 1 \in DOMAIN queue /\ queue'[k] = queue[k + 1] /\ EarlyAt(k + 1)
    BY <1>8 DEF BytesInv
  <2>2. queue[k + 1].from # Gone =>
           \E q \in Handles : q = queue[k + 1].from /\ Sent(q)' = Sent(q)
    BY <1>3, <1>6, <2>1, Fields
  <2> QED
    BY <2>1, <2>2 DEF EarlyAt
<1>15. \A q \in Procs : GotAt(q)'
  BY <1>2 DEF BytesInv, GotAt, HasStream
<1> QED
  BY <1>9, <1>13, <1>14, <1>15 DEF BytesInv

LEMMA NetworkBytes ==
    ASSUME OwnInv, OwnInv', KindInv, BytesInv, Network PROVE KindInv' /\ BytesInv'
<1>1. PICK h \in Handles : Handshake(h)
  BY DEF Network
<1>2. UNCHANGED <<listener, stream, call, written, got>> /\ SockShape /\ EndsInv
  BY DEF Network, OwnInv
<1>3. /\ sock[h].kind = "connecting" /\ sock'[h].in = sock[h].in
      /\ \A g \in Handles \ {h} : sock'[g] = sock[g]
      /\ \/ sock'[h].kind = "refused" /\ queue' = queue /\ sock'[h].peer = Gone
         \/ /\ sock'[h].kind = "connected" /\ sock'[h].peer = Pending
            /\ queue' = Append(queue, [from |-> h, early |-> <<>>])
  BY <1>1, <1>2, HandshakeEffect
<1>4. \A q \in Procs : Taken(q)' = Taken(q)
  BY <1>2 DEF Taken
<1>5. \A g \in Handles : Sent(g)' = Sent(g) /\ Read(g)' = Read(g)
  BY <1>2, <1>4, SentSame
<1>6. KindInv'
  <2>1. KindsStay
    BY <1>3 DEF KindsStay, Joined
  <2> QED
    BY <1>2, <2>1, KindKeeps
<1>7. Sent(h) = 0 /\ Read(h) = 0 /\ sock[h].in = <<>>
  <2>1. \A p \in Procs : stream[p].handle = h => HasStream(p)
    BY HandleRange DEF HasStream
  <2>2. \A p \in Procs : stream[p].handle # h
    BY <1>3, <2>1 DEF KindInv
  <2> QED
    BY <1>3, <2>2, SentAt DEF SentFacts, KindInv
<1>8. \A q \in Procs : GotAt(q)'
  BY <1>2 DEF BytesInv, GotAt, HasStream
<1>9. ASSUME NEW g \in Handles PROVE InAt(g)'
  <2>1. CASE g = h
    <3>1. sock'[h].peer \in {Gone, Pending} /\ sock'[h].in = <<>> /\ Read(h)' = 0
      BY <1>3, <1>5, <1>7
    <3> QED
      BY <2>1, <3>1, HandleRange DEF InAt
  <2>2. CASE g # h
    <3>1. InAt(g) /\ sock'[g] = sock[g] /\ Read(g)' = Read(g)
      BY <1>3, <1>5, <2>2 DEF BytesInv
    <3>2. sock[g].peer \in Handles => \E q \in Handles : q = sock[g].peer /\ Sent(q)' = Sent(q)
      BY <1>5
    <3> QED
      BY <3>1, <3>2 DEF InAt
  <2> QED
    BY <2>1, <2>2
<1>10. ASSUME NEW k \in DOMAIN queue, queue'[k] = queue[k] PROVE EarlyAt(k)'
  <2>1. EarlyAt(k)
    BY DEF BytesInv
  <2>2. queue[k].from # Gone => \E q \in Handles : q = queue[k].from /\ Sent(q)' = Sent(q)
    BY <1>2, <1>5, Fields
  <2> QED
    BY <1>10, <2>1, <2>2 DEF EarlyAt
<1>11. ASSUME NEW k \in DOMAIN queue' PROVE EarlyAt(k)'
  <2>1. CASE queue' = queue
    BY <1>10, <2>1
  <2>2. CASE queue' = Append(queue, [from |-> h, early |-> <<>>])
    <3>1. /\ Len(queue) \in Nat /\ DOMAIN queue' = 1 .. (Len(queue) + 1) /\ DOMAIN queue = 1 .. Len(queue)
          /\ \A i \in 1 .. Len(queue) : queue'[i] = queue[i]
          /\ queue'[Len(queue) + 1] = [from |-> h, early |-> <<>>]
      <4>1. queue \in Seq(Entries) /\ [from |-> h, early |-> <<>>] \in Entries
        BY <1>2, EmptySeq DEF SockShape, Entries
      <4> QED
        BY <2>2, <4>1, AppendProperties, LenProperties
    <3>2. CASE k = Len(queue) + 1
      <4>1. queue'[k].early = <<>> /\ queue'[k].from = h /\ Sent(h)' = 0
        BY <1>5, <1>7, <3>1, <3>2
      <4>2. Len(<<>>) = 0 /\ DOMAIN <<>> = {}
        BY EmptySeq
      <4> QED
        BY <4>1, <4>2 DEF EarlyAt
    <3>3. CASE k # Len(queue) + 1
      BY <1>10, <3>1, <3>3
    <3> QED
      BY <3>2, <3>3
  <2> QED
    BY <1>3, <2>1, <2>2
<1> QED
  BY <1>6, <1>8, <1>9, <1>11 DEF BytesInv

-----------------------------------------------------------------------------
\* The bytes that a read takes leave the socket and reach the buffer.
LEMMA ReadSomeBytes ==
    ASSUME OwnInv, OwnInv', WithinInv, KindInv, BytesInv, NEW p \in Procs, ReadSome(p)
    PROVE  KindInv' /\ BytesInv'
<1>1. PICK h \in Handles : h = Handle(p)
  BY InStream DEF ReadSome, In, StreamCalls
<1> DEFINE n == Lesser(Wanted(p), Len(sock[h].in))
<1>2. /\ call[p].pc = "read" /\ ReceiveBytes(h, n) /\ Advance(p, n) /\ sock[h].in # <<>>
      /\ got' = [got EXCEPT ![p] = @ \o SubSeq(sock[h].in, 1, n)]
      /\ UNCHANGED <<connector, listener, stream, local, written, leaked>>
  BY <1>1 DEF ReadSome, In
<1>3. /\ SockShape /\ EndsInv /\ ThreadShape /\ HasStream(p) /\ HasStream(p)'
      /\ stream[p].handle = h /\ stream'[p].handle = h
  BY <1>1, <1>2, HandleRange DEF HasStream, StreamCalls, OwnInv, ProcInv, ProcAt, Handle
<1>4. sock[h].in \in Seq(Nat) /\ Len(sock[h].in) \in Nat /\ DOMAIN sock[h].in = 1 .. Len(sock[h].in)
  BY <1>3, Fields, LenProperties
<1>5. n \in Nat /\ n <= Wanted(p) /\ n \in 0 .. Len(sock[h].in)
  BY <1>3, <1>4, WantedType DEF WithinInv, Within
<1> HIDE DEF n
<1>6. PICK l \in Nat : l = Len(sock[h].in) /\ n <= l
  BY <1>4, <1>5
<1>7. /\ sock'[h].kind = sock[h].kind /\ sock'[h].peer = sock[h].peer
      /\ Len(sock'[h].in) = Len(sock[h].in) - n
      /\ \A i \in 1 .. (Len(sock[h].in) - n) : sock'[h].in[i] = sock[h].in[n + i]
      /\ \A g \in Handles \ {h} : sock'[g] = sock[g]
      /\ queue' = queue /\ SockShape'
  BY <1>2, <1>3, <1>5, ReceiveEffect
<1>8. /\ \A q \in Procs \ {p} : call'[q] = call[q]
      /\ call'[p].pc = "idle" \/ call'[p].pc = call[p].pc
  BY <1>2, <1>3, <1>5, AdvanceEffect
<1>9. /\ SubSeq(sock[h].in, 1, n) \in Seq(Nat) /\ Len(SubSeq(sock[h].in, 1, n)) = n
      /\ \A i \in 1 .. n : SubSeq(sock[h].in, 1, n)[i] = sock[h].in[i]
  <2>1. \A i \in 1 .. n : sock[h].in[i] \in Nat
    BY <1>4, <1>5, ElementOfSeq
  <2> QED
    BY <1>5, <2>1, SubSeqProperties
<1>10. /\ got'[p] = got[p] \o SubSeq(sock[h].in, 1, n) /\ got[p] \in Seq(Nat)
       /\ \A q \in Procs \ {p} : got'[q] = got[q]
  BY <1>2, <1>3 DEF ThreadShape
<1>11. /\ DOMAIN got'[p] = 1 .. (Len(got[p]) + n) /\ Len(got'[p]) = Len(got[p]) + n
       /\ Len(got[p]) \in Nat /\ DOMAIN got[p] = 1 .. Len(got[p])
       /\ \A i \in 1 .. Len(got[p]) : got'[p][i] = got[p][i]
       /\ \A i \in 1 .. n : got'[p][Len(got[p]) + i] = sock[h].in[i]
  BY <1>9, <1>10, Appended
<1>12. Read(h) = Len(got[p]) /\ Read(h)' = Read(h) + n /\ Sent(h)' = Sent(h)
  <2>1. Taken(p)' = Taken(p)
    BY <1>2, <1>8 DEF Taken
  <2>2. /\ Sent(h) = Taken(p) /\ Read(h) = Len(got[p])
        /\ Sent(h)' = Taken(p)' /\ Read(h)' = Len(got'[p])
    BY <1>3, SentAt, SentAtNext DEF SentFacts
  <2> QED
    BY <1>11, <2>1, <2>2
<1>13. \A g \in Handles \ {h} : Sent(g)' = Sent(g) /\ Read(g)' = Read(g)
  <2>1. \A q \in Procs \ {p} : Taken(q)' = Taken(q)
    BY <1>2, <1>8 DEF Taken
  <2> QED
    BY <1>2, <1>3, <1>10, <2>1, SentStays
<1>14. \A g \in Handles : \A f \in Handles : f = sock[g].peer => Sent(f)' = Sent(f)
  BY <1>12, <1>13
<1>15. InAt(h) /\ sock[h].peer # Pending
  BY <1>2, <1>3 DEF BytesInv, InAt
<1>16. KindInv'
  <2>1. Joined(h)
    BY <1>3 DEF KindInv, Joined
  <2>2. KindsStay
    BY <1>7, <2>1 DEF KindsStay, Joined
  <2> QED
    BY <1>2, <2>2, KindKeeps
<1>17. ASSUME NEW q \in Procs PROVE GotAt(q)'
  <2>1. CASE q = p
    <3>1. ASSUME NEW i \in DOMAIN got'[p] PROVE got'[p][i] = i
      <4>1. CASE i <= Len(got[p])
        BY <1>11, <4>1 DEF BytesInv, GotAt
      <4>2. CASE i > Len(got[p])
        <5>1. i - Len(got[p]) \in 1 .. n /\ i = Len(got[p]) + (i - Len(got[p]))
          <6>1. PICK k \in Nat : k = Len(got[p]) /\ i \in 1 .. (k + n) /\ i > k
            BY <1>11, <4>2
          <6>2. i - k \in 1 .. n /\ i = k + (i - k)
            BY <1>5, <6>1
          <6> QED
            BY <6>1, <6>2
        <5>2. got'[p][i] = sock[h].in[i - Len(got[p])]
          <6>1. got'[p][Len(got[p]) + (i - Len(got[p]))] = sock[h].in[i - Len(got[p])]
            BY <1>11, <5>1
          <6> QED
            BY <5>1, <6>1
        <5>3. sock[h].in[i - Len(got[p])] = Read(h) + (i - Len(got[p]))
          <6>1. i - Len(got[p]) \in DOMAIN sock[h].in
            BY <1>4, <1>5, <1>6, <5>1
          <6> QED
            BY <1>15, <6>1 DEF InAt
        <5> QED
          BY <1>11, <1>12, <5>1, <5>2, <5>3
      <4> QED
        BY <1>11, <4>1, <4>2
    <3> QED
      BY <1>2, <1>3, <2>1, <3>1 DEF GotAt, HasStream
  <2>2. CASE q # p
    BY <1>2, <1>10, <2>2 DEF BytesInv, GotAt, HasStream
  <2> QED
    BY <2>1, <2>2
<1>18. ASSUME NEW g \in Handles PROVE InAt(g)'
  <2>1. CASE g = h
    <3>1. DOMAIN sock'[h].in = 1 .. (Len(sock[h].in) - n)
      <4>1. sock'[h].in \in Seq(Nat)
        BY <1>7 DEF SockShape, SocketStates
      <4> QED
        BY <1>7, <4>1, LenProperties
    <3>2. ASSUME NEW i \in DOMAIN sock'[h].in PROVE sock'[h].in[i] = Read(h)' + i
      <4>1. i \in 1 .. (l - n) /\ DOMAIN sock[h].in = 1 .. l
        BY <1>4, <1>6, <3>1
      <4>2. i \in Nat /\ n + i \in 1 .. l
        BY <1>5, <4>1
      <4>3. i \in Nat /\ n + i \in DOMAIN sock[h].in /\ sock'[h].in[i] = sock[h].in[n + i]
        BY <1>6, <1>7, <4>1, <4>2
      <4>4. sock[h].in[n + i] = Read(h) + (n + i)
        BY <1>15, <4>3 DEF InAt
      <4> QED
        <5>1. Read(h) \in Nat
          BY <1>11, <1>12
        <5>2. Read(h) + (n + i) = (Read(h) + n) + i
          BY <1>5, <4>3, <5>1
        <5> QED
          BY <1>12, <4>3, <4>4, <5>2
    <3>3. ASSUME NEW f \in Handles, f = sock[h].peer
          PROVE  Read(h)' + Len(sock'[h].in) = Sent(f)'
      <4>1. Read(h) + Len(sock[h].in) = Sent(f)
        BY <1>15, <3>3 DEF InAt
      <4>2. Sent(f)' = Sent(f)
        BY <1>14, <3>3
      <4> QED
        <5>1. Read(h) \in Nat /\ Len(sock'[h].in) = l - n /\ Read(h) + l = Sent(f)
          BY <1>6, <1>7, <1>11, <1>12, <4>1
        <5>2. (Read(h) + n) + (l - n) = Read(h) + l
          BY <1>5, <5>1
        <5> QED
          BY <1>12, <4>2, <5>1, <5>2
    <3> QED
      BY <1>7, <1>15, <2>1, <3>2, <3>3 DEF InAt
  <2>2. CASE g # h
    <3>1. InAt(g) /\ sock'[g] = sock[g] /\ Read(g)' = Read(g)
      BY <1>7, <1>13, <2>2 DEF BytesInv
    <3>2. sock[g].peer \in Handles => \E q \in Handles : q = sock[g].peer /\ Sent(q)' = Sent(q)
      BY <1>14
    <3> QED
      BY <3>1, <3>2 DEF InAt
  <2> QED
    BY <2>1, <2>2
<1>19. ASSUME NEW k \in DOMAIN queue' PROVE EarlyAt(k)'
  <2>1. EarlyAt(k) /\ queue' = queue
    BY <1>7 DEF BytesInv
  <2>2. queue[k].from # Gone => \E q \in Handles : q = queue[k].from /\ Sent(q)' = Sent(q)
    <3>1. \A f \in Handles : Sent(f)' = Sent(f)
      BY <1>12, <1>13
    <3>2. queue[k].from \in Handles \cup {Gone}
      BY <1>3, <2>1, Fields
    <3> QED
      BY <3>1, <3>2
  <2> QED
    BY <2>1, <2>2 DEF EarlyAt
<1> QED
  BY <1>16, <1>17, <1>18, <1>19 DEF BytesInv

\* The bytes that a write gives follow those that it and the calls before it
\* have given.
LEMMA WriteSomeBytes ==
    ASSUME OwnInv, OwnInv', WithinInv, KindInv, BytesInv, NEW p \in Procs, WriteSome(p)
    PROVE  KindInv' /\ BytesInv'
<1>1. PICK h \in Handles : h = Handle(p)
  BY InStream DEF WriteSome, In, StreamCalls
<1> DEFINE n == Lesser(Wanted(p), Space(h))
<1> DEFINE data == Buffer(p, call[p].position, n)
<1>2. /\ call[p].pc = "write" /\ Connected(h) /\ Space(h) > 0 /\ SendBytes(h, data) /\ Advance(p, n)
      /\ written' = [written EXCEPT ![p] = IF n = Wanted(p) THEN @ + call[p].size ELSE @]
      /\ UNCHANGED <<connector, listener, stream, local, got, leaked>>
  BY <1>1 DEF WriteSome, In
<1>3. /\ SockShape /\ EndsInv /\ ThreadShape /\ HasStream(p) /\ HasStream(p)'
      /\ stream[p].handle = h /\ stream'[p].handle = h
  BY <1>1, <1>2, HandleRange DEF HasStream, StreamCalls, OwnInv, ProcInv, ProcAt, Handle
<1>4. Space(h) \in Nat /\ written[p] \in Nat /\ call[p].position \in Nat /\ call[p].size \in Nat
  BY <1>2, <1>3, SpaceType, CallFields DEF ThreadShape
<1>5. n \in Nat /\ n <= Wanted(p)
  BY <1>3, <1>4, WantedType DEF WithinInv, Within
<1>6. /\ data \in Seq(Nat) /\ Len(data) = n
      /\ \A i \in 1 .. n : data[i] = written[p] + call[p].position + i
  <2>1. ASSUME NEW k \in Nat, NEW m \in Nat, written[p] \in Nat
        PROVE  /\ Buffer(p, k, m) \in Seq(Nat) /\ Len(Buffer(p, k, m)) = m
               /\ \A i \in 1 .. m : Buffer(p, k, m)[i] = written[p] + k + i
    BY <2>1, BufferType
  <2> HIDE DEF n
  <2> QED
    BY <1>4, <1>5, <2>1
<1> HIDE DEF n, data
<1>7. /\ \A g \in Handles : /\ sock'[g].kind = sock[g].kind /\ sock'[g].peer = sock[g].peer
                            /\ sock'[g].in = IF g = sock[h].peer THEN sock[g].in \o data ELSE sock[g].in
      /\ DOMAIN queue' = DOMAIN queue
      /\ \A i \in DOMAIN queue : /\ queue'[i].from = queue[i].from
                                 /\ queue'[i].early = IF queue[i].from = h THEN queue[i].early \o data
                                                      ELSE queue[i].early
  BY <1>2, <1>3, <1>6, SendEffect
<1>8. /\ \A q \in Procs \ {p} : call'[q] = call[q]
      /\ \/ n = Wanted(p) /\ call'[p].pc = "idle"
         \/ n # Wanted(p) /\ call'[p].pc = "write" /\ call'[p].position = call[p].position + n
  BY <1>2, <1>3, <1>5, AdvanceEffect
<1>9. /\ written'[p] = IF n = Wanted(p) THEN written[p] + call[p].size ELSE written[p]
      /\ \A q \in Procs \ {p} : written'[q] = written[q]
  BY <1>2, <1>3 DEF ThreadShape
<1>10. Taken(p) = written[p] + call[p].position /\ Taken(p)' = Taken(p) + n
  <2>1. Taken(p) = written[p] + call[p].position
    BY <1>2 DEF Taken
  <2>2. CASE n = Wanted(p)
    <3>1. Taken(p)' = written[p] + call[p].size
      <4>1. call'[p].pc = "idle" /\ written'[p] = written[p] + call[p].size
        BY <1>8, <1>9, <2>2
      <4> QED
        BY <1>4, <4>1 DEF Taken
    <3>2. n = call[p].size - call[p].position
      BY <2>2 DEF Wanted
    <3> QED
      BY <1>4, <1>5, <2>1, <3>1, <3>2
  <2>3. CASE n # Wanted(p)
    <3>1. Taken(p)' = written[p] + (call[p].position + n)
      BY <1>8, <1>9, <2>3 DEF Taken
    <3> QED
      BY <1>4, <1>5, <2>1, <3>1
  <2> QED
    BY <2>1, <2>2, <2>3
<1>11. /\ Sent(h) = Taken(p) /\ Sent(h)' = Sent(h) + n /\ Sent(h) \in Nat
       /\ Read(h)' = Read(h)
  <2>1. /\ Sent(h) = Taken(p) /\ Read(h) = Len(got[p])
        /\ Sent(h)' = Taken(p)' /\ Read(h)' = Len(got'[p])
    BY <1>3, SentAt, SentAtNext DEF SentFacts
  <2> QED
    BY <1>2, <1>4, <1>10, <2>1
<1>12. \A g \in Handles \ {h} : Sent(g)' = Sent(g) /\ Read(g)' = Read(g)
  <2>1. \A q \in Procs \ {p} : Taken(q)' = Taken(q)
    BY <1>8, <1>9 DEF Taken
  <2> QED
    BY <1>2, <1>3, <2>1, SentStays
<1>13. \A i \in 1 .. n : data[i] = Sent(h) + i
  BY <1>6, <1>10, <1>11
<1>14. ASSUME NEW s \in Seq(Nat), NEW m \in Nat, m + Len(s) = Sent(h),
              \A i \in DOMAIN s : s[i] = m + i
       PROVE  /\ \A i \in DOMAIN (s \o data) : (s \o data)[i] = m + i
              /\ m + Len(s \o data) = Sent(h)'
  <2>1. /\ Len(s \o data) = Len(s) + n /\ DOMAIN (s \o data) = 1 .. (Len(s) + n)
        /\ Len(s) \in Nat /\ DOMAIN s = 1 .. Len(s)
        /\ \A i \in 1 .. Len(s) : (s \o data)[i] = s[i]
        /\ \A i \in 1 .. n : (s \o data)[Len(s) + i] = data[i]
    BY <1>6, Appended
  <2>2. PICK k \in Nat : k = Len(s)
    BY <2>1
  <2>3. ASSUME NEW i \in 1 .. (k + n) PROVE (s \o data)[i] = m + i
    <3>1. CASE i <= k
      <4>1. i \in 1 .. k
        BY <3>1
      <4> QED
        BY <1>14, <2>1, <2>2, <4>1
    <3>2. CASE i > k
      <4>1. PICK j \in 1 .. n : i = k + j
        <5>1. i - k \in 1 .. n /\ i = k + (i - k)
          BY <1>5, <3>2
        <5> QED
          BY <5>1
      <4>2. (s \o data)[i] = Sent(h) + j
        BY <1>13, <2>1, <2>2, <4>1
      <4>3. (m + k) + j = m + (k + j)
        BY <4>1
      <4> QED
        BY <1>14, <2>2, <4>1, <4>2, <4>3
    <3>3. i \in Nat
      BY <1>5, <2>2
    <3>4. i <= k \/ i > k
      BY <2>2, <3>3
    <3> QED
      BY <3>1, <3>2, <3>4
  <2>4. m + (k + n) = (m + k) + n
    BY <1>5
  <2> QED
    BY <1>11, <1>14, <2>1, <2>2, <2>3, <2>4
<1>15. KindInv'
  <2>1. sock[h].peer \in Handles => sock[sock[h].peer].kind = "connected"
    <3>1. sock[h].peer \in Handles => sock[sock[h].peer].peer # Gone
      BY <1>3, HandleRange DEF EndsInv
    <3> QED
      BY <1>3, <3>1 DEF EndsInv
  <2>2. KindsStay
    BY <1>7, <2>1 DEF KindsStay, Joined
  <2> QED
    BY <1>2, <2>2, KindKeeps
<1>16. \A q \in Procs : GotAt(q)'
  <2>1. \A q \in Procs \ {p} : GotAt(q)'
    BY <1>2, <1>9 DEF BytesInv, GotAt, HasStream
  <2>2. GotAt(p)'
    BY <1>2, <1>3 DEF BytesInv, GotAt
  <2> QED
    BY <2>1, <2>2
<1>17. ASSUME NEW g \in Handles PROVE InAt(g)'
  <2>1. InAt(g) /\ Read(g)' = Read(g) /\ sock'[g].peer = sock[g].peer /\ sock[g].in \in Seq(Nat)
    BY <1>3, <1>7, <1>11, <1>12, Fields DEF BytesInv
  <2>2. CASE g = sock[h].peer
    <3>1. sock[g].peer = h /\ sock'[g].in = sock[g].in \o data
      BY <1>3, <1>7, <2>2 DEF EndsInv
    <3>2. Read(g) \in Nat
      <4>1. \A q \in Procs : Len(got[q]) \in Nat
        BY <1>3, LenProperties DEF ThreadShape
      <4>2. CASE \E q \in Procs : stream[q].handle = g
        <5>1. PICK q \in Procs : stream[q].handle = g
          BY <4>2
        <5>2. HasStream(q)
          BY <5>1, HandleRange DEF HasStream
        <5> QED
          BY <4>1, <5>1, <5>2, SentAt DEF SentFacts
      <4>3. CASE \A q \in Procs : stream[q].handle # g
        BY <4>3, SentAt DEF SentFacts
      <4> QED
        BY <4>2, <4>3
    <3>3. Read(g) + Len(sock[g].in) = Sent(h) /\ \A i \in DOMAIN sock[g].in : sock[g].in[i] = Read(g) + i
      BY <2>1, <3>1 DEF InAt
    <3>4. /\ \A i \in DOMAIN (sock[g].in \o data) : (sock[g].in \o data)[i] = Read(g) + i
          /\ Read(g) + Len(sock[g].in \o data) = Sent(h)'
      BY <1>14, <2>1, <3>2, <3>3
    <3> QED
      BY <2>1, <3>1, <3>4, HandleRange DEF InAt
  <2>3. CASE g # sock[h].peer
    <3>1. sock'[g].in = sock[g].in /\ sock[g].peer # h
      BY <1>3, <1>7, <2>3 DEF EndsInv
    <3>2. sock[g].peer \in Handles => \E q \in Handles : q = sock[g].peer /\ Sent(q)' = Sent(q)
      BY <1>12, <3>1
    <3> QED
      BY <2>1, <3>1, <3>2 DEF InAt
  <2> QED
    BY <2>2, <2>3
<1>18. ASSUME NEW k \in DOMAIN queue' PROVE EarlyAt(k)'
  <2>1. /\ k \in DOMAIN queue /\ EarlyAt(k) /\ queue[k].early \in Seq(Nat)
        /\ queue[k].from \in Handles \cup {Gone} /\ queue'[k].from = queue[k].from
    BY <1>3, <1>7, Fields DEF BytesInv
  <2>2. CASE queue[k].from = h
    <3>1. h # Gone /\ queue'[k].early = queue[k].early \o data
      BY <1>7, <2>1, <2>2, HandleRange
    <3>2. \A i \in DOMAIN queue[k].early : queue[k].early[i] = 0 + i
      <4>1. DOMAIN queue[k].early \subseteq Nat
        BY <2>1, LenProperties
      <4> QED
        BY <2>1, <4>1 DEF EarlyAt
    <3>3. 0 + Len(queue[k].early) = Sent(h)
      BY <2>1, <2>2, <3>1, LenProperties DEF EarlyAt
    <3>4. /\ \A i \in DOMAIN (queue[k].early \o data) : (queue[k].early \o data)[i] = 0 + i
          /\ 0 + Len(queue[k].early \o data) = Sent(h)'
      BY <1>14, <2>1, <3>2, <3>3
    <3>5. queue[k].early \o data \in Seq(Nat)
      BY <1>6, <2>1, Appended
    <3>6. /\ DOMAIN (queue[k].early \o data) \subseteq Nat /\ Len(queue[k].early \o data) \in Nat
      BY <3>5, LenProperties
    <3> QED
      BY <2>1, <2>2, <3>1, <3>4, <3>6 DEF EarlyAt
  <2>3. CASE queue[k].from # h
    <3>1. queue'[k].early = queue[k].early
      BY <1>7, <2>1, <2>3
    <3>2. queue[k].from # Gone => \E q \in Handles : q = queue[k].from /\ Sent(q)' = Sent(q)
      BY <1>12, <2>1, <2>3
    <3> QED
      BY <2>1, <3>1, <3>2 DEF EarlyAt
  <2> QED
    BY <2>2, <2>3
<1> QED
  BY <1>15, <1>16, <1>17, <1>18 DEF BytesInv

-----------------------------------------------------------------------------
LEMMA BytesKeep == ASSUME OwnInv, OwnInv', WithinInv, KindInv, BytesInv, Next PROVE KindInv' /\ BytesInv'
<1>1. ASSUME NEW p \in Procs, Begin(p) \/ CreateFails(p) PROVE KindInv' /\ BytesInv'
  BY <1>1, CreateBytes, DestroyStreamBytes, CalmBytes DEF Begin
<1>2. ASSUME NEW p \in Procs, StreamStep(p) \/ WaitThrows(p) PROVE KindInv' /\ BytesInv'
  BY <1>2, ReadSomeBytes, WriteSomeBytes, WriteIsLostBytes, CalmBytes DEF StreamStep
<1>3. ASSUME NEW c \in Clients,
             DestroyConnector(c) \/ ConnectorWait(c) \/ ConnectorWaitThrows(c) \/ ClientStep(c)
      PROVE  KindInv' /\ BytesInv'
  BY <1>3, ConnectorBytes, GetsStreamBytes DEF ClientStep
<1>4. ASSUME ListenerCheck \/ DestroyListener \/ ServerStep PROVE KindInv' /\ BytesInv'
  BY <1>4, ListenerBytes, CheckAcceptsBytes, GetsStreamBytes DEF ServerStep
<1> QED
  BY <1>1, <1>2, <1>3, <1>4, NetworkBytes DEF Next

LEMMA BytesStutter ==
    ASSUME OwnInv, OwnInv', KindInv, BytesInv, UNCHANGED vars PROVE KindInv' /\ BytesInv'
<1>1. UNCHANGED <<sock, queue, listener, stream, call, written, got>>
  BY DEF vars
<1>2. AllStay /\ \A q \in Procs : Taken(q)' = Taken(q)
  BY <1>1, SameStays DEF Taken
<1>3. Server \in Procs
  BY DEF Procs
<1> QED
  BY <1>1, <1>2, <1>3, QuietBytes

LEMMA BytesStart == ASSUME Init PROVE KindInv /\ BytesInv
<1>1. /\ \A h \in Handles : /\ sock[h].kind = "free" /\ sock[h].peer = Gone /\ sock[h].in = <<>>
      /\ DOMAIN queue = {}
  BY NewSocket, EmptySeq DEF Init, SocketsInit, Kinds
<1>2. /\ \A p \in Procs : ~HasStream(p) /\ written[p] = 0 /\ got[p] = <<>>
      /\ listener.nextHandle = NoHandle
  BY DEF Init, NoStream, HasStream
<1>3. KindInv
  BY <1>1, <1>2 DEF KindInv
<1>4. BytesInv
  <2>1. ASSUME NEW p \in Procs PROVE GotAt(p)
    BY <1>2, EmptySeq DEF GotAt
  <2>2. ASSUME NEW h \in Handles PROVE InAt(h)
    <3>1. sock[h].peer = Gone /\ sock[h].in = <<>>
      BY <1>1
    <3>2. DOMAIN sock[h].in = {}
      BY <3>1
    <3>3. sock[h].peer \notin Handles /\ sock[h].peer # Pending
      BY <3>1, HandleRange
    <3> QED
      BY <3>2, <3>3 DEF InAt
  <2> QED
    BY <1>1, <2>1, <2>2 DEF BytesInv
<1> QED
  BY <1>3, <1>4

LEMMA TCPInvAlways == Spec => []TCPInv
<1>1. Init => TCPInv
  BY OwnStarts, BytesStart DEF TCPInv
<1>2. TCPInv /\ [Next]_vars => TCPInv'
  <2>1. ASSUME TCPInv, [Next]_vars PROVE OwnInv' /\ WithinInv'
    BY <2>1, OwnKeeps, WithinKeeps, OwnStutters DEF TCPInv
  <2>2. ASSUME TCPInv, [Next]_vars PROVE KindInv' /\ BytesInv'
    BY <2>1, <2>2, BytesKeep, BytesStutter DEF TCPInv
  <2> QED
    BY <2>1, <2>2 DEF TCPInv
<1> QED
  BY <1>1, <1>2, PTL DEF Spec

\* Whatever each read and write takes, and whatever the network does with them,
\* the bytes that a stream has read are those that were written to the other
\* end, each once and in their order (sync_stream.loci:24 and 52).
THEOREM BytesArriveInOrder == Spec => []BytesInOrder
<1>1. TCPInv => BytesInOrder
  BY DEF TCPInv, BytesInv, GotAt, BytesInOrder
<1> QED
  BY <1>1, TCPInvAlways, PTL
=============================================================================
