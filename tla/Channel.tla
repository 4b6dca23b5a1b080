------------------------------ MODULE Channel ------------------------------
(***************************************************************************)
(* What a message queue promises to its users: messages taken in the order *)
(* in which they were sent, each exactly once, and none left unread while  *)
(* the receiver keeps receiving.  Nothing is said of locks or events.      *)
(***************************************************************************)
EXTENDS Sequences

CONSTANT Messages

VARIABLES
    queue,      \* sent and not yet received, oldest first
    received    \* everything received so far, oldest first

channelVars == <<queue, received>>

Init == queue = <<>> /\ received = <<>>

Send(m) ==
    /\ queue' = Append(queue, m)
    /\ UNCHANGED received

Receive ==
    /\ queue # <<>>
    /\ received' = Append(received, Head(queue))
    /\ queue' = Tail(queue)

Next == Receive \/ \E m \in Messages : Send(m)

SafeSpec == Init /\ [][Next]_channelVars
Spec     == SafeSpec /\ WF_channelVars(Receive)
=============================================================================
