------------------------------- MODULE Deque --------------------------------
(***************************************************************************)
(* What the sequence containers of std.container promise to their users: a *)
(* sequence of values, changed at its ends, with room for a number of them *)
(* that a container chooses when it is made.  Nothing is said of arrays,   *)
(* nodes or positions.                                                     *)
(***************************************************************************)
EXTENDS Integers, Sequences

CONSTANTS
    Value,
    Rooms       \* how many values a container may have room for

VARIABLES
    contents,   \* the values, front first
    room

dequeVars == <<contents, room>>

Init == contents = <<>> /\ room \in Rooms

Make == contents' = <<>> /\ room' \in Rooms

PushBack(v) ==
    /\ Len(contents) < room
    /\ contents' = Append(contents, v)
    /\ UNCHANGED room

PushFront(v) ==
    /\ Len(contents) < room
    /\ contents' = <<v>> \o contents
    /\ UNCHANGED room

PopFront ==
    /\ contents # <<>>
    /\ contents' = Tail(contents)
    /\ UNCHANGED room

PopBack ==
    /\ contents # <<>>
    /\ contents' = SubSeq(contents, 1, Len(contents) - 1)
    /\ UNCHANGED room

\* The first n values, and copies of v for those that are missing.
Resize(n, v) ==
    /\ n \in 0..room
    /\ contents' = [i \in 1..n |-> IF i <= Len(contents) THEN contents[i] ELSE v]
    /\ UNCHANGED room

Clear == contents' = <<>> /\ UNCHANGED room

Next ==
    \/ Make \/ Clear \/ PopFront \/ PopBack
    \/ \E v \in Value : PushBack(v) \/ PushFront(v) \/ \E n \in 0..room : Resize(n, v)

Spec == Init /\ [][Next]_dequeVars
=============================================================================
