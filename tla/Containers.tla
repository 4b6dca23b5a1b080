----------------------------- MODULE Containers -----------------------------
(***************************************************************************)
(* The containers of std.container side by side.  They share nothing: a    *)
(* behaviour uses one of them, and the others stay as they were made.      *)
(***************************************************************************)
EXTENDS CircularQueue, FiniteSets

CONSTANTS Node, Null, MaxSize, Key

ASSUME ContainersAssumption ==
    /\ IsFiniteSet(Node) /\ Null \notin Node
    /\ MaxSize \in Nat /\ Key \subseteq Int

VARIABLES
    using,                                      \* "queue", "list", "array" or "map"
    heap, list_begin, list_end, list_size, list_range,
    array_data, array_capacity, array_size, array_failed,
    pairs

listState  == <<heap, list_begin, list_end, list_size, list_range>>
arrayState == <<array_data, array_capacity, array_size, array_failed>>
containerVars == <<queueVars, using, listState, arrayState, pairs>>

List == INSTANCE LinkedList WITH
    begin <- list_begin, end <- list_end, size <- list_size, range <- list_range
Array == INSTANCE VArray WITH
    data <- array_data, capacity <- array_capacity, size <- array_size,
    failed <- array_failed
Map == INSTANCE SortedMap WITH array <- pairs

ContainersInit ==
    /\ using \in {"queue", "list", "array", "map"}
    /\ QueueInit /\ List!ListInit /\ Array!ArrayInit /\ Map!MapInit

ContainersNext ==
    /\ UNCHANGED using
    /\ \/ using = "queue" /\ QueueNext /\ UNCHANGED <<listState, arrayState, pairs>>
       \/ using = "list" /\ List!ListNext /\ UNCHANGED <<queueVars, arrayState, pairs>>
       \/ using = "array" /\ Array!ArrayNext /\ UNCHANGED <<queueVars, listState, pairs>>
       \/ using = "map" /\ Map!MapNext /\ UNCHANGED <<queueVars, listState, arrayState>>

ContainersSpec ==
    ContainersInit /\ [][ContainersNext]_containerVars
    /\ WF_containerVars(Clearing /\ UNCHANGED <<using, listState, arrayState, pairs>>)

-----------------------------------------------------------------------------

\* What the containers hold agrees with how they hold it: the slots of the
\* two arrays, the links of the list and the order of the map (the property
\* of each is stated in its module).
HoldTheirValues ==
    SlotsAgree /\ List!LinksAgree /\ Array!SlotsAgree /\ Map!KeysInOrder

\* What callers hold on to agrees with the container while it changes: the
\* blocks and the range of a queue, the two ends of a range over a list.
ViewsAgree == BlocksAgree /\ RangeGivesWhatWasThere /\ List!RangeEndsAgree

\* Queue, list and array are sequences, and the map is a function, for
\* whoever uses them (circular_queue.loci, list.loci, varray.loci, map.loci).
ImplementTheirTypes ==
    /\ ImplementsSequence
    /\ List!ImplementsSequence
    /\ Array!ImplementsSequence
    /\ Map!ImplementsDictionary
=============================================================================
