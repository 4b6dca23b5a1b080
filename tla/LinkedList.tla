----------------------------- MODULE LinkedList -----------------------------
(***************************************************************************)
(* std::list: a doubly linked list of nodes from the heap, and its ranges, *)
(* which are walked from either end.  A push that finds no memory throws   *)
(* and changes nothing.  clear() and __destroy free the nodes from the     *)
(* first one on; __destroy is called on a list that is not empty only,     *)
(* since __islive says that an empty list is dead.                         *)
(***************************************************************************)
EXTENDS Integers, Sequences, FiniteSets

CONSTANTS Value, Node, Null

VARIABLES
    heap,           \* the nodes allocated: previous, next, value
    begin, end,
    size,
    range           \* the range being walked: begin, end, and the values due

listVars == <<heap, begin, end, size, range>>

NoRange == [begin |-> Null, end |-> Null, due |-> <<>>]
empty == size = 0

\* The node k steps after the first one, and k steps before the last one.
Forward[k \in 0..Cardinality(Node)] ==
    IF k = 0 THEN begin
    ELSE IF Forward[k - 1] = Null THEN Null ELSE heap[Forward[k - 1]].next
Backward[k \in 0..Cardinality(Node)] ==
    IF k = 0 THEN end
    ELSE IF Backward[k - 1] = Null THEN Null ELSE heap[Backward[k - 1]].previous

\* The values in the order of the next pointers.
contents == [i \in 1..size |-> heap[Forward[i - 1]].value]

-----------------------------------------------------------------------------

ListInit ==
    /\ heap = <<>> /\ begin = Null /\ end = Null /\ size = 0
    /\ range = NoRange

\* new_raw: the heap with a node for v.
WithNode(h, n, p, q, v) ==
    [m \in DOMAIN h \cup {n} |->
        IF m = n THEN [previous |-> p, next |-> q, value |-> v] ELSE h[m]]

\* delete_raw
Without(h, n) == [m \in DOMAIN h \ {n} |-> h[m]]

push_front(v) == \E n \in Node \ DOMAIN heap :
    LET h == WithNode(heap, n, Null, begin, v) IN
    /\ IF empty THEN heap' = h /\ end' = n
                ELSE heap' = [h EXCEPT ![begin].previous = n] /\ UNCHANGED end
    /\ begin' = n
    /\ size' = size + 1
    /\ UNCHANGED range

push_back(v) == \E n \in Node \ DOMAIN heap :
    LET h == WithNode(heap, n, end, Null, v) IN
    /\ IF empty THEN heap' = h /\ begin' = n
                ELSE heap' = [h EXCEPT ![end].next = n] /\ UNCHANGED begin
    /\ end' = n
    /\ size' = size + 1
    /\ UNCHANGED range

\* A caller does not free a node that the range may still reach.
InRange(n) == range.begin # Null /\
    \E j, k \in 0..(size - 1), i \in 0..(size - 1) :
        j <= i /\ i <= k /\ Forward[j] = range.begin /\ Forward[k] = range.end /\ Forward[i] = n

pop_front ==
    /\ ~empty /\ ~InRange(begin)
    /\ LET newBegin == heap[begin].next
           h        == Without(heap, begin)
       IN  /\ begin' = newBegin
           /\ IF newBegin = Null THEN heap' = h /\ end' = Null
              ELSE heap' = [h EXCEPT ![newBegin].previous = Null] /\ UNCHANGED end
    /\ size' = size - 1
    /\ UNCHANGED range

\* Mutant: the new last node still points to the old one.
pop_back_keeps_next ==
    /\ ~empty /\ ~InRange(end)
    /\ LET newEnd == heap[end].previous
       IN  /\ end' = newEnd
           /\ heap' = Without(heap, end)
           /\ begin' = IF newEnd = Null THEN Null ELSE begin
    /\ size' = size - 1
    /\ UNCHANGED range

pop_back ==
    /\ ~empty /\ ~InRange(end)
    /\ LET newEnd == heap[end].previous
           h      == Without(heap, end)
       IN  /\ end' = newEnd
           /\ IF newEnd = Null THEN heap' = h /\ begin' = Null
              ELSE heap' = [h EXCEPT ![newEnd].next = Null] /\ UNCHANGED begin
    /\ size' = size - 1
    /\ UNCHANGED range

\* The nodes that the loop of clear() and __destroy() frees.
Freed == {Forward[k] : k \in 0..Cardinality(Node)} \ {Null}

\* clear(), or __destroy() and a new list in its place.
clear ==
    /\ heap' = [n \in DOMAIN heap \ Freed |-> heap[n]]
    /\ begin' = Null /\ end' = Null /\ size' = 0
    /\ range' = NoRange

all == range' = [begin |-> begin, end |-> end, due |-> contents]
       /\ UNCHANGED <<heap, begin, end, size>>

skip_front ==
    /\ range.begin # Null
    /\ range' = IF range.begin = range.end THEN NoRange
                ELSE [range EXCEPT !.begin = heap[range.begin].next, !.due = Tail(@)]
    /\ UNCHANGED <<heap, begin, end, size>>

skip_back ==
    /\ range.begin # Null
    /\ range' = IF range.begin = range.end THEN NoRange
                ELSE [range EXCEPT !.end = heap[range.end].previous,
                                   !.due = SubSeq(@, 1, Len(@) - 1)]
    /\ UNCHANGED <<heap, begin, end, size>>

ListNext ==
    \/ \E v \in Value : push_front(v) \/ push_back(v)
    \/ pop_front \/ pop_back \/ clear
    \/ all \/ skip_front \/ skip_back

ListSpec == ListInit /\ [][ListNext]_listVars

-----------------------------------------------------------------------------

\* The two directions agree, end where the list ends, and reach every node
\* that is allocated: a pop frees exactly one, and none is left to nobody
\* (list.loci, push_front, push_back, pop_front, pop_back, clear).
LinksAgree ==
    /\ Forward[size] = Null /\ Backward[size] = Null
    /\ \A k \in 0..(size - 1) : Forward[k] # Null /\ Forward[k] = Backward[size - 1 - k]
    /\ DOMAIN heap = {Forward[k] : k \in 0..(size - 1)}

\* A range shows at both ends what it is due, while others push at the ends
\* of the list and pop what it has passed (list.loci, list_range).
RangeEndsAgree ==
    /\ range.begin = Null <=> range.due = <<>>
    /\ range.begin # Null =>
          /\ heap[range.begin].value = Head(range.due)
          /\ heap[range.end].value = range.due[Len(range.due)]

\* The list is a sequence that grows and shrinks at both ends.
Sequence == INSTANCE Deque WITH
    Rooms <- {Cardinality(Node)}, room <- Cardinality(Node)
ImplementsSequence == Sequence!Spec
=============================================================================
