--------------------------- MODULE CircularQueue ----------------------------
(***************************************************************************)
(* std::circular_queue: a queue in an array of fixed size.  Two positions  *)
(* go round the array; a bit next to each is flipped when its position     *)
(* goes back to the start, and tells a full queue from an empty one.       *)
(* Assertions of the code are guards here: they are what a caller must not *)
(* do.  clear() is taken one element at a time, and so is the clear() that *)
(* __destroy makes.  A range may be walked while the queue changes, as     *)
(* long as nothing it still has to give is popped.                         *)
(***************************************************************************)
EXTENDS Integers, Sequences

CONSTANTS
    Value,
    Raw,        \* a slot that holds no value
    Sizes       \* what create is called with

\* create() takes any size; a queue of capacity zero is never full, and a push
\* writes past its array.
ASSUME SizesAssumption == Sizes \subseteq Nat \ {0}
ASSUME RawAssumption == Raw \notin Value

VARIABLES
    data,       \* the slots, a function with an empty domain when released
    capacity,
    read_pos, write_pos,
    read_pos_msb, write_pos_msb,
    doing,      \* "use", "clear" or "destroy"; "none" without an array
    range       \* the range being walked: position, size, and the values due

positions == <<read_pos, write_pos, read_pos_msb, write_pos_msb>>
queueVars == <<data, capacity, read_pos, write_pos, read_pos_msb, write_pos_msb,
               doing, range>>

NoRange == [position |-> 0, size |-> 0, due |-> <<>>]

-----------------------------------------------------------------------------

empty == read_pos = write_pos /\ read_pos_msb = write_pos_msb
full  == read_pos = write_pos /\ read_pos_msb # write_pos_msb

size ==
    IF read_pos < write_pos THEN write_pos - read_pos
    ELSE IF read_pos > write_pos THEN capacity - (read_pos - write_pos)
    ELSE IF full THEN capacity ELSE 0

contiguous_data_length ==
    IF read_pos < write_pos THEN write_pos - read_pos
    ELSE IF read_pos > write_pos THEN capacity - read_pos
    ELSE IF full THEN capacity - read_pos ELSE 0

contiguous_space_length ==
    IF write_pos < read_pos THEN read_pos - write_pos
    ELSE IF write_pos > read_pos THEN capacity - write_pos
    ELSE IF empty THEN capacity - write_pos ELSE 0

\* The slot that index(i) refers to.
index(i) ==
    IF i >= contiguous_data_length THEN i - contiguous_data_length ELSE read_pos + i

\* A position after p, and its bit: the increment of push_back and pop_front.
Advance(p)     == IF p + 1 = capacity THEN 0 ELSE p + 1
Flip(p, msb)   == IF p + 1 = capacity THEN ~msb ELSE msb

-----------------------------------------------------------------------------

QueueInit ==
    /\ data = <<>> /\ capacity = 0
    /\ read_pos = 0 /\ write_pos = 0
    /\ read_pos_msb = FALSE /\ write_pos_msb = FALSE
    /\ doing = "none" /\ range = NoRange

create(n) ==
    /\ doing = "none"
    /\ data' = [i \in 0..(n - 1) |-> Raw] /\ capacity' = n
    /\ read_pos' = 0 /\ write_pos' = 0
    /\ read_pos_msb' = FALSE /\ write_pos_msb' = FALSE
    /\ doing' = "use"
    /\ UNCHANGED range

push_back(v) ==
    /\ doing = "use" /\ ~full
    /\ data' = [data EXCEPT ![write_pos] = v]
    /\ write_pos' = Advance(write_pos)
    /\ write_pos_msb' = Flip(write_pos, write_pos_msb)
    /\ UNCHANGED <<capacity, read_pos, read_pos_msb, doing, range>>

\* Mutant: the bit stays when the position goes back to the start.
pop_front_keeps_msb ==
    /\ ~empty
    /\ data' = [data EXCEPT ![read_pos] = Raw]
    /\ read_pos' = Advance(read_pos)
    /\ UNCHANGED <<capacity, write_pos, read_pos_msb, write_pos_msb, doing>>

pop_front ==
    /\ ~empty
    /\ data' = [data EXCEPT ![read_pos] = Raw]
    /\ read_pos' = Advance(read_pos)
    /\ read_pos_msb' = Flip(read_pos, read_pos_msb)
    /\ UNCHANGED <<capacity, write_pos, write_pos_msb, doing>>

\* The caller's pop_front: not of a value that the range still has to give.
Pop ==
    /\ doing = "use"
    /\ range.size > 0 => range.position # read_pos
    /\ pop_front
    /\ UNCHANGED range

\* clear() and __destroy() end a walk.
StartClear ==
    /\ doing = "use"
    /\ doing' \in {"clear", "destroy"}
    /\ range' = NoRange
    /\ UNCHANGED <<data, capacity, positions>>

ClearStep ==
    /\ doing \in {"clear", "destroy"}
    /\ pop_front
    /\ UNCHANGED range

ClearDone ==
    /\ doing = "clear" /\ empty
    /\ doing' = "use"
    /\ UNCHANGED <<data, capacity, positions, range>>

\* release() takes back the array whatever its slots hold.
release ==
    /\ doing = "destroy" /\ empty
    /\ data' = <<>> /\ doing' = "none"
    /\ UNCHANGED <<capacity, positions, range>>

all ==
    /\ doing = "use"
    /\ range' = [position |-> read_pos, size |-> size,
                 due |-> [i \in 1..size |-> data[index(i - 1)]]]
    /\ UNCHANGED <<data, capacity, positions, doing>>

\* Mutant: the position of a range is not wrapped.
skip_front_unwrapped ==
    /\ doing = "use" /\ range.size > 0
    /\ range' = [position |-> IF range.position = capacity THEN 0 ELSE range.position + 1,
                 size |-> range.size - 1,
                 due |-> Tail(range.due)]
    /\ UNCHANGED <<data, capacity, positions, doing>>

skip_front ==
    /\ doing = "use" /\ range.size > 0
    /\ range' = [position |-> IF range.position + 1 = capacity THEN 0 ELSE range.position + 1,
                 size |-> range.size - 1,
                 due |-> Tail(range.due)]
    /\ UNCHANGED <<data, capacity, positions, doing>>

Clearing == ClearStep \/ ClearDone \/ release

QueueNext ==
    \/ \E n \in Sizes : create(n)
    \/ \E v \in Value : push_back(v)
    \/ Pop \/ StartClear \/ Clearing
    \/ all \/ skip_front

\* A call of clear() or of the destructor goes on.
QueueSpec == QueueInit /\ [][QueueNext]_queueVars /\ WF_queueVars(Clearing)

-----------------------------------------------------------------------------

QueueTypeOK ==
    /\ capacity \in Sizes \cup {0}
    /\ data \in [0..(capacity - 1) -> Value \cup {Raw}] \cup {<<>>}
    /\ read_pos \in 0..capacity /\ write_pos \in 0..capacity
    /\ read_pos_msb \in BOOLEAN /\ write_pos_msb \in BOOLEAN
    /\ doing \in {"none", "use", "clear", "destroy"}

\* The values in the queue, as index() finds them.
contents == [i \in 1..size |-> data[index(i - 1)]]

\* A slot holds a value exactly when index() of some element refers to it,
\* and no two elements share one: nothing is constructed over a value, no
\* value is destroyed twice, and release() loses none (circular_queue.loci,
\* push_back, pop_front, __destroy).
SlotsAgree ==
    /\ \A i \in DOMAIN data :
          data[i] # Raw <=> \E k \in 0..(size - 1) : index(k) = i
    /\ \A k, l \in 0..(size - 1) : index(k) = index(l) => k = l
    /\ doing = "none" => size = 0

\* The two blocks that a caller may copy from or into: the first data block
\* holds the oldest values, the first space block only raw slots
\* (circular_queue.loci, contiguous_data_length, contiguous_space_length).
BlocksAgree ==
    doing # "none" =>
        /\ \A k \in 0..(contiguous_data_length - 1) :
              k < size /\ data[read_pos + k] = contents[k + 1]
        /\ \A k \in 0..(contiguous_space_length - 1) : data[write_pos + k] = Raw
        /\ ~empty => contiguous_data_length > 0
        /\ ~full => contiguous_space_length > 0

\* A range gives the values the queue had when all() was called, whatever is
\* pushed or popped behind it (circular_queue.loci, circular_queue_range).
RangeGivesWhatWasThere ==
    /\ Len(range.due) = range.size
    /\ \A i \in 1..range.size : data[(range.position + i - 1) % capacity] = range.due[i]

\* The queue is a sequence: push_back and pop_front work at its two ends,
\* and there is room for as many values as create was called with.
Sequence == INSTANCE Deque WITH
    Rooms <- Sizes \cup {0}, room <- capacity
ImplementsSequence == Sequence!Spec

\* clear() and the destructor come to an end.
ClearEnds == [](doing \in {"clear", "destroy"} => <>(doing \in {"use", "none"}))
=============================================================================
