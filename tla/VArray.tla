------------------------------- MODULE VArray -------------------------------
(***************************************************************************)
(* std::varray: an array that is moved to a larger one when it is full.    *)
(* A reservation that finds no memory throws and changes nothing.  The     *)
(* copies that resize() makes may throw: the slots already filled then     *)
(* keep their values while the size stays what it was (known in `failed`), *)
(* and nothing destroys them.                                              *)
(***************************************************************************)
EXTENDS Integers, Sequences

CONSTANTS
    Value,
    Raw,            \* a slot that holds no value
    MaxSize         \* bound on the size

VARIABLES
    data,           \* the slots; an empty domain is a null pointer
    capacity, size,
    failed          \* a copy in resize() has thrown

arrayVars == <<data, capacity, size, failed>>

ArrayInit == data = <<>> /\ capacity = 0 /\ size = 0 /\ failed = FALSE

\* The slots and the capacity after reserve(n) has found memory: only the
\* values below the size are moved.
Reserved(n) ==
    IF n <= capacity THEN data
    ELSE [i \in 0..(n - 1) |-> IF i < size THEN data[i] ELSE Raw]
ReservedCapacity(n) == IF n <= capacity THEN capacity ELSE n

reserve(n) ==
    /\ data' = Reserved(n) /\ capacity' = ReservedCapacity(n)
    /\ UNCHANGED <<size, failed>>

push_back(v) ==
    /\ size < MaxSize
    /\ data' = [Reserved(size + 1) EXCEPT ![size] = v]
    /\ capacity' = ReservedCapacity(size + 1)
    /\ size' = size + 1
    /\ UNCHANGED failed

pop_back ==
    /\ size > 0
    /\ size' = size - 1
    /\ data' = [data EXCEPT ![size - 1] = Raw]
    /\ UNCHANGED <<capacity, failed>>

\* Destroys what is above n, or copies v into what is missing; of n - size
\* copies the last one made may be the one before one that throws.
resize(n, v) ==
    /\ capacity' = ReservedCapacity(n)
    /\ \E copied \in size..n \cup {n} :
          /\ data' = [i \in DOMAIN Reserved(n) |->
                        IF n <= i /\ i < size THEN Raw
                        ELSE IF size <= i /\ i < copied THEN v ELSE Reserved(n)[i]]
          /\ size' = IF copied = n THEN n ELSE size
          /\ failed' = (failed \/ copied # n)

clear ==
    /\ data' = [i \in DOMAIN data |-> IF i < size THEN Raw ELSE data[i]]
    /\ size' = 0
    /\ UNCHANGED <<capacity, failed>>

\* copy(): the array that is made, and a new one in place of the old one,
\* which is destroyed: release() takes the slots whatever they hold.
CopyAndDestroy ==
    /\ data' = [i \in 0..(size - 1) |-> data[i]]
    /\ capacity' = size
    /\ failed' = FALSE
    /\ UNCHANGED size

ArrayNext ==
    \/ \E v \in Value : push_back(v) \/ \E n \in 0..MaxSize : resize(n, v)
    \/ \E n \in 0..MaxSize : reserve(n)
    \/ pop_back \/ clear \/ CopyAndDestroy

ArraySpec == ArrayInit /\ [][ArrayNext]_arrayVars

-----------------------------------------------------------------------------

contents == [i \in 1..size |-> data[i - 1]]

\* The slots below the size hold values, in an array large enough, and the
\* others do not, unless a copy in resize() has thrown: then a later push
\* constructs over a value that was never destroyed (varray.loci, reserve,
\* push_back, pop_back, resize, clear).
SlotsAgree ==
    /\ DOMAIN data = 0..(capacity - 1)
    /\ size <= capacity
    /\ \A i \in 0..(capacity - 1) : i < size => data[i] \in Value
    /\ \A i \in 0..(capacity - 1) : data[i] \in Value /\ ~failed => i < size

\* The array is a sequence that changes at its back, or all at once.
Sequence == INSTANCE Deque WITH Rooms <- {MaxSize}, room <- MaxSize
ImplementsSequence == Sequence!Spec
=============================================================================
