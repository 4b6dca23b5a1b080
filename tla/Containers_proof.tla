-------------------------- MODULE Containers_proof --------------------------
(***************************************************************************)
(* Proofs about the containers, for every capacity, number of nodes, and   *)
(* set of keys and values: the queue, the array, the map and the list, and *)
(* then the four of them together.                                         *)
(*   queue   the two positions and their bits are first shown to say one   *)
(*           thing: how many slots, counted round the array from read_pos, *)
(*           hold the values.  All else is said of slots counted that way. *)
(*   array   the slots below the size hold the values.                     *)
(*   map     a pass of the sort moves the pair that was inserted by one    *)
(*           place, if it is not where it belongs, and no other; so as     *)
(*           many passes as there are pairs bring it there.                *)
(*   list    the nodes in their order are a sequence that an operation     *)
(*           changes at one end; the pointers are said of that sequence.   *)
(***************************************************************************)
EXTENDS Containers, SequenceTheorems, FiniteSetTheorems, WellFoundedInduction,
        NaturalsInduction, TLAPS

-----------------------------------------------------------------------------
(***************************************************************************)
(* The queue.                                                              *)
(***************************************************************************)
\* The slot k steps on from read_pos, going round the array once.
At(k) == IF read_pos + k < capacity THEN read_pos + k ELSE read_pos + k - capacity

\* Whether both positions have gone round equally often.
SameLap == read_pos_msb = write_pos_msb

\* An array, or none, in which case the positions are where they were left.
ShapeInv ==
    /\ capacity \in Nat
    /\ doing \in {"none", "use", "clear", "destroy"}
    /\ IF doing = "none"
       THEN capacity \in Sizes \cup {0} /\ data = <<>> /\ empty
       ELSE capacity \in Sizes /\ data \in [0 .. (capacity - 1) -> Value \cup {Raw}]
    /\ IF capacity = 0
       THEN read_pos = 0 /\ write_pos = 0
       ELSE read_pos \in 0 .. (capacity - 1) /\ write_pos \in 0 .. (capacity - 1)
    /\ read_pos_msb \in BOOLEAN /\ write_pos_msb \in BOOLEAN
    /\ read_pos < write_pos => SameLap
    /\ read_pos > write_pos => ~SameLap

\* The slots from read_pos on hold the values, and the others none.
SlotInv ==
    doing # "none" =>
        \A k \in 0 .. (capacity - 1) : data[At(k)] # Raw <=> k < size

\* A range lies within the values in the queue.
RangeInv ==
    /\ range.size \in Nat /\ range.position \in Nat
    /\ range.due \in Seq(Value) /\ Len(range.due) = range.size
    /\ range.size > 0 =>
          /\ doing = "use"
          /\ \E o \in 0 .. (size - range.size) :
                /\ range.position = At(o)
                /\ \A k \in 0 .. (range.size - 1) :
                      range.due[k + 1] = data[At(o + k)]

QueueInv == ShapeInv /\ SlotInv /\ RangeInv

-----------------------------------------------------------------------------
\* What the positions and their bits say.
LEMMA Positions ==
    ASSUME ShapeInv
    PROVE  /\ size \in 0 .. capacity
           /\ empty <=> size = 0
           /\ capacity > 0 =>
                 /\ full <=> size = capacity
                 /\ write_pos = At(size)
           /\ \A k \in 0 .. (size - 1) : index(k) = At(k)
<1> USE SizesAssumption DEF ShapeInv, size, full, empty, At
<1>1. size \in 0 .. capacity
  OBVIOUS
<1>2. empty <=> size = 0
  OBVIOUS
<1>3. capacity > 0 => (full <=> size = capacity)
  OBVIOUS
<1>4. capacity > 0 => write_pos = At(size)
  OBVIOUS
<1>5. \A k \in 0 .. (size - 1) : index(k) = At(k)
  BY DEF index, contiguous_data_length
<1> QED
  BY <1>1, <1>2, <1>3, <1>4, <1>5

\* Counting from read_pos reaches every slot, and none twice.
LEMMA Round ==
    ASSUME ShapeInv, capacity > 0
    PROVE  /\ \A k \in 0 .. (capacity - 1) : At(k) \in 0 .. (capacity - 1)
           /\ \A k, l \in 0 .. (capacity - 1) :
                 At(k) = At(l) => k = l
           /\ \A s \in 0 .. (capacity - 1) : \E k \in 0 .. (capacity - 1) :
                 At(k) = s
<1> USE DEF ShapeInv, At
<1>1. ASSUME NEW s \in 0 .. (capacity - 1)
      PROVE  \E k \in 0 .. (capacity - 1) : At(k) = s
  <2>1. CASE s >= read_pos
    <3>1. s - read_pos \in 0 .. (capacity - 1) /\ At(s - read_pos) = s
      BY <2>1
    <3> QED
      BY <3>1
  <2>2. CASE s < read_pos
    <3>1. /\ s - read_pos + capacity \in 0 .. (capacity - 1)
          /\ At(s - read_pos + capacity) = s
      BY <2>2
    <3> QED
      BY <3>1
  <2> QED
    BY <2>1, <2>2
<1>2. \A k \in 0 .. (capacity - 1) : At(k) \in 0 .. (capacity - 1)
  OBVIOUS
<1>3. \A k, l \in 0 .. (capacity - 1) : At(k) = At(l) => k = l
  OBVIOUS
<1> HIDE DEF At
<1> QED
  BY <1>1, <1>2, <1>3

\* A position's bit is flipped when the position goes back to the start, and
\* the two bits are compared with each other only.
LEMMA Bits ==
    ASSUME NEW a \in BOOLEAN, NEW b \in BOOLEAN
    PROVE  /\ (~a) \in BOOLEAN
           /\ (a = (~b)) <=> (a # b)
           /\ ((~a) = b) <=> (a # b)
  OBVIOUS

LEMMA Laps ==
    /\ full <=> read_pos = write_pos /\ ~SameLap
    /\ empty <=> read_pos = write_pos /\ SameLap
  BY DEF full, empty, SameLap

LEMMA LapsNext ==
    /\ full' <=> read_pos' = write_pos' /\ ~SameLap'
    /\ empty' <=> read_pos' = write_pos' /\ SameLap'
  BY DEF full, empty, SameLap

\* The steps that change the slots, said of the number of values.
LEMMA PushEffect ==
    ASSUME QueueInv, NEW v \in Value, push_back(v)
    PROVE  /\ ShapeInv' /\ size' = size + 1 /\ size < capacity /\ doing = "use"
           /\ data' = [data EXCEPT ![At(size)] = v]
           /\ UNCHANGED <<capacity, read_pos, doing, range>>
<1>1. /\ ShapeInv /\ doing = "use" /\ ~full
      /\ capacity \in Nat /\ capacity > 0 /\ v # Raw
  BY SizesAssumption, RawAssumption DEF QueueInv, ShapeInv, push_back
<1>2. size < capacity /\ data' = [data EXCEPT ![At(size)] = v]
  BY <1>1, Positions DEF push_back
<1>3. /\ write_pos_msb' \in BOOLEAN /\ read_pos_msb' \in BOOLEAN
      /\ SameLap' <=> IF write_pos + 1 = capacity THEN ~SameLap ELSE SameLap
  BY <1>1, Bits DEF ShapeInv, push_back, Flip, SameLap
<1>4. ShapeInv'
  BY <1>1, <1>3, Laps, LapsNext DEF ShapeInv, push_back, Advance
<1>5. size' = size + 1
  <2>1. /\ read_pos \in Nat /\ write_pos \in Nat /\ read_pos < capacity /\ write_pos < capacity
        /\ (read_pos < write_pos => SameLap) /\ (read_pos > write_pos => ~SameLap)
        /\ read_pos' = read_pos /\ capacity' = capacity
        /\ write_pos' = IF write_pos + 1 = capacity THEN 0 ELSE write_pos + 1
    BY <1>1 DEF ShapeInv, push_back, Advance
  <2>2. CASE write_pos + 1 = capacity
    BY <1>1, <1>3, <2>1, <2>2, Laps, LapsNext DEF size
  <2>3. CASE write_pos + 1 # capacity
    BY <1>1, <1>3, <2>1, <2>3, Laps, LapsNext DEF size
  <2> QED
    BY <2>2, <2>3
<1> QED
  BY <1>1, <1>2, <1>4, <1>5 DEF push_back

LEMMA PopEffect ==
    ASSUME QueueInv, pop_front
    PROVE  /\ ShapeInv' /\ size' = size - 1 /\ size > 0 /\ doing # "none"
           /\ data' = [data EXCEPT ![read_pos] = Raw]
           /\ read_pos' = At(1)
           /\ UNCHANGED <<capacity, doing>>
<1>1. /\ ShapeInv /\ doing # "none" /\ ~empty
      /\ capacity \in Nat /\ capacity > 0
  BY SizesAssumption, RawAssumption DEF QueueInv, ShapeInv, pop_front
<1>2. size > 0
  BY <1>1, Positions
<1>3. /\ write_pos_msb' \in BOOLEAN /\ read_pos_msb' \in BOOLEAN
      /\ SameLap' <=> IF read_pos + 1 = capacity THEN ~SameLap ELSE SameLap
  BY <1>1, Bits DEF ShapeInv, pop_front, Flip, SameLap
<1>4. ShapeInv'
  BY <1>1, <1>3, Laps, LapsNext DEF ShapeInv, pop_front, Advance
<1>5. size' = size - 1
  <2>1. /\ read_pos \in Nat /\ write_pos \in Nat /\ read_pos < capacity /\ write_pos < capacity
        /\ (read_pos < write_pos => SameLap) /\ (read_pos > write_pos => ~SameLap)
        /\ write_pos' = write_pos /\ capacity' = capacity
        /\ read_pos' = IF read_pos + 1 = capacity THEN 0 ELSE read_pos + 1
    BY <1>1 DEF ShapeInv, pop_front, Advance
  <2>2. CASE read_pos + 1 = capacity
    BY <1>1, <1>3, <2>1, <2>2, Laps, LapsNext DEF size
  <2>3. CASE read_pos + 1 # capacity
    BY <1>1, <1>3, <2>1, <2>3, Laps, LapsNext DEF size
  <2> QED
    BY <2>2, <2>3
<1>6. read_pos' = At(1)
  BY <1>1 DEF pop_front, Advance, At, ShapeInv
<1> QED
  BY <1>1, <1>2, <1>4, <1>5, <1>6 DEF pop_front

\* Going on by one slot is counting from one slot further on.
LEMMA Shift ==
    ASSUME ShapeInv, capacity > 0, read_pos' = At(1), capacity' = capacity
    PROVE  \A j \in 1 .. capacity : At(j - 1)' = At(j)
  BY DEF ShapeInv, At

-----------------------------------------------------------------------------
LEMMA QueueInitInvariant == QueueInit => QueueInv
<1> SUFFICES ASSUME QueueInit PROVE QueueInv
  OBVIOUS
<1>0. SameLap /\ read_pos_msb \in BOOLEAN /\ write_pos_msb \in BOOLEAN
  BY DEF QueueInit, SameLap
<1>1. ShapeInv
  BY <1>0, Laps DEF QueueInit, ShapeInv
<1>2. SlotInv
  BY DEF QueueInit, SlotInv
<1>3. RangeInv
  BY EmptySeq DEF QueueInit, RangeInv, NoRange
<1> QED
  BY <1>1, <1>2, <1>3 DEF QueueInv

LEMMA CreateInvariant == ASSUME QueueInv, NEW n \in Sizes, create(n) PROVE QueueInv'
<1>0. n \in Nat /\ n > 0
  BY SizesAssumption
<1>1. SameLap' /\ read_pos_msb' \in BOOLEAN /\ write_pos_msb' \in BOOLEAN
  BY DEF create, SameLap
<1>2. ShapeInv'
  BY <1>0, <1>1, LapsNext DEF ShapeInv, create
<1>3. size' = 0
  BY <1>0, <1>1, LapsNext DEF create, size
<1>4. SlotInv'
  BY <1>0, <1>3 DEF SlotInv, create, At
<1>5. RangeInv'
  BY DEF QueueInv, RangeInv, create
<1> QED
  BY <1>2, <1>4, <1>5 DEF QueueInv

LEMMA PushInvariant == ASSUME QueueInv, NEW v \in Value, push_back(v) PROVE QueueInv'
<1>0. /\ ShapeInv /\ capacity \in Nat /\ capacity > 0 /\ v # Raw
      /\ data \in [0 .. (capacity - 1) -> Value \cup {Raw}]
      /\ size \in 0 .. (capacity - 1) /\ read_pos \in 0 .. (capacity - 1)
  BY PushEffect, Positions, RawAssumption DEF QueueInv, ShapeInv
<1>1. /\ data' = [data EXCEPT ![At(size)] = v]
      /\ UNCHANGED <<capacity, read_pos, doing, range>> /\ size' = size + 1 /\ doing = "use"
  BY PushEffect
<1>2. \A k \in 0 .. (capacity - 1) :
          /\ At(k)' = At(k)
          /\ data'[At(k)] = IF k = size THEN v ELSE data[At(k)]
  <2>1. ASSUME NEW k \in 0 .. (capacity - 1)
        PROVE  data'[At(k)] = IF k = size THEN v ELSE data[At(k)]
    BY <1>0, <1>1, Round
  <2>2. \A k \in 0 .. (capacity - 1) : At(k)' = At(k)
    BY <1>1 DEF At
  <2> QED
    BY <2>1, <2>2
<1>3. SlotInv'
  BY <1>0, <1>1, <1>2 DEF QueueInv, SlotInv
<1>4. RangeInv'
  <2>1. CASE range.size = 0
    BY <1>1, <2>1 DEF QueueInv, RangeInv
  <2>2. CASE range.size > 0
    <3>1. PICK o \in 0 .. (size - range.size) :
             /\ range.position = At(o)
             /\ \A k \in 0 .. (range.size - 1) :
                   range.due[k + 1] = data[At(o + k)]
      BY <2>2 DEF QueueInv, RangeInv
    <3>2. range.size \in Nat
      BY DEF QueueInv, RangeInv
    <3>3. o \in 0 .. (size' - range'.size) /\ range'.position = At(o)'
      BY <1>0, <1>1, <1>2, <2>2, <3>1, <3>2
    <3>4. ASSUME NEW k \in 0 .. (range'.size - 1)
          PROVE  range'.due[k + 1] = data'[At(o + k)']
      <4>1. o + k \in 0 .. (capacity - 1) /\ o + k # size
        BY <1>0, <1>1, <2>2, <3>1, <3>2
      <4> QED
        BY <1>1, <1>2, <3>1, <4>1
    <3> QED
      BY <1>1, <3>3, <3>4 DEF QueueInv, RangeInv
  <2> QED
    BY <2>1, <2>2 DEF QueueInv, RangeInv
<1> QED
  BY <1>3, <1>4, PushEffect DEF QueueInv

\* What pop_front does to the slots, for the caller and for clear().
LEMMA PopSlots == ASSUME QueueInv, pop_front PROVE ShapeInv' /\ SlotInv'
<1>0. /\ ShapeInv /\ capacity \in Nat /\ capacity > 0 /\ Raw \notin Value
      /\ data \in [0 .. (capacity - 1) -> Value \cup {Raw}]
      /\ size \in 1 .. capacity /\ read_pos \in 0 .. (capacity - 1)
  BY PopEffect, Positions, RawAssumption DEF QueueInv, ShapeInv
<1>1. /\ data' = [data EXCEPT ![read_pos] = Raw] /\ read_pos' = At(1)
      /\ UNCHANGED <<capacity, doing>> /\ size' = size - 1 /\ doing # "none"
  BY PopEffect
<1>2. read_pos = At(0)
  BY <1>0 DEF At
<1>3. ASSUME NEW k \in 0 .. (capacity - 1)
      PROVE  data'[At(k)'] # Raw <=> k < size'
  <2>1. CASE k = capacity - 1
    <3>1. At(k)' = read_pos
      BY <1>0, <1>1, <2>1 DEF At
    <3> QED
      BY <1>0, <1>1, <2>1, <3>1
  <2>2. CASE k < capacity - 1
    <3>1. k + 1 \in 0 .. (capacity - 1) /\ (k + 1) - 1 = k /\ k + 1 \in 1 .. capacity
      BY <1>0, <2>2
    <3>2. At(k)' = At(k + 1)
      BY <1>0, <1>1, <3>1, Shift
    <3>3. At(k + 1) # read_pos /\ At(k + 1) \in 0 .. (capacity - 1)
      <4>1. 0 \in 0 .. (capacity - 1) /\ k + 1 # 0
        BY <1>0, <3>1
      <4> QED
        BY <1>0, <1>2, <3>1, <4>1, Round
    <3>4. data'[At(k)'] = data[At(k + 1)]
      BY <1>0, <1>1, <3>2, <3>3
    <3> QED
      BY <1>0, <1>1, <3>1, <3>4 DEF QueueInv, SlotInv
  <2> QED
    BY <1>0, <2>1, <2>2
<1> QED
  BY <1>1, <1>3, PopEffect DEF SlotInv

LEMMA PopInvariant == ASSUME QueueInv, Pop PROVE QueueInv'
<1>0. /\ pop_front /\ doing = "use" /\ range' = range
      /\ range.size > 0 => range.position # read_pos
  BY DEF Pop
<1>1. /\ ShapeInv /\ capacity \in Nat /\ capacity > 0 /\ Raw \notin Value
      /\ data \in [0 .. (capacity - 1) -> Value \cup {Raw}]
      /\ size \in 1 .. capacity /\ read_pos \in 0 .. (capacity - 1)
      /\ data' = [data EXCEPT ![read_pos] = Raw] /\ read_pos' = At(1)
      /\ UNCHANGED <<capacity, doing>> /\ size' = size - 1 /\ doing # "none"
  BY <1>0, PopEffect, Positions, RawAssumption DEF QueueInv, ShapeInv
<1>2. read_pos = At(0)
  BY <1>1 DEF At
<1>3. RangeInv'
  <2>1. CASE range.size = 0
    BY <1>0, <2>1 DEF QueueInv, RangeInv
  <2>2. CASE range.size > 0
    <3>1. PICK o \in 0 .. (size - range.size) :
             /\ range.position = At(o)
             /\ \A k \in 0 .. (range.size - 1) :
                   range.due[k + 1] = data[At(o + k)]
      BY <2>2 DEF QueueInv, RangeInv
    <3>2. range.size \in Nat
      BY DEF QueueInv, RangeInv
    <3>3. o # 0
      BY <1>0, <1>2, <2>2, <3>1
    <3>4. o - 1 \in 0 .. (size' - range'.size) /\ o \in 1 .. capacity
      BY <1>0, <1>1, <2>2, <3>2, <3>3
    <3>5. range'.position = At(o - 1)'
      BY <1>0, <1>1, <3>1, <3>4, Shift
    <3>6. ASSUME NEW k \in 0 .. (range'.size - 1)
          PROVE  range'.due[k + 1] = data'[At(o - 1 + k)']
      <4>1. /\ o + k \in 1 .. (capacity - 1) /\ o - 1 + k = (o + k) - 1
            /\ o + k \in 1 .. capacity /\ o + k \in 0 .. (capacity - 1)
            /\ o + k # 0 /\ 0 \in 0 .. (capacity - 1)
        <5>1. o \in 1 .. (size - range.size) /\ k \in 0 .. (range.size - 1)
          BY <1>0, <1>1, <3>2, <3>3
        <5> QED
          BY <1>1, <3>2, <5>1
      <4>2. At(o - 1 + k)' = At(o + k)
        BY <1>1, <4>1, Shift
      <4>3. At(o + k) # read_pos
        BY <1>1, <1>2, <4>1, Round
      <4>4. At(o + k) \in 0 .. (capacity - 1)
        BY <1>1, <4>1, Round
      <4>5. data'[At(o + k)] = data[At(o + k)]
        BY <1>1, <4>3, <4>4
      <4> QED
        BY <1>0, <3>1, <4>1, <4>2, <4>5
    <3> QED
      BY <1>0, <1>1, <3>4, <3>5, <3>6 DEF QueueInv, RangeInv
  <2> QED
    BY <2>1, <2>2 DEF QueueInv, RangeInv
<1> QED
  BY <1>0, <1>3, PopSlots DEF QueueInv

\* The steps that leave the slots as they are.
LEMMA StillInvariant ==
    ASSUME QueueInv, StartClear \/ ClearStep \/ ClearDone \/ release
    PROVE  QueueInv'
<1>1. CASE StartClear
  <2>1. ShapeInv' /\ SlotInv'
    BY <1>1, Laps, LapsNext
    DEF StartClear, QueueInv, ShapeInv, SlotInv, At, positions, SameLap, size, full
  <2>2. RangeInv'
    BY <1>1, EmptySeq DEF StartClear, RangeInv, NoRange
  <2> QED
    BY <2>1, <2>2 DEF QueueInv
<1>2. CASE ClearStep
  <2>1. range.size = 0 /\ range' = range /\ pop_front
    BY <1>2 DEF ClearStep, QueueInv, RangeInv
  <2>2. RangeInv'
    BY <2>1 DEF QueueInv, RangeInv
  <2> QED
    BY <2>1, <2>2, PopSlots DEF QueueInv
<1>3. CASE ClearDone
  <2>1. ShapeInv' /\ SlotInv'
    BY <1>3, Laps, LapsNext
    DEF ClearDone, QueueInv, ShapeInv, SlotInv, At, positions, SameLap, size, full
  <2>2. range.size = 0 /\ range' = range
    BY <1>3 DEF ClearDone, QueueInv, RangeInv
  <2>3. RangeInv'
    BY <2>2 DEF QueueInv, RangeInv
  <2> QED
    BY <2>1, <2>3 DEF QueueInv
<1>4. CASE release
  <2>1. ShapeInv' /\ SlotInv'
    BY <1>4, Laps, LapsNext DEF release, QueueInv, ShapeInv, SlotInv, positions, SameLap
  <2>2. range.size = 0 /\ range' = range
    BY <1>4 DEF release, QueueInv, RangeInv
  <2>3. RangeInv'
    BY <2>2 DEF QueueInv, RangeInv
  <2> QED
    BY <2>1, <2>3 DEF QueueInv
<1> QED
  BY <1>1, <1>2, <1>3, <1>4

\* The values in the queue are a sequence.
Listed ==
    /\ contents \in Seq(Value) /\ Len(contents) = size /\ size \in Nat
    /\ \A k \in 1 .. size : contents[k] = data[At(k - 1)]

LEMMA Contents == QueueInv => Listed
<1> SUFFICES ASSUME QueueInv PROVE Listed
  OBVIOUS
<1>1. size \in 0 .. capacity /\ capacity \in Nat
  BY Positions DEF QueueInv, ShapeInv
<1>2. ASSUME NEW k \in 1 .. size
      PROVE  data[index(k - 1)] = data[At(k - 1)] /\ data[At(k - 1)] \in Value
  <2>1. k - 1 \in 0 .. (size - 1) /\ capacity > 0 /\ k - 1 \in 0 .. (capacity - 1)
    BY <1>1
  <2>2. doing # "none"
    BY <2>1, <1>1, Positions DEF QueueInv, ShapeInv
  <2>3. At(k - 1) \in 0 .. (capacity - 1) /\ data[At(k - 1)] # Raw
    BY <2>1, <2>2, <1>1, Round DEF QueueInv, SlotInv
  <2>4. data[At(k - 1)] \in Value
    BY <2>2, <2>3 DEF QueueInv, ShapeInv
  <2>5. index(k - 1) = At(k - 1)
    BY <2>1, Positions DEF QueueInv
  <2> QED
    BY <2>4, <2>5
<1>3. contents = [k \in 1 .. size |-> data[At(k - 1)]]
  BY <1>2 DEF contents
<1>4. contents \in [1 .. size -> Value]
  BY <1>2, <1>3
<1>5. contents \in Seq(Value)
  BY <1>1, <1>4, SeqDef
<1> QED
  BY <1>1, <1>3, <1>5, LenProperties DEF Listed

\* all() makes a range over all of the queue, and skip_front shortens it.
LEMMA RangeInvariant == ASSUME QueueInv, all \/ skip_front PROVE QueueInv'
<1>0. /\ UNCHANGED <<data, capacity, positions, doing>> /\ doing = "use"
      /\ range.size \in Nat /\ range.due \in Seq(Value) /\ Len(range.due) = range.size
  BY DEF QueueInv, RangeInv, all, skip_front
<1>1. ShapeInv' /\ SlotInv'
  BY <1>0, Laps, LapsNext DEF QueueInv, ShapeInv, SlotInv, At, positions, SameLap, size, full
<1>2. /\ size' = size /\ \A k \in Int : At(k)' = At(k)
      /\ size \in 0 .. capacity /\ capacity \in Nat /\ capacity > 0
      /\ read_pos \in 0 .. (capacity - 1)
  BY <1>0, Positions, SizesAssumption DEF positions, size, full, At, QueueInv, ShapeInv
<1>3. CASE all
  <2>1. range' = [position |-> read_pos, size |-> size, due |-> contents]
    BY <1>3 DEF all, contents
  <2>2. read_pos = At(0)
    BY <1>2 DEF At
  <2>3. \A k \in 0 .. (size - 1) : contents[k + 1] = data[At(0 + k)]
    <3>1. ASSUME NEW k \in 0 .. (size - 1) PROVE contents[k + 1] = data[At(0 + k)]
      <4>1. k + 1 \in 1 .. size /\ (k + 1) - 1 = k /\ 0 + k = k
        BY <1>2
      <4> QED
        BY <4>1, Contents DEF Listed
    <3> QED
      BY <3>1
  <2>4. RangeInv'
    BY <1>0, <1>2, <2>1, <2>2, <2>3, Contents DEF RangeInv, Listed
  <2> QED
    BY <1>1, <2>4 DEF QueueInv
<1>4. CASE skip_front
  <2>1. PICK o \in 0 .. (size - range.size) :
           /\ range.position = At(o)
           /\ \A k \in 0 .. (range.size - 1) : range.due[k + 1] = data[At(o + k)]
    BY <1>4 DEF skip_front, QueueInv, RangeInv
  <2>2. /\ range.size > 0 /\ range'.size = range.size - 1 /\ range'.due = Tail(range.due)
        /\ range'.position = IF range.position + 1 = capacity THEN 0 ELSE range.position + 1
    BY <1>4 DEF skip_front
  <2>3. /\ range'.due \in Seq(Value) /\ Len(range'.due) = range'.size /\ range'.size \in Nat
        /\ \A k \in 1 .. range'.size : range'.due[k] = range.due[k + 1]
    BY <1>0, <2>2, HeadTailProperties, EmptySeq
  <2>4. range'.position \in Nat
    BY <1>2, <2>1, <2>2 DEF At
  <2>5. ASSUME range'.size = 0 PROVE RangeInv'
    BY <2>3, <2>4, <2>5 DEF RangeInv
  <2>6. ASSUME range'.size > 0 PROVE RangeInv'
    <3>1. o + 1 \in 0 .. (size' - range'.size)
      <4>1. size' = size /\ size \in Nat /\ range.size \in Nat /\ range'.size = range.size - 1
        BY <1>0, <1>2, <2>2
      <4> QED
        BY <2>1, <4>1
    <3>2. range'.position = At(o + 1)
      BY <1>0, <1>2, <2>1, <2>2, <2>6 DEF At
    <3>3. ASSUME NEW k \in 0 .. (range'.size - 1)
          PROVE  range'.due[k + 1] = data'[At((o + 1) + k)]
      <4>1. k + 1 \in 1 .. range'.size /\ k + 1 \in 0 .. (range.size - 1) /\ o + (k + 1) = (o + 1) + k
        BY <1>0, <2>1, <2>2
      <4> QED
        BY <1>0, <2>1, <2>3, <4>1
    <3>4. /\ range'.position = At(o + 1)'
          /\ \A k \in 0 .. (range'.size - 1) : range'.due[k + 1] = data'[At((o + 1) + k)']
      <4>1. data' = data /\ At(o + 1)' = At(o + 1)
        BY <1>0, <1>2, <2>1
      <4>2. ASSUME NEW k \in 0 .. (range'.size - 1)
            PROVE  At((o + 1) + k)' = At((o + 1) + k)
        BY <1>2, <2>1, <2>3
      <4> QED
        BY <3>2, <3>3, <4>1, <4>2
    <3> QED
      BY <1>0, <2>3, <2>4, <2>6, <3>1, <3>4 DEF RangeInv
  <2> QED
    BY <1>1, <2>3, <2>5, <2>6 DEF QueueInv
<1> QED
  BY <1>3, <1>4

\* Every step preserves the invariant.
LEMMA QueueInvariantStep == QueueInv /\ [QueueNext]_queueVars => QueueInv'
<1> SUFFICES ASSUME QueueInv, [QueueNext]_queueVars PROVE QueueInv'
  OBVIOUS
<1>1. CASE QueueNext
  BY <1>1, CreateInvariant, PushInvariant, PopInvariant, StillInvariant, RangeInvariant
  DEF QueueNext, Clearing
<1>2. CASE UNCHANGED queueVars
  BY <1>2, Laps, LapsNext
  DEF queueVars, QueueInv, ShapeInv, SlotInv, RangeInv, At, size, full, SameLap
<1> QED
  BY <1>1, <1>2

-----------------------------------------------------------------------------
\* The invariant says what the properties say.
LEMMA SlotsFollow == QueueInv => SlotsAgree
<1> SUFFICES ASSUME QueueInv PROVE SlotsAgree
  OBVIOUS
<1>0. /\ ShapeInv /\ size \in 0 .. capacity /\ capacity \in Nat
      /\ \A k \in 0 .. (size - 1) : index(k) = At(k)
  BY Positions DEF QueueInv, ShapeInv
<1>1. ASSUME NEW i \in DOMAIN data
      PROVE  data[i] # Raw <=> \E k \in 0 .. (size - 1) : index(k) = i
  <2>1. doing # "none" /\ capacity > 0 /\ i \in 0 .. (capacity - 1)
    BY <1>0 DEF ShapeInv
  <2>2. PICK k \in 0 .. (capacity - 1) : At(k) = i
    BY <1>0, <2>1, Round
  <2>3. data[i] # Raw <=> k < size
    BY <2>1, <2>2 DEF QueueInv, SlotInv
  <2>4. ASSUME NEW l \in 0 .. (size - 1), index(l) = i PROVE l = k
    <3>1. l \in 0 .. (capacity - 1) /\ At(l) = At(k)
      BY <1>0, <2>2, <2>4
    <3> QED
      BY <1>0, <2>1, <3>1, Round
  <2>5. k < size => k \in 0 .. (size - 1) /\ index(k) = i
    BY <1>0, <2>2
  <2>6. \A l \in 0 .. (size - 1) : l < size
    BY <1>0
  <2> QED
    BY <2>3, <2>4, <2>5, <2>6
<1>2. ASSUME NEW k \in 0 .. (size - 1), NEW l \in 0 .. (size - 1), index(k) = index(l)
      PROVE  k = l
  <2>1. k \in 0 .. (capacity - 1) /\ l \in 0 .. (capacity - 1) /\ capacity > 0 /\ At(k) = At(l)
    BY <1>0, <1>2
  <2> QED
    BY <1>0, <2>1, Round
<1>3. doing = "none" => size = 0
  BY <1>0, Positions DEF ShapeInv
<1> QED
  BY <1>1, <1>2, <1>3 DEF SlotsAgree

LEMMA BlocksFollow == QueueInv => BlocksAgree
<1> SUFFICES ASSUME QueueInv, doing # "none" PROVE BlocksAgree
  BY DEF BlocksAgree
<1>0. /\ ShapeInv /\ size \in 0 .. capacity /\ capacity \in Nat /\ capacity > 0
      /\ empty <=> size = 0
      /\ full <=> size = capacity
      /\ write_pos = At(size)
      /\ read_pos \in 0 .. (capacity - 1) /\ write_pos \in 0 .. (capacity - 1)
  BY Positions, SizesAssumption DEF QueueInv, ShapeInv
<1>1. /\ contiguous_data_length =
            IF read_pos < write_pos THEN write_pos - read_pos
            ELSE IF size = 0 THEN 0 ELSE capacity - read_pos
      /\ contiguous_space_length =
            IF write_pos < read_pos THEN read_pos - write_pos
            ELSE IF size = capacity THEN 0 ELSE capacity - write_pos
  BY <1>0 DEF contiguous_data_length, contiguous_space_length, size, full, empty, ShapeInv
<1>2. size = IF read_pos < write_pos THEN write_pos - read_pos
             ELSE IF read_pos > write_pos THEN capacity - (read_pos - write_pos)
             ELSE IF full THEN capacity ELSE 0
  BY DEF size
<1>3. ASSUME NEW k \in 0 .. (contiguous_data_length - 1)
      PROVE  k < size /\ data[read_pos + k] = contents[k + 1]
  <2>1. k \in 0 .. (size - 1) /\ read_pos + k < capacity
    BY <1>0, <1>1, <1>2
  <2>2. k + 1 \in 1 .. size /\ (k + 1) - 1 = k /\ At(k) = read_pos + k
    BY <1>0, <2>1 DEF At
  <2> QED
    BY <1>0, <2>1, <2>2, Contents DEF Listed
<1>4. ASSUME NEW k \in 0 .. (contiguous_space_length - 1)
      PROVE  data[write_pos + k] = Raw
  <2>1. /\ size + k \in 0 .. (capacity - 1) /\ ~(size + k < size)
        /\ At(size + k) = write_pos + k
    <3>1. k \in Nat /\ size + k < capacity /\ write_pos + k < capacity
      BY <1>0, <1>1, <1>2
    <3> QED
      BY <1>0, <1>1, <1>2, <3>1 DEF At
  <2> QED
    BY <2>1 DEF QueueInv, SlotInv
<1>5. ~empty => contiguous_data_length > 0
  BY <1>0, <1>1
<1>6. ~full => contiguous_space_length > 0
  BY <1>0, <1>1
<1> QED
  BY <1>3, <1>4, <1>5, <1>6 DEF BlocksAgree

\* A position less than twice round the array, brought back into it.
LEMMA WrapOnce ==
    ASSUME NEW c \in Nat, c > 0, NEW a \in Nat, a < c + c
    PROVE  a % c = IF a < c THEN a ELSE a - c
<1>1. PICK q \in Int, r \in 0 .. (c - 1) : a = c * q + r /\ q = a \div c /\ r = a % c
  OBVIOUS
<1>2. q >= 0
  <2>1. q <= -1 => c * q <= c * (-1)
    OBVIOUS
  <2> QED
    BY <1>1, <2>1
<1>3. q < 2
  <2>1. q >= 2 => c * q >= c * 2
    OBVIOUS
  <2> QED
    BY <1>1, <2>1
<1> QED
  BY <1>1, <1>2, <1>3

LEMMA RangeFollows == QueueInv => RangeGivesWhatWasThere
<1> SUFFICES ASSUME QueueInv PROVE RangeGivesWhatWasThere
  OBVIOUS
<1>1. Len(range.due) = range.size /\ range.size \in Nat
  BY DEF QueueInv, RangeInv
<1>4. range.size > 0 =>
        /\ doing = "use"
        /\ \E o \in 0 .. (size - range.size) :
              /\ range.position = At(o)
              /\ \A k \in 0 .. (range.size - 1) : range.due[k + 1] = data[At(o + k)]
  BY DEF QueueInv, RangeInv
<1>2. ASSUME NEW i \in 1 .. range.size
      PROVE  data[(range.position + i - 1) % capacity] = range.due[i]
  <2>1. PICK o \in 0 .. (size - range.size) :
           /\ range.position = At(o)
           /\ \A k \in 0 .. (range.size - 1) : range.due[k + 1] = data[At(o + k)]
    BY <1>1, <1>4
  <2>2. /\ size \in 0 .. capacity /\ capacity \in Nat /\ capacity > 0
        /\ read_pos \in 0 .. (capacity - 1)
    <3>1. doing = "use"
      BY <1>1, <1>4
    <3> QED
      BY <3>1, Positions, SizesAssumption DEF QueueInv, ShapeInv
  <2>3. i - 1 \in 0 .. (range.size - 1) /\ (i - 1) + 1 = i /\ o + (i - 1) \in 0 .. (capacity - 1)
    BY <1>1, <2>2
  <2>4. PICK p \in Nat : p = At(o) /\ p < capacity
    <3>1. o \in 0 .. (capacity - 1)
      BY <1>1, <2>2
    <3> QED
      BY <2>2, <3>1, Round DEF QueueInv
  <2>5. PICK a \in Nat : a = p + i - 1 /\ a < capacity + capacity
    BY <1>1, <2>2, <2>3, <2>4
  <2>6. a % capacity = IF a < capacity THEN a ELSE a - capacity
    BY <2>2, <2>5, WrapOnce
  <2>7. At(o + (i - 1)) = IF a < capacity THEN a ELSE a - capacity
    BY <1>1, <2>2, <2>3, <2>4, <2>5 DEF At
  <2>8. range.position + i - 1 = a
    BY <2>1, <2>4, <2>5
  <2>9. data[At(o + (i - 1))] = range.due[i]
    BY <2>1, <2>3
  <2> QED
    BY <2>6, <2>7, <2>8, <2>9
<1> QED
  BY <1>1, <1>2 DEF RangeGivesWhatWasThere

LEMMA ContentsNext == QueueInv' => Listed'
  BY Contents, PTL

LEMMA PushAppends ==
    ASSUME QueueInv, QueueInv', NEW v \in Value, push_back(v)
    PROVE  Sequence!PushBack(v)
<1>0. /\ size' = size + 1 /\ size < capacity
      /\ data' = [data EXCEPT ![At(size)] = v]
      /\ UNCHANGED <<capacity, read_pos, doing>> /\ doing = "use"
  BY PushEffect
<1>1. /\ ShapeInv /\ capacity \in Nat /\ capacity > 0
      /\ data \in [0 .. (capacity - 1) -> Value \cup {Raw}]
  BY <1>0, SizesAssumption DEF QueueInv, ShapeInv
<1>2. /\ Append(contents, v) \in Seq(Value) /\ Len(Append(contents, v)) = size + 1
      /\ \A k \in 1 .. size : Append(contents, v)[k] = data[At(k - 1)]
      /\ Append(contents, v)[size + 1] = v
  BY Contents, AppendProperties DEF Listed
<1>3. ASSUME NEW k \in 1 .. (size + 1) PROVE contents'[k] = Append(contents, v)[k]
  <2>1. /\ size \in Nat /\ k - 1 \in 0 .. size /\ k - 1 \in 0 .. (capacity - 1)
        /\ size \in 0 .. (capacity - 1)
    BY <1>0, <1>1, Contents DEF Listed
  <2>2. contents'[k] = data'[At(k - 1)]
    <3>1. At(k - 1)' = At(k - 1)
      BY <1>0, <1>1 DEF At
    <3> QED
      BY <1>0, <1>1, <3>1, ContentsNext DEF Listed
  <2>3. CASE k = size + 1
    <3>1. k - 1 = size
      BY <2>1, <2>3
    <3>2. At(size) \in DOMAIN data
      BY <1>0, <1>1, <2>1, Round
    <3> QED
      BY <1>0, <1>2, <2>2, <2>3, <3>1, <3>2
  <2>4. CASE k # size + 1
    <3>1. k - 1 # size /\ k \in 1 .. size
      BY <2>1, <2>4
    <3>2. At(k - 1) # At(size)
      BY <1>0, <1>1, <2>1, <3>1, Round
    <3>3. At(k - 1) \in DOMAIN data
      BY <1>0, <1>1, <2>1, Round
    <3> QED
      BY <1>0, <1>1, <1>2, <2>2, <3>1, <3>2, <3>3
  <2> QED
    BY <2>3, <2>4
<1>4. contents' = Append(contents, v)
  BY <1>0, <1>1, <1>2, <1>3, ContentsNext, SeqEqual DEF Listed
<1> QED
  BY <1>0, <1>1, <1>4, Contents DEF Sequence!PushBack, Listed

LEMMA PopTakesHead ==
    ASSUME QueueInv, QueueInv', pop_front
    PROVE  Sequence!PopFront
<1>0. /\ size' = size - 1 /\ size > 0
      /\ data' = [data EXCEPT ![read_pos] = Raw] /\ read_pos' = At(1)
      /\ UNCHANGED <<capacity, doing>> /\ doing # "none"
  BY PopEffect
<1>1. /\ ShapeInv /\ capacity \in Nat /\ capacity > 0
      /\ data \in [0 .. (capacity - 1) -> Value \cup {Raw}]
      /\ size \in 0 .. capacity /\ size \in Nat /\ read_pos = At(0)
  <2>1. /\ ShapeInv /\ capacity \in Nat /\ capacity > 0
        /\ data \in [0 .. (capacity - 1) -> Value \cup {Raw}]
    BY <1>0, SizesAssumption DEF QueueInv, ShapeInv
  <2>2. size \in 0 .. capacity /\ size \in Nat
    BY <2>1, Positions
  <2>3. read_pos = At(0)
    BY <2>1 DEF ShapeInv, At
  <2> QED
    BY <2>1, <2>2, <2>3
<1>2. /\ contents # <<>> /\ Tail(contents) \in Seq(Value) /\ Len(Tail(contents)) = size - 1
      /\ \A k \in 1 .. (size - 1) : Tail(contents)[k] = contents[k + 1]
  BY <1>0, <1>1, Contents, HeadTailProperties, EmptySeq DEF Listed
<1>3. ASSUME NEW k \in 1 .. (size - 1) PROVE contents'[k] = Tail(contents)[k]
  <2>1. /\ k \in 1 .. size' /\ k + 1 \in 1 .. size /\ (k + 1) - 1 = k
        /\ k \in 1 .. capacity /\ k \in 0 .. (capacity - 1) /\ 0 \in 0 .. (capacity - 1) /\ k # 0
    BY <1>0, <1>1
  <2>2. contents'[k] = data'[At(k)]
    <3>1. At(k - 1)' = At(k)
      BY <1>0, <1>1, <2>1, Shift
    <3> QED
      BY <2>1, <3>1, ContentsNext DEF Listed
  <2>3. At(k) # read_pos /\ At(k) \in DOMAIN data
    BY <1>0, <1>1, <2>1, Round
  <2>4. contents[k + 1] = data[At(k)]
    BY <2>1, Contents DEF Listed
  <2> QED
    BY <1>0, <1>1, <1>2, <2>2, <2>3, <2>4
<1>4. contents' = Tail(contents)
  BY <1>0, <1>1, <1>2, <1>3, ContentsNext, SeqEqual DEF Listed
<1> QED
  BY <1>0, <1>1, <1>2, <1>4 DEF Sequence!PopFront

\* Every other step leaves the values, or starts with none.
LEMMA OtherStepsKeep ==
    ASSUME QueueInv, QueueInv',
           StartClear \/ ClearDone \/ release \/ all \/ skip_front \/ UNCHANGED queueVars
    PROVE  UNCHANGED <<contents, capacity>>
<1>1. CASE release
  <2>1. size' = 0 /\ size = 0 /\ capacity' = capacity
    BY <1>1, Laps, LapsNext, Positions DEF release, positions, size, SameLap, QueueInv
  <2>2. contents = <<>> /\ contents' = <<>>
    BY <2>1, Contents, ContentsNext, EmptySeq DEF Listed
  <2> QED
    BY <2>1, <2>2
<1>2. CASE StartClear \/ ClearDone \/ all \/ skip_front \/ UNCHANGED queueVars
  <2>1. UNCHANGED <<data, capacity, read_pos, write_pos, read_pos_msb, write_pos_msb>>
    BY <1>2 DEF StartClear, ClearDone, all, skip_front, queueVars, positions
  <2> QED
    BY <2>1 DEF contents, size, full, index, contiguous_data_length
<1> QED
  BY <1>1, <1>2

LEMMA QueueStepRefines ==
    QueueInv /\ QueueInv' /\ [QueueNext]_queueVars => [Sequence!Next]_(Sequence!dequeVars)
<1> SUFFICES ASSUME QueueInv, QueueInv', [QueueNext]_queueVars
             PROVE  Sequence!Next \/ UNCHANGED <<contents, capacity>>
  BY DEF Sequence!dequeVars
<1>1. ASSUME NEW n \in Sizes, create(n) PROVE Sequence!Make
  <2>1. size' = 0 /\ capacity' \in Sizes
    <3>1. n > 0 /\ n \in Nat
      BY SizesAssumption
    <3>2. SameLap'
      BY <1>1 DEF create, SameLap
    <3> QED
      BY <1>1, <3>1, <3>2, LapsNext DEF create, size
  <2>2. contents' = <<>>
    BY <2>1, ContentsNext, EmptySeq DEF Listed
  <2> QED
    BY <2>1, <2>2 DEF Sequence!Make
<1>2. ASSUME NEW v \in Value, push_back(v) PROVE Sequence!PushBack(v)
  BY <1>2, PushAppends
<1>3. CASE Pop \/ ClearStep
  BY <1>3, PopTakesHead DEF Pop, ClearStep, Sequence!Next
<1>4. CASE StartClear \/ ClearDone \/ release \/ all \/ skip_front \/ UNCHANGED queueVars
  BY <1>4, OtherStepsKeep
<1> QED
  BY <1>1, <1>2, <1>3, <1>4 DEF QueueNext, Clearing, Sequence!Next

LEMMA QueueInitRefines == QueueInit => Sequence!Init
<1> SUFFICES ASSUME QueueInit PROVE Sequence!Init
  OBVIOUS
<1>1. QueueInv /\ size = 0 /\ capacity = 0
  BY QueueInitInvariant, Laps DEF QueueInit, size, SameLap
<1>2. contents = <<>>
  BY <1>1, Contents, EmptySeq DEF Listed
<1> QED
  BY <1>1, <1>2 DEF Sequence!Init

-----------------------------------------------------------------------------
(***************************************************************************)
(* The array.                                                              *)
(***************************************************************************)
\* The slots below the size hold values, and the others none, unless a copy has failed.
ArrayInv ==
    /\ array_capacity \in Nat /\ array_size \in 0 .. MaxSize /\ array_size <= array_capacity
    /\ array_failed \in BOOLEAN
    /\ array_data \in [0 .. (array_capacity - 1) -> Value \cup {Raw}]
    /\ \A i \in 0 .. (array_size - 1) : array_data[i] \in Value
    /\ ~array_failed => \A i \in array_size .. (array_capacity - 1) : array_data[i] = Raw

ArrayListed ==
    /\ Array!contents \in Seq(Value) /\ Len(Array!contents) = array_size
    /\ \A k \in 1 .. array_size : Array!contents[k] = array_data[k - 1]

LEMMA ArrayContents == ArrayInv => ArrayListed
<1> SUFFICES ASSUME ArrayInv PROVE ArrayListed
  OBVIOUS
<1>1. array_size \in Nat /\ \A k \in 1 .. array_size : k - 1 \in 0 .. (array_size - 1)
  BY ContainersAssumption DEF ArrayInv
<1>2. Array!contents \in [1 .. array_size -> Value] /\ \A k \in 1 .. array_size : Array!contents[k] = array_data[k - 1]
  BY <1>1 DEF Array!contents, ArrayInv
<1> QED
  BY <1>1, <1>2, SeqDef, LenProperties DEF ArrayListed

LEMMA ArrayContentsNext == ArrayInv' => ArrayListed'
  BY ArrayContents, PTL

LEMMA ArrayInitInvariant == Array!ArrayInit => ArrayInv
<1> SUFFICES ASSUME Array!ArrayInit PROVE ArrayInv
  OBVIOUS
<1>1. array_data = <<>> /\ array_capacity = 0 /\ array_size = 0 /\ array_failed = FALSE
  BY DEF Array!ArrayInit
<1>2. 0 .. (0 - 1) = {} /\ 0 \in 0 .. MaxSize
  BY ContainersAssumption
<1>3. array_data \in [0 .. (array_capacity - 1) -> Value \cup {Raw}]
  <2>1. array_data \in [{} -> Value \cup {Raw}]
    BY <1>1
  <2>2. 0 .. (array_capacity - 1) = {}
    BY <1>1, <1>2
  <2> QED
    BY <2>1, <2>2
<1>6. array_failed \in BOOLEAN
  BY <1>1, Zenon
<1>4. array_capacity \in Nat /\ array_size \in 0 .. MaxSize /\ array_size <= array_capacity
  BY <1>1, <1>2
<1>5. /\ \A i \in 0 .. (array_size - 1) : array_data[i] \in Value
      /\ \A i \in array_size .. (array_capacity - 1) : array_data[i] = Raw
  BY <1>1, <1>2
<1> QED
  BY <1>3, <1>4, <1>5, <1>6 DEF ArrayInv

\* Of a reservation for n values.
LEMMA Reservation ==
    ASSUME ArrayInv, NEW n \in Nat
    PROVE  /\ Array!ReservedCapacity(n) \in Nat /\ n <= Array!ReservedCapacity(n)
           /\ array_size <= Array!ReservedCapacity(n)
           /\ Array!Reserved(n) \in [0 .. (Array!ReservedCapacity(n) - 1) -> Value \cup {Raw}]
           /\ \A i \in 0 .. (array_size - 1) : Array!Reserved(n)[i] = array_data[i]
           /\ ~array_failed => \A i \in array_size .. (Array!ReservedCapacity(n) - 1) : Array!Reserved(n)[i] = Raw
BY DEF ArrayInv, Array!Reserved, Array!ReservedCapacity

LEMMA ArrayPush == ASSUME ArrayInv, NEW v \in Value, Array!push_back(v) PROVE ArrayInv' /\ Array!Sequence!PushBack(v)
<1> DEFINE r == Array!Reserved(array_size + 1)
           c == Array!ReservedCapacity(array_size + 1)
<1>1. /\ array_size < MaxSize /\ array_data' = [r EXCEPT ![array_size] = v] /\ array_capacity' = c
      /\ array_size' = array_size + 1 /\ array_failed' = array_failed
  BY DEF Array!push_back
<1>0. array_size \in Nat /\ array_size + 1 \in Nat
  BY DEF ArrayInv
<1>2. /\ c \in Nat /\ array_size + 1 <= c
      /\ r \in [0 .. (c - 1) -> Value \cup {Raw}]
      /\ \A i \in 0 .. (array_size - 1) : r[i] = array_data[i]
      /\ ~array_failed => \A i \in array_size .. (c - 1) : r[i] = Raw
  BY <1>0, Reservation
<1> HIDE DEF r, c
<1>3. ArrayInv'
  BY <1>1, <1>2, ContainersAssumption DEF ArrayInv
<1>4. /\ Append(Array!contents, v) \in Seq(Value) /\ Len(Append(Array!contents, v)) = array_size + 1
      /\ \A k \in 1 .. array_size : Append(Array!contents, v)[k] = array_data[k - 1]
      /\ Append(Array!contents, v)[array_size + 1] = v
  BY ArrayContents, AppendProperties DEF ArrayListed
<1>5. ASSUME NEW k \in 1 .. (array_size + 1) PROVE Array!contents'[k] = Append(Array!contents, v)[k]
  <2>1. Array!contents'[k] = array_data'[k - 1] /\ k - 1 \in 0 .. array_size
    BY <1>0, <1>1, <1>3, ArrayContentsNext DEF ArrayListed
  <2>2. CASE k = array_size + 1
    BY <1>0, <1>1, <1>2, <1>4, <2>1, <2>2
  <2>3. CASE k # array_size + 1
    <3>1. k \in 1 .. array_size /\ k - 1 \in 0 .. (array_size - 1) /\ k - 1 # array_size
      BY <1>0, <2>3
    <3> QED
      BY <1>0, <1>1, <1>2, <1>4, <2>1, <3>1
  <2> QED
    BY <2>2, <2>3
<1>6. Array!contents' = Append(Array!contents, v)
  BY <1>0, <1>1, <1>3, <1>4, <1>5, ArrayContentsNext, SeqEqual DEF ArrayListed
<1> QED
  BY <1>1, <1>3, <1>6, ArrayContents DEF Array!Sequence!PushBack, ArrayListed

LEMMA ArrayPop == ASSUME ArrayInv, Array!pop_back PROVE ArrayInv' /\ Array!Sequence!PopBack
<1>1. /\ array_size > 0 /\ array_size' = array_size - 1 /\ array_data' = [array_data EXCEPT ![array_size - 1] = Raw]
      /\ array_capacity' = array_capacity /\ array_failed' = array_failed /\ array_size \in Nat
  BY DEF Array!pop_back, ArrayInv
<1>2. ArrayInv'
  <2>1. /\ array_capacity' \in Nat /\ array_size' \in 0 .. MaxSize /\ array_size' <= array_capacity'
        /\ array_failed' \in BOOLEAN
        /\ array_data' \in [0 .. (array_capacity' - 1) -> Value \cup {Raw}]
    BY <1>1, ContainersAssumption DEF ArrayInv
  <2>2. \A i \in 0 .. (array_size' - 1) : array_data'[i] \in Value
    BY <1>1 DEF ArrayInv
  <2>3. ASSUME ~array_failed', NEW i \in array_size' .. (array_capacity' - 1) PROVE array_data'[i] = Raw
    <3>1. ~array_failed
      BY <1>1, <2>3, Zenon
    <3> QED
      BY <1>1, <2>3, <3>1 DEF ArrayInv
  <2> QED
    BY <2>1, <2>2, <2>3 DEF ArrayInv
<1> DEFINE front == SubSeq(Array!contents, 1, Len(Array!contents) - 1)
<1>3. /\ front \in Seq(Value) /\ Len(front) = array_size - 1
      /\ \A k \in 1 .. (array_size - 1) : front[k] = array_data[k - 1]
  <2>1. Len(Array!contents) = array_size /\ array_size - 1 \in Nat /\ Array!contents \in Seq(Value)
    BY <1>1, ArrayContents DEF ArrayListed
  <2>2. /\ front \in Seq(Value) /\ Len(front) = array_size - 1
        /\ \A k \in 1 .. (array_size - 1) : front[k] = Array!contents[k]
    BY <1>1, <2>1
  <2> QED
    BY <1>1, <2>1, <2>2, ArrayContents DEF ArrayListed
<1> HIDE DEF front
<1>4. ASSUME NEW k \in 1 .. (array_size - 1) PROVE Array!contents'[k] = front[k]
  <2>1. Array!contents'[k] = array_data'[k - 1] /\ k - 1 # array_size - 1 /\ k - 1 \in 0 .. (array_capacity - 1)
    BY <1>1, <1>2, ArrayContentsNext DEF ArrayListed, ArrayInv
  <2> QED
    BY <1>1, <1>3, <2>1 DEF ArrayInv
<1>5. Array!contents' = front
  BY <1>1, <1>2, <1>3, <1>4, ArrayContentsNext, SeqEqual DEF ArrayListed
<1>6. Array!contents # <<>>
  BY <1>1, ArrayContents DEF ArrayListed
<1> QED
  BY <1>2, <1>5, <1>6 DEF Array!Sequence!PopBack, front

LEMMA ArrayResize ==
    ASSUME ArrayInv, NEW v \in Value, NEW n \in 0 .. MaxSize, Array!resize(n, v)
    PROVE  ArrayInv' /\ (Array!Sequence!Resize(n, v) \/ Array!contents' = Array!contents)
<1> DEFINE r == Array!Reserved(n)
           c == Array!ReservedCapacity(n)
<1>1. PICK copied \in (array_size .. n) \cup {n} :
          /\ array_data' = [i \in DOMAIN r |->
                               IF n <= i /\ i < array_size THEN Raw
                               ELSE IF array_size <= i /\ i < copied THEN v ELSE r[i]]
          /\ array_size' = IF copied = n THEN n ELSE array_size
          /\ array_failed' = (array_failed \/ copied # n)
  BY Zenon DEF Array!resize
<1>2. array_capacity' = c
  BY DEF Array!resize
<1>0. array_size \in Nat /\ n \in Nat /\ n <= MaxSize /\ MaxSize \in Nat /\ array_size <= MaxSize
  BY ContainersAssumption DEF ArrayInv
<1>3. /\ c \in Nat /\ n <= c /\ array_size <= c
      /\ r \in [0 .. (c - 1) -> Value \cup {Raw}]
      /\ \A i \in 0 .. (array_size - 1) : r[i] = array_data[i]
      /\ ~array_failed => \A i \in array_size .. (c - 1) : r[i] = Raw
  BY <1>0, Reservation
<1> HIDE DEF r, c
<1>4. /\ DOMAIN array_data' = 0 .. (c - 1)
      /\ \A i \in 0 .. (c - 1) :
            array_data'[i] = IF n <= i /\ i < array_size THEN Raw
                             ELSE IF array_size <= i /\ i < copied THEN v ELSE r[i]
  BY <1>1, <1>3
<1>5. array_data' \in [0 .. (c - 1) -> Value \cup {Raw}]
  <2>1. \A i \in 0 .. (c - 1) : array_data'[i] \in Value \cup {Raw}
    BY <1>3, <1>4
  <2> QED
    BY <1>1, <1>3, <2>1
<1>6. \A i \in 0 .. (array_size' - 1) : array_data'[i] \in Value
  BY <1>0, <1>1, <1>3, <1>4 DEF ArrayInv
<1>7. ~array_failed' => \A i \in array_size' .. (c - 1) : array_data'[i] = Raw
  <2>1. ~array_failed' => ~array_failed /\ copied = n
    BY <1>1, Zenon
  <2>2. ASSUME copied = n, ~array_failed, NEW i \in array_size' .. (c - 1) PROVE array_data'[i] = Raw
    <3>1. array_size' = n /\ i \in 0 .. (c - 1) /\ n <= i
      BY <1>0, <1>1, <2>2
    <3>2. array_data'[i] = IF i < array_size THEN Raw ELSE r[i]
      BY <1>0, <1>4, <2>2, <3>1
    <3> QED
      BY <1>0, <1>3, <2>2, <3>1, <3>2
  <2> QED
    BY <2>1, <2>2
<1>8. ArrayInv'
  <2>1. array_size' \in 0 .. MaxSize /\ array_size' <= c
    BY <1>0, <1>1, <1>3
  <2>2. array_failed' \in BOOLEAN
    BY <1>1
  <2> QED
    BY <1>2, <1>3, <1>5, <1>6, <1>7, <2>1, <2>2 DEF ArrayInv
<1>9. CASE copied = n
  <2> DEFINE longer == [i \in 1 .. n |-> IF i <= Len(Array!contents) THEN Array!contents[i] ELSE v]
  <2>1. array_size' = n
    BY <1>1, <1>9
  <2>2. ASSUME NEW k \in 1 .. n PROVE array_data'[k - 1] = longer[k]
    <3>1. k - 1 \in 0 .. (c - 1) /\ k - 1 < n /\ k \in Nat
      BY <1>0, <1>3
    <3>2. CASE k <= array_size
      <4>1. k - 1 \in 0 .. (array_size - 1) /\ k \in 1 .. array_size
        BY <1>0, <3>1, <3>2
      <4>2. array_data'[k - 1] = array_data[k - 1]
        BY <1>0, <1>3, <1>4, <3>1, <4>1
      <4>3. longer[k] = array_data[k - 1]
        BY <4>1, <3>2, ArrayContents DEF ArrayListed
      <4> QED
        BY <4>2, <4>3
    <3>3. CASE ~(k <= array_size)
      <4>1. array_data'[k - 1] = v
        BY <1>0, <1>4, <1>9, <3>1, <3>3
      <4>2. longer[k] = v
        BY <3>3, ArrayContents DEF ArrayListed
      <4> QED
        BY <4>1, <4>2
    <3> QED
      BY <3>2, <3>3
  <2>3. Array!contents' = [k \in 1 .. n |-> array_data'[k - 1]]
    BY <2>1 DEF Array!contents
  <2>4. Array!contents' = longer
    BY <2>2, <2>3
  <2> QED
    BY <1>8, <2>4 DEF Array!Sequence!Resize
<1>10. CASE copied # n
  <2>1. array_size' = array_size /\ array_size < n
    BY <1>0, <1>1, <1>10
  <2>2. ASSUME NEW k \in 1 .. array_size PROVE array_data'[k - 1] = array_data[k - 1]
    <3>1. k - 1 \in 0 .. (array_size - 1) /\ k - 1 \in 0 .. (c - 1)
      BY <1>0, <1>3
    <3> QED
      BY <1>0, <1>3, <1>4, <2>1, <3>1
  <2>3. Array!contents' = [k \in 1 .. array_size |-> array_data'[k - 1]]
    BY <2>1 DEF Array!contents
  <2>4. Array!contents' = Array!contents
    BY <2>2, <2>3 DEF Array!contents
  <2> QED
    BY <1>8, <2>4
<1> QED
  BY <1>9, <1>10

\* The other operations keep the values, or leave none.
LEMMA ArrayOthers ==
    ASSUME ArrayInv, (\E n \in 0 .. MaxSize : Array!reserve(n)) \/ Array!clear \/ Array!CopyAndDestroy
    PROVE  ArrayInv' /\ (Array!contents' = Array!contents \/ Array!Sequence!Clear)
<1>0. array_size \in Nat
  BY DEF ArrayInv
<1>1. ASSUME NEW n \in 0 .. MaxSize, Array!reserve(n) PROVE ArrayInv' /\ Array!contents' = Array!contents
  <2>1. /\ array_data' = Array!Reserved(n) /\ array_capacity' = Array!ReservedCapacity(n)
        /\ array_size' = array_size /\ array_failed' = array_failed
    BY <1>1 DEF Array!reserve
  <2>2. /\ array_capacity' \in Nat /\ array_size <= array_capacity'
        /\ array_data' \in [0 .. (array_capacity' - 1) -> Value \cup {Raw}]
        /\ \A i \in 0 .. (array_size - 1) : array_data'[i] = array_data[i]
        /\ ~array_failed => \A i \in array_size .. (array_capacity' - 1) : array_data'[i] = Raw
    <3>1. n \in Nat
      OBVIOUS
    <3> QED
      BY <2>1, <3>1, Reservation
  <2>3. ArrayInv'
    BY <2>1, <2>2 DEF ArrayInv
  <2>4. Array!contents' = Array!contents
    <3>1. \A k \in 1 .. array_size : k - 1 \in 0 .. (array_size - 1)
      BY <1>0
    <3>2. \A k \in 1 .. array_size : array_data'[k - 1] = array_data[k - 1]
      BY <2>2, <3>1
    <3> QED
      BY <2>1, <3>2 DEF Array!contents
  <2> QED
    BY <2>3, <2>4
<1>2. CASE Array!clear
  <2>1. /\ array_data' = [i \in DOMAIN array_data |-> IF i < array_size THEN Raw ELSE array_data[i]]
        /\ array_size' = 0 /\ array_capacity' = array_capacity /\ array_failed' = array_failed
    BY <1>2 DEF Array!clear
  <2>2. ArrayInv'
    BY <2>1, ContainersAssumption DEF ArrayInv
  <2>3. Array!contents' = <<>>
    BY <2>1, <2>2, ArrayContentsNext, EmptySeq DEF ArrayListed
  <2> QED
    BY <2>2, <2>3 DEF Array!Sequence!Clear
<1>3. CASE Array!CopyAndDestroy
  <2>1. /\ array_data' = [i \in 0 .. (array_size - 1) |-> array_data[i]] /\ array_capacity' = array_size
        /\ array_failed' = FALSE /\ array_size' = array_size
    BY <1>3 DEF Array!CopyAndDestroy
  <2>2. ArrayInv'
    <3>1. array_size .. (array_size - 1) = {}
      BY <1>0
    <3>2. array_data' \in [0 .. (array_capacity' - 1) -> Value \cup {Raw}]
      BY <1>0, <2>1 DEF ArrayInv
    <3>3. \A i \in 0 .. (array_size' - 1) : array_data'[i] \in Value
      BY <1>0, <2>1 DEF ArrayInv
    <3>4. \A i \in array_size' .. (array_capacity' - 1) : array_data'[i] = Raw
      BY <2>1, <3>1
    <3>6. array_failed' \in BOOLEAN
      BY <2>1, Zenon
    <3>5. /\ array_capacity' \in Nat /\ array_size' \in 0 .. MaxSize
          /\ array_size' <= array_capacity'
      BY <1>0, <2>1 DEF ArrayInv
    <3> QED
      BY <3>2, <3>3, <3>4, <3>5, <3>6 DEF ArrayInv
  <2>3. Array!contents' = Array!contents
    <3>1. \A k \in 1 .. array_size : array_data'[k - 1] = array_data[k - 1]
      BY <1>0, <2>1
    <3> QED
      BY <2>1, <3>1 DEF Array!contents
  <2> QED
    BY <2>2, <2>3
<1> QED
  BY <1>1, <1>2, <1>3

LEMMA ArrayStep ==
    ArrayInv /\ [Array!ArrayNext]_arrayState => ArrayInv' /\ [Array!Sequence!Next]_(Array!Sequence!dequeVars)
<1> SUFFICES ASSUME ArrayInv, [Array!ArrayNext]_arrayState
             PROVE  ArrayInv' /\ (Array!Sequence!Next \/ Array!contents' = Array!contents)
  BY ContainersAssumption DEF Array!Sequence!dequeVars
<1>1. CASE \E v \in Value : Array!push_back(v) \/ \E n \in 0 .. MaxSize : Array!resize(n, v)
  BY <1>1, ArrayPush, ArrayResize DEF Array!Sequence!Next
<1>2. CASE Array!pop_back
  BY <1>2, ArrayPop DEF Array!Sequence!Next
<1>3. CASE (\E n \in 0 .. MaxSize : Array!reserve(n)) \/ Array!clear \/ Array!CopyAndDestroy
  BY <1>3, ArrayOthers DEF Array!Sequence!Next
<1>4. CASE UNCHANGED arrayState
  BY <1>4 DEF arrayState, ArrayInv, Array!contents
<1> QED
  BY <1>1, <1>2, <1>3, <1>4 DEF Array!ArrayNext

LEMMA ArrayInvariantSuffices == ArrayInv => Array!SlotsAgree
BY RawAssumption DEF ArrayInv, Array!SlotsAgree

LEMMA ArrayInitRefines == Array!ArrayInit => Array!Sequence!Init
<1> SUFFICES ASSUME Array!ArrayInit PROVE Array!Sequence!Init
  OBVIOUS
<1>1. array_size = 0
  BY DEF Array!ArrayInit
<1>2. Array!contents = <<>>
  BY <1>1, ArrayInitInvariant, ArrayContents, EmptySeq DEF ArrayListed
<1> QED
  BY <1>2 DEF Array!Sequence!Init

-----------------------------------------------------------------------------
(***************************************************************************)
(* The map.                                                                *)
(***************************************************************************)
Pairs == [first : Key, second : Value]

MapInv ==
    /\ pairs \in Seq(Pairs \cup {Map!Moved})
    /\ Map!KeysInOrder

LEMMA NotMoved == Map!Moved \notin Pairs
<1>1. "moved" \in DOMAIN Map!Moved
  BY DEF Map!Moved
<1> QED
  BY <1>1 DEF Pairs

LEMMA Induction ==
    ASSUME NEW S \in SUBSET Nat, 0 \in S, \A n \in S : n + 1 \in S
    PROVE  S = Nat
<1> DEFINE R == OpToRel(<, Nat)
<1>1. SUFFICES ASSUME Nat \ S # {} PROVE FALSE
  OBVIOUS
<1>2. IsWellFoundedOn(R, Nat)
  BY NatLessThanWellFounded
<1>3. PICK m \in Nat \ S : \A y \in Nat \ S : ~(<<y, m>> \in R)
  <2> HIDE DEF R
  <2> QED
    BY <1>1, <1>2, WFMin
<1>4. \A y \in Nat \ S : ~(y < m)
  BY <1>3 DEF OpToRel
<1>5. m \in Nat /\ m \notin S /\ m # 0
  OBVIOUS
<1>6. m - 1 \in Nat /\ m - 1 < m /\ (m - 1) + 1 = m
  BY <1>5
<1> QED
  BY <1>4, <1>5, <1>6

LEMMA LastOf ==
    ASSUME NEW k \in Nat, NEW s \in SUBSET (1 .. k + 1), k + 1 \in s
    PROVE  Map!Max(s) = k + 1
<1> DEFINE IsLast(x) == x \in s /\ \A y \in s : x >= y
<1>1. IsLast(k + 1) /\ \A x : IsLast(x) => x = k + 1
  <2>1. \A y \in s : k + 1 >= y
    OBVIOUS
  <2>2. ASSUME NEW x \in s, \A y \in s : x >= y PROVE x = k + 1
    <3>1. x \in 1 .. k + 1 /\ x >= k + 1
      BY <2>2
    <3> QED
      BY <3>1
  <2> QED
    BY <2>1, <2>2
<1>2. Map!Max(s) = CHOOSE x : IsLast(x)
  BY Zenon DEF Map!Max
<1> HIDE DEF IsLast
<1>3. IsLast(CHOOSE x : IsLast(x))
  BY <1>1, Zenon
<1> QED
  BY <1>1, <1>2, <1>3, Zenon

\* The folds of SortedMap: what is made of b and the next element e.  The loop is "pass",
\* "sort", or otherwise the key that is erased.
FoldStep(loop, b, e) ==
    IF loop = <<"pass">> THEN Map!SortNeighbours(b, e)
    ELSE IF loop = <<"sort">> THEN Map!SortPass(b)
    ELSE Map!Keep(loop[2], b, e)

FoldOf(loop, base, seq, g, s) ==
    IF s = {} THEN base ELSE LET i == Map!Max(s) IN FoldStep(loop, g[s \ {i}], seq[i])

IsFold(loop, base, seq, n, g) == g = [s \in SUBSET (1 .. n) |-> FoldOf(loop, base, seq, g, s)]

LEMMA FoldExists ==
    ASSUME NEW loop, NEW base, NEW seq
    PROVE  \A k \in Nat : \E g : IsFold(loop, base, seq, k, g)
<1> DEFINE S == {k \in Nat : \E g : g = [s \in SUBSET (1 .. k) |-> FoldOf(loop, base, seq, g, s)]}
<1>1. 0 \in S
  <2> DEFINE g == [s \in SUBSET (1 .. 0) |-> base]
  <2>1. \A s \in SUBSET (1 .. 0) : FoldOf(loop, base, seq, g, s) = base
    BY DEF FoldOf
  <2>2. g = [s \in SUBSET (1 .. 0) |-> FoldOf(loop, base, seq, g, s)]
    BY <2>1
  <2> QED
    BY <2>2
<1>2. ASSUME NEW k \in S PROVE k + 1 \in S
  <2>1. PICK g : g = [s \in SUBSET (1 .. k) |-> FoldOf(loop, base, seq, g, s)]
    OBVIOUS
  <2> DEFINE f == [s \in SUBSET (1 .. k + 1) |->
                      IF k + 1 \in s THEN FoldStep(loop, g[s \ {k + 1}], seq[k + 1]) ELSE g[s]]
  <2>2. ASSUME NEW s \in SUBSET (1 .. k + 1), k + 1 \in s PROVE f[s] = FoldOf(loop, base, seq, f, s)
    <3>1. s \ {k + 1} \in SUBSET (1 .. k) /\ s \ {k + 1} \in SUBSET (1 .. k + 1) /\ k + 1 \notin s \ {k + 1}
      OBVIOUS
    <3>2. f[s \ {k + 1}] = g[s \ {k + 1}]
      BY <3>1, Zenon
    <3>3. Map!Max(s) = k + 1
      BY <2>2, LastOf
    <3>4. f[s] = FoldStep(loop, g[s \ {k + 1}], seq[k + 1])
      BY <2>2, Zenon
    <3> HIDE DEF f
    <3>5. FoldOf(loop, base, seq, f, s) = FoldStep(loop, f[s \ {k + 1}], seq[k + 1])
      BY <2>2, <3>3, Zenon DEF FoldOf
    <3> QED
      BY <3>2, <3>4, <3>5, Zenon
  <2>3. ASSUME NEW s \in SUBSET (1 .. k + 1), k + 1 \notin s PROVE f[s] = FoldOf(loop, base, seq, f, s)
    <3>1. s \in SUBSET (1 .. k)
      BY <2>3
    <3>2. f[s] = g[s] /\ g[s] = FoldOf(loop, base, seq, g, s)
      BY <2>1, <2>3, <3>1, Zenon
    <3>3. \A i : s \ {i} \in SUBSET (1 .. k) /\ s \ {i} \in SUBSET (1 .. k + 1) /\ k + 1 \notin s \ {i}
      BY <2>3, <3>1
    <3>4. \A i : f[s \ {i}] = g[s \ {i}]
      BY <3>3, Zenon
    <3> HIDE DEF f
    <3>5. FoldOf(loop, base, seq, f, s) = FoldOf(loop, base, seq, g, s)
      BY <3>4, Zenon DEF FoldOf
    <3> QED
      BY <3>2, <3>5
  <2>4. f = [s \in SUBSET (1 .. k + 1) |-> f[s]]
    OBVIOUS
  <2>5. \A s \in SUBSET (1 .. k + 1) : f[s] = FoldOf(loop, base, seq, f, s)
    BY <2>2, <2>3
  <2> HIDE DEF f
  <2>6. f = [s \in SUBSET (1 .. k + 1) |-> FoldOf(loop, base, seq, f, s)]
    BY <2>4, <2>5, Zenon
  <2> QED
    BY <2>6
<1> HIDE DEF S
<1>3. S = Nat
  <2>1. S \in SUBSET Nat
    BY DEF S
  <2> QED
    BY <1>1, <1>2, <2>1, Induction
<1> QED
  BY <1>3 DEF S, IsFold

\* What a fold is after k elements, W[k].
IsChain(loop, base, seq, n, W) ==
    W[0] = base /\ \A k \in 0 .. n - 1 : W[k + 1] = FoldStep(loop, W[k], seq[k + 1])

LEMMA FoldChain ==
    ASSUME NEW loop, NEW base, NEW seq, NEW n \in Nat,
           NEW g, IsFold(loop, base, seq, n, g)
    PROVE  \E W : IsChain(loop, base, seq, n, W) /\ W[n] = g[1 .. n]
<1> DEFINE W == [k \in 0 .. n |-> g[1 .. k]]
<1>3. W[0] = base
  <2>1. 1 .. 0 = {} /\ 0 \in 0 .. n /\ {} \in SUBSET (1 .. n)
    OBVIOUS
  <2>2. W[0] = g[{}]
    BY <2>1
  <2>3. g[{}] = FoldOf(loop, base, seq, g, {})
    BY <2>1, Zenon DEF IsFold
  <2> QED
    BY <2>2, <2>3, Zenon DEF FoldOf
<1>4. W[n] = g[1 .. n]
  <2>1. n \in 0 .. n
    OBVIOUS
  <2> QED
    BY <2>1, Zenon
<1>5. ASSUME NEW k \in 0 .. n - 1 PROVE W[k + 1] = FoldStep(loop, W[k], seq[k + 1])
  <2>1. k \in Nat /\ n \in Nat /\ k + 1 <= n
    OBVIOUS
  <2>2. (1 .. k + 1) \ {k + 1} = 1 .. k
    BY <2>1
  <2>3. k + 1 \in 1 .. k + 1 /\ k \in 0 .. n /\ k + 1 \in 0 .. n /\ k + 1 \in 1 .. n
    BY <2>1
  <2>4. 1 .. k + 1 # {} /\ 1 .. k + 1 \in SUBSET (1 .. n)
    <3>1. 1 .. k + 1 # {}
      BY <2>3, Zenon
    <3>2. 1 .. k + 1 \subseteq 1 .. n
      BY <2>1
    <3> QED
      BY <3>1, <3>2
  <2>5. Map!Max(1 .. k + 1) = k + 1
    BY <2>1, <2>3, LastOf
  <2>6. g[1 .. k + 1] = FoldOf(loop, base, seq, g, 1 .. k + 1)
    BY <2>4, Zenon DEF IsFold
  <2>7. g[1 .. k + 1] = FoldStep(loop, g[1 .. k], seq[k + 1])
    BY <2>2, <2>4, <2>5, <2>6, Zenon DEF FoldOf
  <2> QED
    BY <2>3, <2>7, Zenon
<1> HIDE DEF W
<1> QED
  BY <1>3, <1>4, <1>5 DEF IsChain

\* The three loops.
LEMMA PassFold ==
    ASSUME NEW a, Len(a) \in Nat, Len(a) > 0
    PROVE  \E W : /\ W[0] = a /\ W[Len(a) - 1] = Map!SortPass(a)
                  /\ \A k \in 0 .. (Len(a) - 1) - 1 : W[k + 1] = Map!SortNeighbours(W[k], k + 1)
<1> DEFINE n == Len(a) - 1
           seq == [i \in 1 .. Len(a) - 1 |-> i]
           loop == <<"pass">>
           base == a
<1>0. n \in Nat
  OBVIOUS
<1>1. DOMAIN seq = 1 .. n
  OBVIOUS
<1>2. \A b, e : FoldStep(loop, b, e) = Map!SortNeighbours(b, e)
  BY Zenon DEF FoldStep
<1>3. Map!SortPass(a) = Map!FoldLeft(LAMBDA b, e : Map!SortNeighbours(b, e), base, seq)
  BY Zenon DEF Map!SortPass
<1>9. \A k \in 0 .. n - 1 : seq[k + 1] = k + 1
  OBVIOUS
<1> HIDE DEF n, seq, loop, base
<1>4. \A g, s : FoldOf(loop, base, seq, g, s) =
                   IF s = {} THEN base ELSE LET i == Map!Max(s) IN Map!SortNeighbours(g[s \ {i}], seq[i])
  BY <1>2, Zenon DEF FoldOf
<1>5. PICK g : IsFold(loop, base, seq, n, g) /\ Map!SortPass(a) = g[1 .. n]
  <2>1. \E g : g = [s \in SUBSET (DOMAIN seq) |->
                       IF s = {} THEN base ELSE LET i == Map!Max(s) IN Map!SortNeighbours(g[s \ {i}], seq[i])]
    <3>1. PICK g : IsFold(loop, base, seq, n, g)
      BY <1>0, FoldExists
    <3>2. g = [s \in SUBSET (1 .. n) |-> IF s = {} THEN base ELSE LET i == Map!Max(s) IN Map!SortNeighbours(g[s \ {i}], seq[i])]
      BY <1>4, <3>1 DEF IsFold
    <3> QED
      BY <1>1, <3>2
  <2>2. PICK g : /\ g = [s \in SUBSET (DOMAIN seq) |->
                            IF s = {} THEN base ELSE LET i == Map!Max(s) IN Map!SortNeighbours(g[s \ {i}], seq[i])]
                 /\ Map!SortPass(a) = g[DOMAIN seq]
    BY <1>3, <2>1, Zenon DEF Map!FoldLeft, Map!MapThenFoldSet
  <2>3. IsFold(loop, base, seq, n, g)
    BY <1>1, <1>4, <2>2 DEF IsFold
  <2> QED
    BY <1>1, <2>2, <2>3
<1>6. PICK W : IsChain(loop, base, seq, n, W) /\ W[n] = g[1 .. n]
  BY <1>0, <1>5, FoldChain
<1>7. \A k \in 0 .. n - 1 : W[k + 1] = Map!SortNeighbours(W[k], k + 1)
  BY <1>2, <1>6, <1>9, Zenon DEF IsChain
<1>8. W[0] = base /\ W[n] = Map!SortPass(a)
  BY <1>5, <1>6 DEF IsChain
<1> QED
  BY <1>7, <1>8 DEF n, base

LEMMA SortFold ==
    ASSUME NEW a, Len(a) \in Nat, DOMAIN a = 1 .. Len(a)
    PROVE  \E W : /\ W[0] = a /\ W[Len(a)] = Map!internal_sort(a)
                  /\ \A k \in 0 .. (Len(a)) - 1 : W[k + 1] = Map!SortPass(W[k])
<1> DEFINE n == Len(a)
           seq == a
           loop == <<"sort">>
           base == a
<1>0. n \in Nat
  OBVIOUS
<1>1. DOMAIN seq = 1 .. n
  OBVIOUS
<1>2. \A b, e : FoldStep(loop, b, e) = Map!SortPass(b)
  <2>1. <<"sort">> # <<"pass">>
    OBVIOUS
  <2> QED
    BY <2>1, Zenon DEF FoldStep
<1>3. Map!internal_sort(a) = Map!FoldLeft(LAMBDA b, e : Map!SortPass(b), base, seq)
  BY Zenon DEF Map!internal_sort
<1> HIDE DEF n, seq, loop, base
<1>4. \A g, s : FoldOf(loop, base, seq, g, s) =
                   IF s = {} THEN base ELSE LET i == Map!Max(s) IN Map!SortPass(g[s \ {i}])
  BY <1>2, Zenon DEF FoldOf
<1>5. PICK g : IsFold(loop, base, seq, n, g) /\ Map!internal_sort(a) = g[1 .. n]
  <2>1. \E g : g = [s \in SUBSET (DOMAIN seq) |->
                       IF s = {} THEN base ELSE LET i == Map!Max(s) IN Map!SortPass(g[s \ {i}])]
    <3>1. PICK g : IsFold(loop, base, seq, n, g)
      BY <1>0, FoldExists
    <3>2. g = [s \in SUBSET (1 .. n) |-> IF s = {} THEN base ELSE LET i == Map!Max(s) IN Map!SortPass(g[s \ {i}])]
      BY <1>4, <3>1 DEF IsFold
    <3> QED
      BY <1>1, <3>2
  <2>2. PICK g : /\ g = [s \in SUBSET (DOMAIN seq) |->
                            IF s = {} THEN base ELSE LET i == Map!Max(s) IN Map!SortPass(g[s \ {i}])]
                 /\ Map!internal_sort(a) = g[DOMAIN seq]
    BY <1>3, <2>1, Zenon DEF Map!FoldLeft, Map!MapThenFoldSet
  <2>3. IsFold(loop, base, seq, n, g)
    BY <1>1, <1>4, <2>2 DEF IsFold
  <2> QED
    BY <1>1, <2>2, <2>3
<1>6. PICK W : IsChain(loop, base, seq, n, W) /\ W[n] = g[1 .. n]
  BY <1>0, <1>5, FoldChain
<1>7. \A k \in 0 .. n - 1 : W[k + 1] = Map!SortPass(W[k])
  BY <1>2, <1>6, Zenon DEF IsChain
<1>8. W[0] = base /\ W[n] = Map!internal_sort(a)
  BY <1>5, <1>6 DEF IsChain
<1> QED
  BY <1>7, <1>8 DEF n, base

\* What erase() leaves.
Erased(x, a) == Map!FoldLeft(LAMBDA b, e : Map!Keep(x, b, e), <<>>, a)

LEMMA EraseFold ==
    ASSUME NEW a, NEW x \in Int, Len(a) \in Nat, DOMAIN a = 1 .. Len(a)
    PROVE  \E W : /\ W[0] = <<>> /\ W[Len(a)] = Erased(x, a)
                  /\ \A k \in 0 .. (Len(a)) - 1 : W[k + 1] = Map!Keep(x, W[k], a[k + 1])
<1> DEFINE n == Len(a)
           seq == a
           loop == <<"erase", x>>
           base == <<>>
<1>0. n \in Nat
  OBVIOUS
<1>1. DOMAIN seq = 1 .. n
  OBVIOUS
<1>2. \A b, e : FoldStep(loop, b, e) = Map!Keep(x, b, e)
  <2>1. /\ <<"erase", x>> # <<"pass">> /\ <<"erase", x>> # <<"sort">>
        /\ <<"erase", x>>[2] = x
    OBVIOUS
  <2> QED
    BY <2>1, Zenon DEF FoldStep
<1>3. Erased(x, a) = Map!FoldLeft(LAMBDA b, e : Map!Keep(x, b, e), base, seq)
  BY Zenon DEF base, Erased
<1> HIDE DEF n, seq, loop, base
<1>4. \A g, s : FoldOf(loop, base, seq, g, s) =
                   IF s = {} THEN base ELSE LET i == Map!Max(s) IN Map!Keep(x, g[s \ {i}], seq[i])
  BY <1>2, Zenon DEF FoldOf
<1>5. PICK g : IsFold(loop, base, seq, n, g) /\ Erased(x, a) = g[1 .. n]
  <2>1. \E g : g = [s \in SUBSET (DOMAIN seq) |->
                       IF s = {} THEN base ELSE LET i == Map!Max(s) IN Map!Keep(x, g[s \ {i}], seq[i])]
    <3>1. PICK g : IsFold(loop, base, seq, n, g)
      BY <1>0, FoldExists
    <3>2. g = [s \in SUBSET (1 .. n) |-> IF s = {} THEN base ELSE LET i == Map!Max(s) IN Map!Keep(x, g[s \ {i}], seq[i])]
      BY <1>4, <3>1 DEF IsFold
    <3> QED
      BY <1>1, <3>2
  <2>2. PICK g : /\ g = [s \in SUBSET (DOMAIN seq) |->
                            IF s = {} THEN base ELSE LET i == Map!Max(s) IN Map!Keep(x, g[s \ {i}], seq[i])]
                 /\ Erased(x, a) = g[DOMAIN seq]
    BY <1>3, <2>1, Zenon DEF Map!FoldLeft, Map!MapThenFoldSet
  <2>3. IsFold(loop, base, seq, n, g)
    BY <1>1, <1>4, <2>2 DEF IsFold
  <2> QED
    BY <1>1, <2>2, <2>3
<1>6. PICK W : IsChain(loop, base, seq, n, W) /\ W[n] = g[1 .. n]
  BY <1>0, <1>5, FoldChain
<1>7. \A k \in 0 .. n - 1 : W[k + 1] = Map!Keep(x, W[k], a[k + 1])
  BY <1>2, <1>6, Zenon DEF IsChain, seq
<1>8. W[0] = base /\ W[n] = Erased(x, a)
  BY <1>5, <1>6 DEF IsChain
<1> QED
  BY <1>7, <1>8 DEF n, base

-----------------------------------------------------------------------------
\* Sorting: the pair at the end moves to its place, a place in each pass.
Sorted(a) == \A i, j \in DOMAIN a : i < j => a[i].first < a[j].first

\* The pairs of a with p at place q.
Inserted(a, p, q) ==
    [i \in 1 .. Len(a) + 1 |-> IF i < q THEN a[i] ELSE IF i = q THEN p ELSE a[i - 1]]

\* Place q is not too far to the left, or to the right.
FarEnough(a, p, q) == \A j \in q .. Len(a) : p.first < a[j].first
NearEnough(a, p, q) == q = 1 \/ ~(p.first < a[q - 1].first)

\* Where a pass moves it.
Moves(a, p, q) == IF NearEnough(a, p, q) THEN q ELSE q - 1

LEMMA PairsKeys ==
    ASSUME NEW a \in Seq(Pairs)
    PROVE  /\ Len(a) \in Nat /\ DOMAIN a = 1 .. Len(a)
           /\ \A i \in 1 .. Len(a) : a[i] \in Pairs /\ a[i].first \in Int
<1>1. \A e \in Pairs : e.first \in Int
  BY ContainersAssumption DEF Pairs
<1> HIDE DEF Pairs
<1>2. Len(a) \in Nat /\ DOMAIN a = 1 .. Len(a) /\ \A i \in 1 .. Len(a) : a[i] \in Pairs
  OBVIOUS
<1> QED
  BY <1>1, <1>2

LEMMA NeighboursInOrder ==
    ASSUME NEW a \in Seq(Pairs), Sorted(a), NEW p \in Pairs, NEW q \in 1 .. Len(a) + 1, FarEnough(a, p, q),
           NEW i \in 1 .. Len(a)
    PROVE  Map!SortNeighbours(Inserted(a, p, q), i) = Inserted(a, p, IF i + 1 = q THEN Moves(a, p, q) ELSE q)
<1> DEFINE b == Inserted(a, p, q)
<1>1. /\ Len(a) \in Nat /\ DOMAIN a = 1 .. Len(a)
      /\ \A j \in 1 .. Len(a) : a[j].first \in Int
      /\ p.first \in Int
  BY PairsKeys, ContainersAssumption DEF Pairs
<1>2. /\ b[i] = IF i < q THEN a[i] ELSE IF i = q THEN p ELSE a[i - 1]
      /\ b[i + 1] = IF i + 1 < q THEN a[i + 1] ELSE IF i + 1 = q THEN p ELSE a[i]
  <2>1. i \in 1 .. Len(a) + 1 /\ i + 1 \in 1 .. Len(a) + 1 /\ (i + 1) - 1 = i
    BY <1>1
  <2> QED
    BY <2>1 DEF Inserted
<1>3. CASE i + 1 # q
  <2>1. b[i].first < b[i + 1].first
    <3>1. CASE i + 1 < q
      <4>1. i < q /\ i + 1 \in 1 .. Len(a) /\ i < i + 1
        BY <1>1, <3>1
      <4> QED
        BY <1>1, <1>2, <3>1, <4>1 DEF Sorted
    <3>2. CASE i = q
      BY <1>1, <1>2, <3>2 DEF FarEnough
    <3>3. CASE i > q
      <4>1. i - 1 \in 1 .. Len(a) /\ i - 1 < i
        BY <1>1, <3>3
      <4> QED
        BY <1>1, <1>2, <3>3, <4>1 DEF Sorted
    <3> QED
      BY <1>1, <1>3, <3>1, <3>2, <3>3
  <2>2. b[i].first \in Int /\ b[i + 1].first \in Int
    BY <1>1, <1>2, <1>3
  <2> HIDE DEF b
  <2>3. Map!SortNeighbours(b, i) = b
    BY <2>1, <2>2 DEF Map!SortNeighbours
  <2> QED
    BY <1>3, <2>3 DEF b
<1>4. CASE i + 1 = q
  <2>1. b[i] = a[i] /\ b[i + 1] = p /\ q - 1 = i /\ q # 1
    BY <1>1, <1>2, <1>4
  <2>2. CASE ~(p.first < a[i].first)
    <3>1. Moves(a, p, q) = q
      BY <2>1, <2>2 DEF Moves, NearEnough
    <3> HIDE DEF b
    <3>2. Map!SortNeighbours(b, i) = b
      BY <2>1, <2>2 DEF Map!SortNeighbours
    <3> QED
      BY <1>4, <3>1, <3>2 DEF b
  <2>3. CASE p.first < a[i].first
    <3>1. Moves(a, p, q) = i
      BY <2>1, <2>3 DEF Moves, NearEnough
    <3>2. DOMAIN b = 1 .. Len(a) + 1
      BY DEF Inserted
    <3> DEFINE c == [b EXCEPT ![i] = b[i + 1], ![i + 1] = b[i]]
    <3>3. Map!SortNeighbours(b, i) = c
      <4> HIDE DEF b
      <4> QED
        BY <2>1, <2>3, Zenon DEF Map!SortNeighbours
    <3>4. ASSUME NEW j \in 1 .. Len(a) + 1 PROVE c[j] = Inserted(a, p, i)[j]
      <4>1. c[j] = IF j = i + 1 THEN a[i] ELSE IF j = i THEN p ELSE b[j]
        <5>1. i \in DOMAIN b /\ i + 1 \in DOMAIN b /\ j \in DOMAIN b /\ i # i + 1
          BY <1>1, <3>2
        <5> HIDE DEF b
        <5> QED
          BY <2>1, <5>1
      <4>2. b[j] = IF j < i + 1 THEN a[j] ELSE IF j = i + 1 THEN p ELSE a[j - 1]
        BY <1>4 DEF Inserted
      <4>3. Inserted(a, p, i)[j] = IF j < i THEN a[j] ELSE IF j = i THEN p ELSE a[j - 1]
        BY DEF Inserted
      <4>4. (i + 1) - 1 = i
        OBVIOUS
      <4> HIDE DEF b, c
      <4> QED
        BY <1>1, <4>1, <4>2, <4>3, <4>4
    <3>5. c = [j \in 1 .. Len(a) + 1 |-> c[j]] /\ Inserted(a, p, i) = [j \in 1 .. Len(a) + 1 |-> Inserted(a, p, i)[j]]
      <4>1. Inserted(a, p, i) = [j \in 1 .. Len(a) + 1 |-> Inserted(a, p, i)[j]]
        BY DEF Inserted
      <4> HIDE DEF b
      <4> QED
        BY <3>2, <4>1
    <3>6. c = Inserted(a, p, i)
      <4> HIDE DEF c
      <4> QED
        BY <3>4, <3>5
    <3> QED
      BY <1>4, <3>1, <3>3, <3>6
  <2> QED
    BY <2>2, <2>3
<1> QED
  BY <1>3, <1>4

LEMMA MovesOn ==
    ASSUME NEW a \in Seq(Pairs), NEW p \in Pairs, NEW q \in 1 .. Len(a) + 1, FarEnough(a, p, q)
    PROVE  /\ Moves(a, p, q) \in 1 .. Len(a) + 1 /\ FarEnough(a, p, Moves(a, p, q))
           /\ NearEnough(a, p, q) => Moves(a, p, q) = q
           /\ ~NearEnough(a, p, q) => Moves(a, p, q) = q - 1
<1>1. Len(a) \in Nat
  OBVIOUS
<1>2. CASE ~NearEnough(a, p, q)
  <2>1. q # 1 /\ p.first < a[q - 1].first /\ Moves(a, p, q) = q - 1
    BY <1>2 DEF NearEnough, Moves
  <2>2. \A j \in q - 1 .. Len(a) : j = q - 1 \/ j \in q .. Len(a)
    OBVIOUS
  <2> QED
    BY <1>1, <1>2, <2>1, <2>2 DEF FarEnough
<1>3. CASE NearEnough(a, p, q)
  BY <1>3 DEF Moves
<1> QED
  BY <1>2, <1>3

LEMMA InsertedLength ==
    ASSUME NEW a \in Seq(Pairs), NEW p \in Pairs, NEW q \in 1 .. Len(a) + 1
    PROVE  Inserted(a, p, q) \in Seq(Pairs) /\ Len(Inserted(a, p, q)) = Len(a) + 1
<1>1. Len(a) \in Nat /\ \A j \in 1 .. Len(a) : a[j] \in Pairs
  OBVIOUS
<1>2. Inserted(a, p, q) \in [1 .. Len(a) + 1 -> Pairs]
  BY <1>1 DEF Inserted
<1> QED
  BY <1>1, <1>2, SeqDef, LenProperties

LEMMA PassMoves ==
    ASSUME NEW a \in Seq(Pairs), Sorted(a), NEW p \in Pairs, NEW q \in 1 .. Len(a) + 1, FarEnough(a, p, q)
    PROVE  Map!SortPass(Inserted(a, p, q)) = Inserted(a, p, Moves(a, p, q))
<1> DEFINE b == Inserted(a, p, q)
           n == Len(a)
           to == Moves(a, p, q)
<1>1. n \in Nat /\ Len(b) = n + 1
  BY InsertedLength
<1>2. PICK W : /\ W[0] = b /\ W[n] = Map!SortPass(b)
               /\ \A k \in 0 .. n - 1 : W[k + 1] = Map!SortNeighbours(W[k], k + 1)
  <2>1. Len(b) \in Nat /\ Len(b) > 0 /\ Len(b) - 1 = n
    BY <1>1
  <2> HIDE DEF b, n
  <2> QED
    BY <2>1, PassFold
<1>3. /\ to \in 1 .. n + 1 /\ FarEnough(a, p, to) /\ (q = 1 => to = q) /\ (to = q \/ to = q - 1)
  BY MovesOn DEF NearEnough
<1> DEFINE S == {k \in Nat : k <= n => W[k] = Inserted(a, p, IF k + 1 < q THEN q ELSE to)}
<1> HIDE DEF n
<1>4. 0 \in S
  <2>1. ~(0 + 1 < q) => to = q
    BY <1>1, <1>3 DEF n
  <2> HIDE DEF to
  <2> QED
    BY <1>2, <2>1
<1>5. ASSUME NEW k \in S PROVE k + 1 \in S
  <2>1. SUFFICES ASSUME k + 1 <= n PROVE W[k + 1] = Inserted(a, p, IF (k + 1) + 1 < q THEN q ELSE to)
    BY <1>1
  <2>2. /\ k \in Nat /\ W[k] = Inserted(a, p, IF k + 1 < q THEN q ELSE to)
        /\ W[k + 1] = Map!SortNeighbours(W[k], k + 1) /\ k + 1 \in 1 .. n
    BY <1>1, <1>2, <2>1
  <2>3. CASE k + 1 < q
    <3>1. W[k + 1] = Inserted(a, p, IF (k + 1) + 1 = q THEN to ELSE q)
      BY <2>2, <2>3, NeighboursInOrder DEF n
    <3>2. (k + 1) + 1 = q <=> ~((k + 1) + 1 < q)
      BY <1>1, <2>2, <2>3 DEF n
    <3> HIDE DEF to
    <3> QED
      BY <3>1, <3>2
  <2>4. CASE ~(k + 1 < q)
    <3>1. ~((k + 1) + 1 < q) /\ (k + 1) + 1 # to
      BY <1>1, <1>3, <2>2, <2>4 DEF n
    <3>2. W[k + 1] = Inserted(a, p, to)
      <4> HIDE DEF to
      <4> QED
        BY <1>3, <2>2, <2>4, <3>1, NeighboursInOrder DEF n
    <3> HIDE DEF to
    <3> QED
      BY <3>1, <3>2
  <2> QED
    BY <2>3, <2>4
<1>6. S = Nat
  <2>1. S \in SUBSET Nat
    OBVIOUS
  <2> HIDE DEF S
  <2> QED
    BY <1>4, <1>5, <2>1, Induction
<1>7. W[n] = Inserted(a, p, IF n + 1 < q THEN q ELSE to)
  BY <1>1, <1>6
<1>8. ~(n + 1 < q)
  BY <1>1 DEF n
<1> HIDE DEF to, b
<1> QED
  BY <1>2, <1>7, <1>8 DEF to, b

LEMMA SortInserts ==
    ASSUME NEW a \in Seq(Pairs), Sorted(a), NEW p \in Pairs
    PROVE  \E q \in 1 .. Len(a) + 1 :
               /\ FarEnough(a, p, q) /\ NearEnough(a, p, q)
               /\ Map!internal_sort(Append(a, p)) = Inserted(a, p, q)
<1> DEFINE b == Append(a, p)
           n == Len(a) + 1
<1>1. n \in Nat /\ Len(b) = n /\ DOMAIN b = 1 .. n /\ b \in Seq(Pairs)
  BY AppendProperties
<1>2. PICK W : /\ W[0] = b /\ W[n] = Map!internal_sort(b)
               /\ \A k \in 0 .. n - 1 : W[k + 1] = Map!SortPass(W[k])
  <2>1. Len(b) \in Nat /\ DOMAIN b = 1 .. Len(b) /\ Len(b) = n
    BY <1>1
  <2> HIDE DEF b, n
  <2>2. \E W : /\ W[0] = b /\ W[Len(b)] = Map!internal_sort(b)
               /\ \A k \in 0 .. Len(b) - 1 : W[k + 1] = Map!SortPass(W[k])
    BY <2>1, SortFold
  <2> QED
    BY <2>1, <2>2
<1>3. b = Inserted(a, p, n)
  <2>1. Inserted(a, p, n) \in Seq(Pairs) /\ Len(Inserted(a, p, n)) = n
    BY <1>1, InsertedLength
  <2>2. ASSUME NEW i \in 1 .. n PROVE b[i] = Inserted(a, p, n)[i]
    BY DEF Inserted
  <2> HIDE DEF b
  <2> QED
    BY <1>1, <2>1, <2>2, SeqEqual
<1> DEFINE PairAt(k, q) == /\ W[k] = Inserted(a, p, q) /\ FarEnough(a, p, q)
                           /\ (NearEnough(a, p, q) \/ q <= n - k)
           S == {k \in Nat : k <= n => \E q \in 1 .. n : PairAt(k, q)}
<1> HIDE DEF n, b
<1>4. 0 \in S
  <2>1. n \in 1 .. n /\ n <= n - 0 /\ n = Len(a) + 1 /\ Len(a) \in Nat
    BY <1>1 DEF n
  <2>2. FarEnough(a, p, n)
    BY <2>1 DEF FarEnough
  <2>3. PairAt(0, n)
    BY <1>2, <1>3, <2>1, <2>2
  <2> QED
    BY <2>1, <2>3
<1>5. ASSUME NEW k \in S PROVE k + 1 \in S
  <2>1. SUFFICES ASSUME k + 1 <= n PROVE \E q \in 1 .. n : PairAt(k + 1, q)
    BY <1>1
  <2>2. k \in Nat /\ k <= n /\ k \in 0 .. n - 1
    BY <1>1, <2>1
  <2>3. PICK q \in 1 .. n : PairAt(k, q)
    BY <2>2
  <2> DEFINE to == Moves(a, p, q)
  <2>4. /\ to \in 1 .. n /\ FarEnough(a, p, to)
        /\ NearEnough(a, p, q) => to = q
        /\ ~NearEnough(a, p, q) => to = q - 1
    BY <2>3, MovesOn DEF n
  <2>5. W[k + 1] = Inserted(a, p, to)
    BY <1>2, <2>2, <2>3, PassMoves DEF n
  <2>6. NearEnough(a, p, to) \/ to <= n - (k + 1)
    BY <1>1, <2>2, <2>3, <2>4
  <2> HIDE DEF to
  <2>7. PairAt(k + 1, to)
    BY <2>4, <2>5, <2>6
  <2> QED
    BY <2>4, <2>7
<1>6. S = Nat
  <2>1. S \in SUBSET Nat
    OBVIOUS
  <2> HIDE DEF S
  <2> QED
    BY <1>4, <1>5, <2>1, Induction
<1>7. PICK q \in 1 .. n : PairAt(n, q)
  <2>1. n \in Nat /\ n <= n
    BY <1>1
  <2> HIDE DEF PairAt
  <2>2. \A k \in Nat : k <= n => \E q \in 1 .. n : PairAt(k, q)
    <3> HIDE DEF S
    <3>1. \A k \in Nat : k \in S
      BY <1>6
    <3> QED
      BY <3>1 DEF S
  <2> QED
    BY <2>1, <2>2
<1>8. NearEnough(a, p, q)
  BY <1>1, <1>7
<1> QED
  BY <1>2, <1>7, <1>8 DEF n, b

\* The pairs of a.
Held(a) == {a[i] : i \in DOMAIN a} \ {Map!Moved}

\* What an insertion of a new key leaves.
LEMMA SortedInsertion ==
    ASSUME NEW a \in Seq(Pairs), Sorted(a), NEW p \in Pairs, \A i \in DOMAIN a : a[i].first # p.first
    PROVE  LET b == Map!internal_sort(Append(a, p))
           IN  b \in Seq(Pairs) /\ Sorted(b) /\ Held(b) = Held(a) \cup {p}
<1> DEFINE b == Map!internal_sort(Append(a, p))
           n == Len(a)
<1>1. PICK q \in 1 .. n + 1 : FarEnough(a, p, q) /\ NearEnough(a, p, q) /\ b = Inserted(a, p, q)
  BY SortInserts
<1>2. /\ n \in Nat /\ DOMAIN a = 1 .. n /\ \A i \in 1 .. n : a[i] \in Pairs /\ a[i].first \in Int
      /\ p.first \in Int
  BY PairsKeys, ContainersAssumption DEF Pairs
<1>3. b \in Seq(Pairs) /\ DOMAIN b = 1 .. n + 1
  BY <1>1, InsertedLength DEF Inserted
<1>4. \A i \in 1 .. n + 1 : b[i] = IF i < q THEN a[i] ELSE IF i = q THEN p ELSE a[i - 1]
  BY <1>1 DEF Inserted
<1> HIDE DEF n, b
<1>5. \A i \in 1 .. n : i < q => a[i].first < p.first
  <2> SUFFICES ASSUME NEW i \in 1 .. n, i < q PROVE a[i].first < p.first
    OBVIOUS
  <2>1. q # 1 /\ q - 1 \in 1 .. n
    BY <1>2
  <2>2. a[q - 1].first < p.first
    <3>1. a[q - 1].first # p.first /\ ~(p.first < a[q - 1].first)
      BY <1>1, <1>2, <2>1 DEF NearEnough
    <3> QED
      BY <1>2, <2>1, <3>1
  <2>3. i = q - 1 \/ a[i].first < a[q - 1].first
    BY <1>2, <2>1 DEF Sorted
  <2> QED
    BY <1>2, <2>1, <2>2, <2>3
<1>6. \A i \in 1 .. n : i >= q => p.first < a[i].first
  BY <1>1, <1>2 DEF FarEnough, n
<1>7. ASSUME NEW i \in 1 .. n + 1, NEW j \in 1 .. n + 1, i < j PROVE b[i].first < b[j].first
  <2>1. CASE i < q
    <3>1. i \in 1 .. n /\ b[i] = a[i]
      BY <1>2, <1>4, <2>1
    <3>2. CASE j < q
      BY <1>2, <1>4, <1>7, <3>1, <3>2 DEF Sorted
    <3>3. CASE j = q
      BY <1>4, <1>5, <2>1, <3>1, <3>3
    <3>4. CASE j > q
      <4>1. b[j] = a[j - 1] /\ j - 1 \in 1 .. n /\ i < j - 1
        BY <1>2, <1>4, <2>1, <3>4
      <4> QED
        BY <1>2, <3>1, <4>1 DEF Sorted
    <3> QED
      BY <1>2, <3>2, <3>3, <3>4
  <2>2. CASE i = q
    <3>1. b[i] = p /\ b[j] = a[j - 1] /\ j - 1 \in 1 .. n /\ j - 1 >= q
      BY <1>2, <1>4, <1>7, <2>2
    <3> QED
      BY <1>6, <3>1
  <2>3. CASE i > q
    <3>1. /\ b[i] = a[i - 1] /\ i - 1 \in 1 .. n /\ b[j] = a[j - 1] /\ j - 1 \in 1 .. n
          /\ i - 1 < j - 1
      BY <1>2, <1>4, <1>7, <2>3
    <3> QED
      BY <1>2, <3>1 DEF Sorted
  <2> QED
    BY <1>2, <2>1, <2>2, <2>3
<1>8. Sorted(b)
  BY <1>3, <1>7 DEF Sorted
<1>9. {b[i] : i \in 1 .. n + 1} = {a[i] : i \in 1 .. n} \cup {p}
  <2>1. ASSUME NEW i \in 1 .. n + 1 PROVE b[i] \in {a[j] : j \in 1 .. n} \cup {p}
    <3>1. CASE i < q
      <4>1. i \in 1 .. n
        BY <1>2, <3>1
      <4> QED
        BY <1>4, <3>1, <4>1
    <3>2. CASE i = q
      BY <1>4, <3>2
    <3>3. CASE i > q
      <4>1. i - 1 \in 1 .. n /\ ~(i < q) /\ i # q
        BY <1>2, <3>3
      <4> QED
        BY <1>4, <4>1
    <3> QED
      BY <1>2, <3>1, <3>2, <3>3
  <2>2. ASSUME NEW i \in 1 .. n PROVE a[i] \in {b[j] : j \in 1 .. n + 1}
    <3>1. CASE i < q
      <4>1. i \in 1 .. n + 1
        BY <1>2
      <4> QED
        BY <1>4, <3>1, <4>1
    <3>2. CASE ~(i < q)
      <4>1. i + 1 \in 1 .. n + 1 /\ ~(i + 1 < q) /\ i + 1 # q /\ (i + 1) - 1 = i
        BY <1>2, <3>2
      <4>2. b[i + 1] = a[i]
        BY <1>4, <4>1
      <4> QED
        BY <4>1, <4>2
    <3> QED
      BY <3>1, <3>2
  <2>3. p \in {b[j] : j \in 1 .. n + 1}
    BY <1>4
  <2> QED
    BY <2>1, <2>2, <2>3
<1>10. p # Map!Moved
  BY NotMoved
<1> QED
  BY <1>2, <1>3, <1>8, <1>9, <1>10 DEF Held, b

\* f is the function that the pairs h are.
Describes(f, h) ==
    /\ f = [k \in {e.first : e \in h} |-> f[k]]
    /\ \A e \in h : f[e.first] = e.second

LEMMA MapContents == MapInv => Describes(Map!Contents, Held(pairs)) /\ Held(pairs) \subseteq Pairs
<1> SUFFICES ASSUME MapInv PROVE Describes(Map!Contents, Held(pairs)) /\ Held(pairs) \subseteq Pairs
  OBVIOUS
<1> DEFINE f == Map!Contents
           here == {j \in Key : Map!has(j)}
<1>1. \A i \in DOMAIN pairs : pairs[i] = Map!Moved \/ pairs[i] \in Pairs
  <2> HIDE DEF Pairs
  <2> QED
    BY DEF MapInv
<1>2. Held(pairs) \subseteq Pairs
  BY <1>1 DEF Held
<1>3. \A e \in Pairs : e.first \in Key
  BY DEF Pairs
<1>4. {e.first : e \in Held(pairs)} = here
  <2>1. ASSUME NEW e \in Held(pairs) PROVE e.first \in here
    BY <1>2, <1>3 DEF Held, Map!has
  <2>2. ASSUME NEW k \in here PROVE \E e \in Held(pairs) : e.first = k
    <3>1. PICK i \in DOMAIN pairs : pairs[i] # Map!Moved /\ pairs[i].first = k
      BY DEF Map!has
    <3> QED
      BY <3>1 DEF Held
  <2> QED
    BY <2>1, <2>2
<1>5. f = [k \in here |-> f[k]]
  BY DEF Map!Contents
<1>6. ASSUME NEW e \in Held(pairs) PROVE f[e.first] = e.second
  <2>1. PICK i \in DOMAIN pairs : pairs[i] = e /\ e # Map!Moved
    BY DEF Held
  <2> DEFINE Is(j) == j \in DOMAIN pairs /\ pairs[j] # Map!Moved /\ pairs[j].first = e.first
             n == CHOOSE j \in DOMAIN pairs : pairs[j] # Map!Moved /\ pairs[j].first = e.first
  <2>2. Is(i)
    BY <2>1
  <2>3. n \in DOMAIN pairs /\ pairs[n] # Map!Moved /\ pairs[n].first = e.first
    BY <2>2
  <2>4. n = i
    <3>1. /\ pairs[n] \in Pairs /\ pairs[i] \in Pairs /\ n \in Int /\ i \in Int
          /\ pairs[n].first \in Int /\ pairs[i].first \in Int /\ pairs[n].first = pairs[i].first
      <4>1. DOMAIN pairs \subseteq Int
        <5> HIDE DEF Pairs
        <5> QED
          BY DEF MapInv
      <4> HIDE DEF n, Is
      <4> QED
        BY <1>1, <1>3, <2>1, <2>3, <4>1, ContainersAssumption
    <3>2. ~(n < i) /\ ~(i < n)
      <4> HIDE DEF n, Is
      <4> QED
        BY <2>1, <2>3, <3>1 DEF MapInv, Map!KeysInOrder
    <3> HIDE DEF n
    <3> QED
      BY <3>1, <3>2
  <2>5. e.first \in here
    BY <1>4
  <2>6. f[e.first] = pairs[n].second
    BY <2>5, Zenon DEF Map!Contents
  <2> HIDE DEF n, f
  <2> QED
    BY <2>1, <2>4, <2>6
<1> HIDE DEF f, here
<1> QED
  BY <1>2, <1>4, <1>5, <1>6 DEF Describes, f

LEMMA MapContentsNext == MapInv' => Describes(Map!Contents', Held(pairs')) /\ Held(pairs') \subseteq Pairs
<1>1. (MapInv => Describes(Map!Contents, Held(pairs)) /\ Held(pairs) \subseteq Pairs)'
  BY MapContents, PTL
<1> QED
  BY <1>1

\* The steps of the dictionary, by the pairs.
LEMMA PutPair ==
    ASSUME MapInv, MapInv', NEW k \in Key, NEW v \in Value,
           Held(pairs') = {e \in Held(pairs) : e.first # k} \cup {Map!Pair(k, v)}
    PROVE  Map!Abstract!Put(k, v)
<1> DEFINE f == Map!Contents
           g == Map!Contents'
           h == Held(pairs)
           to == [j \in DOMAIN f \cup {k} |-> IF j = k THEN v ELSE f[j]]
<1>1. Describes(f, h) /\ Describes(g, Held(pairs'))
  BY MapContents, MapContentsNext
<1>2. Map!Pair(k, v).first = k /\ Map!Pair(k, v).second = v
  BY DEF Map!Pair
<1> HIDE DEF f, g, h
<1>3. DOMAIN f = {e.first : e \in h} /\ DOMAIN g = {e.first : e \in Held(pairs')}
  BY <1>1 DEF Describes
<1>4. DOMAIN g = DOMAIN f \cup {k}
  BY <1>2, <1>3 DEF h
<1>5. ASSUME NEW j \in DOMAIN g PROVE g[j] = to[j]
  <2>1. CASE j = k
    <3>1. g[k] = v
      BY <1>1, <1>2 DEF Describes
    <3> QED
      BY <1>4, <2>1, <3>1
  <2>2. CASE j # k
    <3>1. PICK e \in Held(pairs') : e.first = j
      BY <1>3
    <3>2. e \in h /\ g[j] = e.second
      BY <1>1, <1>2, <2>2, <3>1 DEF Describes, h
    <3>3. f[j] = e.second
      BY <1>1, <3>1, <3>2 DEF Describes
    <3> QED
      BY <1>4, <2>2, <3>2, <3>3
  <2> QED
    BY <2>1, <2>2
<1>6. g = [j \in DOMAIN g |-> g[j]]
  BY <1>1, <1>3 DEF Describes
<1>7. g = to
  BY <1>4, <1>5, <1>6
<1> QED
  BY <1>7 DEF f, g, Map!Abstract!Put

LEMMA RemovePairs ==
    ASSUME MapInv, MapInv', NEW keys \in SUBSET Key,
           Held(pairs') = {e \in Held(pairs) : e.first \notin keys}
    PROVE  Map!Abstract!Remove(keys)
<1> DEFINE f == Map!Contents
           g == Map!Contents'
           h == Held(pairs)
           to == [j \in DOMAIN f \ keys |-> f[j]]
<1>1. Describes(f, h) /\ Describes(g, Held(pairs'))
  BY MapContents, MapContentsNext
<1> HIDE DEF f, g, h
<1>3. DOMAIN f = {e.first : e \in h} /\ DOMAIN g = {e.first : e \in Held(pairs')}
  BY <1>1 DEF Describes
<1>4. DOMAIN g = DOMAIN f \ keys
  BY <1>3 DEF h
<1>5. ASSUME NEW j \in DOMAIN g PROVE g[j] = to[j]
  <2>1. PICK e \in Held(pairs') : e.first = j
    BY <1>3
  <2>2. e \in h /\ g[j] = e.second
    BY <1>1, <2>1 DEF Describes, h
  <2>3. f[j] = e.second
    BY <1>1, <2>1, <2>2 DEF Describes
  <2> QED
    BY <1>4, <2>2, <2>3
<1>6. g = [j \in DOMAIN g |-> g[j]]
  BY <1>1, <1>3 DEF Describes
<1>7. g = to
  BY <1>4, <1>5, <1>6
<1> QED
  BY <1>7 DEF f, g, Map!Abstract!Remove

\* While no erase() has failed, all that the array holds is pairs.
LEMMA IntactMap ==
    ASSUME MapInv, Map!Intact
    PROVE  pairs \in Seq(Pairs) /\ Sorted(pairs)
<1> HIDE DEF Pairs
<1>1. /\ Len(pairs) \in Nat /\ DOMAIN pairs = 1 .. Len(pairs) /\ pairs \in [1 .. Len(pairs) -> Pairs \cup {Map!Moved}]
  BY DEF MapInv
<1>2. \A i \in 1 .. Len(pairs) : pairs[i] \in Pairs
  BY <1>1 DEF Map!Intact
<1>3. pairs \in Seq(Pairs)
  BY <1>1, <1>2, SeqDef
<1> QED
  BY <1>1, <1>3 DEF MapInv, Map!Intact, Map!KeysInOrder, Sorted

LEMMA SortedMapInv ==
    ASSUME pairs' \in Seq(Pairs), Sorted(pairs')
    PROVE  MapInv'
<1> HIDE DEF Pairs
<1>1. pairs' \in Seq(Pairs \cup {Map!Moved})
  OBVIOUS
<1> QED
  BY <1>1 DEF MapInv, Map!KeysInOrder, Sorted, Map!Moved

\* A new key.
LEMMA MapInserts ==
    ASSUME NEW a \in Seq(Pairs), Sorted(a), NEW k \in Key, NEW v \in Value,
           \A i \in DOMAIN a : a[i].first # k
    PROVE  LET b == Map!internal_sort(Append(a, Map!Pair(k, v)))
           IN  /\ b \in Seq(Pairs) /\ Sorted(b)
               /\ Held(b) = {e \in Held(a) : e.first # k} \cup {Map!Pair(k, v)}
<1>1. Map!Pair(k, v) \in Pairs /\ Map!Pair(k, v).first = k
  BY DEF Map!Pair, Pairs
<1>2. {e \in Held(a) : e.first # k} = Held(a)
  BY DEF Held
<1> QED
  BY <1>1, <1>2, SortedInsertion

LEMMA MapInsert ==
    ASSUME MapInv, NEW k \in Key, NEW v \in Value, Map!insert(k, v) \/ Map!try_insert(k, v)
    PROVE  MapInv' /\ (Map!Abstract!Put(k, v) \/ pairs' = pairs)
<1>1. pairs \in Seq(Pairs) /\ Sorted(pairs)
  BY IntactMap DEF Map!insert, Map!try_insert
<1>2. CASE pairs' = pairs
  BY <1>1, <1>2, SortedMapInv
<1>3. CASE pairs' # pairs
  <2>1. pairs' = Map!internal_sort(Append(pairs, Map!Pair(k, v))) /\ Map!Intact /\ ~Map!has(k)
    BY <1>3, Zenon DEF Map!insert, Map!try_insert
  <2>2. \A i \in DOMAIN pairs : pairs[i].first # k
    BY <2>1 DEF Map!Intact, Map!has
  <2>3. /\ pairs' \in Seq(Pairs) /\ Sorted(pairs')
        /\ Held(pairs') = {e \in Held(pairs) : e.first # k} \cup {Map!Pair(k, v)}
    BY <1>1, <2>1, <2>2, MapInserts
  <2>4. MapInv'
    BY <2>3, SortedMapInv
  <2> QED
    BY <2>3, <2>4, PutPair
<1> QED
  BY <1>2, <1>3

LEMMA MapGetOrInsert ==
    ASSUME MapInv, NEW k \in Key, NEW v \in Value, Map!get_or_insert(k, v)
    PROVE  MapInv' /\ Map!Abstract!Put(k, v)
<1> DEFINE w == CHOOSE w \in Value : TRUE
           a == IF Map!has(k) THEN pairs ELSE Map!internal_sort(Append(pairs, Map!Pair(k, w)))
           n == CHOOSE i \in DOMAIN a : a[i].first = k /\ \A j \in 1 .. (i - 1) : a[j].first # k
<1>1. Map!Intact /\ pairs' = [a EXCEPT ![n].second = v]
  BY Zenon DEF Map!get_or_insert
<1>2. pairs \in Seq(Pairs) /\ Sorted(pairs)
  BY <1>1, IntactMap
<1>3. w \in Value
  OBVIOUS
<1> HIDE DEF w
<1>4. /\ a \in Seq(Pairs) /\ Sorted(a)
      /\ {e \in Held(a) : e.first # k} = {e \in Held(pairs) : e.first # k}
      /\ \E i \in DOMAIN a : a[i].first = k
  <2>1. CASE Map!has(k)
    <3>1. \E i \in DOMAIN pairs : pairs[i].first = k
      BY <2>1 DEF Map!has
    <3> QED
      BY <1>2, <2>1, <3>1
  <2>2. CASE ~Map!has(k)
    <3>1. \A i \in DOMAIN pairs : pairs[i].first # k
      BY <1>1, <2>2 DEF Map!Intact, Map!has
    <3> DEFINE b == Map!internal_sort(Append(pairs, Map!Pair(k, w)))
    <3>2. b \in Seq(Pairs) /\ Sorted(b) /\ Held(b) = {e \in Held(pairs) : e.first # k} \cup {Map!Pair(k, w)}
      BY <1>2, <1>3, <3>1, MapInserts
    <3>3. a = b
      BY <2>2, Zenon
    <3>4. Map!Pair(k, w).first = k
      BY DEF Map!Pair
    <3> HIDE DEF a, b
    <3>5. \E i \in DOMAIN b : b[i] = Map!Pair(k, w)
      BY <3>2 DEF Held
    <3> QED
      BY <3>2, <3>3, <3>4, <3>5
  <2> HIDE DEF a
  <2> QED
    BY <2>1, <2>2
<1> HIDE DEF a
<1>5. /\ Len(a) \in Nat /\ DOMAIN a = 1 .. Len(a)
      /\ \A i \in 1 .. Len(a) : a[i] \in Pairs /\ a[i].first \in Int
  BY <1>4, PairsKeys
<1>6. ASSUME NEW i \in 1 .. Len(a), NEW j \in 1 .. Len(a), a[i].first = a[j].first PROVE i = j
  BY <1>4, <1>5, <1>6 DEF Sorted
<1>7. n \in 1 .. Len(a) /\ a[n].first = k
  <2> DEFINE Is(i) == a[i].first = k /\ \A j \in 1 .. (i - 1) : a[j].first # k
  <2>1. PICK i \in 1 .. Len(a) : a[i].first = k
    BY <1>4, <1>5
  <2>2. Is(i)
    <3>1. \A j \in 1 .. (i - 1) : j \in 1 .. Len(a) /\ j # i
      BY <1>5
    <3> QED
      BY <1>6, <2>1, <3>1
  <2>3. \E m \in DOMAIN a : Is(m)
    BY <1>5, <2>2
  <2>4. n = CHOOSE m \in DOMAIN a : Is(m)
    BY Zenon
  <2> HIDE DEF n
  <2>5. n \in DOMAIN a /\ Is(n)
    <3> HIDE DEF Is
    <3> QED
      BY <2>3, <2>4
  <2> QED
    BY <1>5, <2>5
<1> HIDE DEF n
<1>8. /\ pairs' = [a EXCEPT ![n] = Map!Pair(k, v)]
      /\ Map!Pair(k, v) \in Pairs /\ Map!Pair(k, v).first = k
  <2>1. a[n] \in Pairs
    BY <1>5, <1>7
  <2>2. [a[n] EXCEPT !.second = v] = Map!Pair(k, v)
    BY <1>7, <2>1 DEF Pairs, Map!Pair
  <2>3. pairs' = [a EXCEPT ![n] = [a[n] EXCEPT !.second = v]]
    BY <1>1
  <2> QED
    BY <2>2, <2>3 DEF Map!Pair, Pairs
<1>9. /\ pairs' \in Seq(Pairs) /\ DOMAIN pairs' = 1 .. Len(a)
      /\ \A i \in 1 .. Len(a) : pairs'[i] = IF i = n THEN Map!Pair(k, v) ELSE a[i]
  <2> HIDE DEF Pairs
  <2> QED
    BY <1>4, <1>5, <1>7, <1>8
<1>10. \A i \in 1 .. Len(a) : pairs'[i].first = a[i].first
  BY <1>7, <1>8, <1>9
<1>11. Sorted(pairs')
  BY <1>4, <1>5, <1>9, <1>10 DEF Sorted
<1>12. Held(pairs') = {e \in Held(a) : e.first # k} \cup {Map!Pair(k, v)}
  <2>1. ASSUME NEW e \in Held(pairs') PROVE e = Map!Pair(k, v) \/ (e \in Held(a) /\ e.first # k)
    <3>1. PICK i \in 1 .. Len(a) : pairs'[i] = e /\ e # Map!Moved
      BY <1>9 DEF Held
    <3>2. CASE i = n
      BY <1>9, <3>1, <3>2
    <3>3. CASE i # n
      <4>1. a[i] = e /\ a[i].first # k
        BY <1>6, <1>7, <1>9, <3>1, <3>3
      <4> QED
        BY <1>5, <3>1, <4>1 DEF Held
    <3> QED
      BY <3>2, <3>3
  <2>2. ASSUME NEW e \in Held(a), e.first # k PROVE e \in Held(pairs')
    <3>1. PICK i \in 1 .. Len(a) : a[i] = e /\ e # Map!Moved
      BY <1>5 DEF Held
    <3>2. pairs'[i] = e
      BY <1>7, <1>9, <2>2, <3>1
    <3> QED
      BY <1>9, <3>1, <3>2 DEF Held
  <2>3. Map!Pair(k, v) \in Held(pairs')
    <3>1. pairs'[n] = Map!Pair(k, v) /\ Map!Pair(k, v) # Map!Moved
      BY <1>7, <1>8, <1>9, NotMoved
    <3> QED
      BY <1>7, <1>9, <3>1 DEF Held
  <2> QED
    BY <2>1, <2>2, <2>3
<1>13. MapInv'
  BY <1>9, <1>11, SortedMapInv
<1> QED
  BY <1>4, <1>12, <1>13, PutPair

\* What erase() has kept of a after j pairs: kept.
Kept(a, k, j, kept) ==
    /\ kept \in Seq(Pairs) /\ Sorted(kept)
    /\ Held(kept) = {a[i] : i \in {n \in 1 .. j : a[n].first # k}}

LEMMA KeepsPair ==
    ASSUME NEW a \in Seq(Pairs), Sorted(a), NEW k \in Key, NEW j \in Nat, j + 1 \in 1 .. Len(a),
           NEW kept, Kept(a, k, j, kept)
    PROVE  Kept(a, k, j + 1, Map!Keep(k, kept, a[j + 1]))
<1> DEFINE p == a[j + 1]
           next == Map!Keep(k, kept, p)
<1>1. /\ Len(a) \in Nat /\ DOMAIN a = 1 .. Len(a) /\ p \in Pairs
      /\ \A i \in 1 .. Len(a) : a[i] \in Pairs /\ a[i].first \in Int
  BY PairsKeys
<1>2. CASE p.first = k
  <2>1. next = kept
    BY <1>2, Zenon DEF Map!Keep
  <2>2. {n \in 1 .. j + 1 : a[n].first # k} = {n \in 1 .. j : a[n].first # k}
    <3>1. \A n \in 1 .. j + 1 : n = j + 1 \/ n \in 1 .. j
      OBVIOUS
    <3>2. 1 .. j \subseteq 1 .. j + 1
      OBVIOUS
    <3> QED
      BY <1>2, <3>1, <3>2
  <2> QED
    BY <2>1, <2>2, Zenon DEF Kept
<1>3. CASE p.first # k
  <2>1. next = Append(kept, p)
    BY <1>3, Zenon DEF Map!Keep
  <2>2. kept \in Seq(Pairs) /\ Sorted(kept) /\ Held(kept) = {a[i] : i \in {n \in 1 .. j : a[n].first # k}}
    BY DEF Kept
  <2>3. /\ Len(kept) \in Nat /\ DOMAIN kept = 1 .. Len(kept)
        /\ \A i \in 1 .. Len(kept) : kept[i] \in Pairs /\ kept[i].first \in Int
    BY <2>2, PairsKeys
  <2>4. /\ next \in Seq(Pairs) /\ DOMAIN next = 1 .. Len(kept) + 1
        /\ next[Len(kept) + 1] = p
        /\ \A i \in 1 .. Len(kept) : next[i] = kept[i]
    <3> HIDE DEF p, Pairs
    <3> QED
      BY <1>1, <2>1, <2>2, AppendProperties
  <2>5. ASSUME NEW i \in 1 .. Len(kept) PROVE kept[i].first < p.first
    <3>1. kept[i] \in Held(kept)
      BY <2>3, NotMoved DEF Held
    <3>2. PICK n \in 1 .. j : kept[i] = a[n]
      BY <2>2, <3>1
    <3>3. n \in 1 .. Len(a) /\ n < j + 1
      BY <1>1
    <3> QED
      BY <1>1, <3>2, <3>3 DEF Sorted
  <2>6. Sorted(next)
    <3> HIDE DEF next, p
    <3>1. ASSUME NEW i \in 1 .. Len(kept) + 1, NEW m \in 1 .. Len(kept) + 1, i < m
          PROVE  next[i].first < next[m].first
      <4>1. i \in 1 .. Len(kept)
        BY <2>3, <3>1
      <4>2. CASE m = Len(kept) + 1
        BY <2>4, <2>5, <4>1, <4>2
      <4>3. CASE m # Len(kept) + 1
        <5>1. m \in 1 .. Len(kept)
          BY <2>3, <4>3
        <5> QED
          BY <2>2, <2>3, <2>4, <3>1, <4>1, <5>1 DEF Sorted
      <4> QED
        BY <4>2, <4>3
    <3> QED
      BY <2>4, <3>1 DEF Sorted
  <2>7. Held(next) = Held(kept) \cup {p}
    <3>1. p # Map!Moved
      BY <1>1, NotMoved
    <3>2. 1 .. Len(kept) + 1 = (1 .. Len(kept)) \cup {Len(kept) + 1}
      BY <2>3
    <3> HIDE DEF p, next
    <3>3. {next[i] : i \in 1 .. Len(kept) + 1} = {kept[i] : i \in 1 .. Len(kept)} \cup {p}
      BY <2>4, <3>2
    <3> QED
      BY <2>3, <2>4, <3>1, <3>3 DEF Held
  <2>8. {n \in 1 .. j + 1 : a[n].first # k} = {n \in 1 .. j : a[n].first # k} \cup {j + 1}
    <3>1. \A n \in 1 .. j + 1 : n = j + 1 \/ n \in 1 .. j
      OBVIOUS
    <3>2. 1 .. j \subseteq 1 .. j + 1 /\ j + 1 \in 1 .. j + 1
      OBVIOUS
    <3> QED
      BY <1>3, <3>1, <3>2
  <2>9. Held(next) = {a[i] : i \in {n \in 1 .. j + 1 : a[n].first # k}}
    <3> HIDE DEF next
    <3> QED
      BY <2>2, <2>7, <2>8
  <2> HIDE DEF next
  <2>10. Kept(a, k, j + 1, next)
    BY <2>4, <2>6, <2>9, Zenon DEF Kept
  <2> QED
    BY <2>10 DEF next
<1> QED
  BY <1>2, <1>3

LEMMA EraseKeeps ==
    ASSUME NEW a \in Seq(Pairs), Sorted(a), NEW k \in Key
    PROVE  Kept(a, k, Len(a), Erased(k, a))
<1>1. Len(a) \in Nat /\ DOMAIN a = 1 .. Len(a) /\ k \in Int
  BY PairsKeys, ContainersAssumption
<1>2. PICK W : /\ W[0] = <<>> /\ W[Len(a)] = Erased(k, a)
               /\ \A j \in 0 .. (Len(a)) - 1 : W[j + 1] = Map!Keep(k, W[j], a[j + 1])
  BY <1>1, EraseFold
<1> DEFINE S == {j \in Nat : j <= Len(a) => Kept(a, k, j, W[j])}
<1>3. 0 \in S
  <2>1. Sorted(<<>>)
    BY DEF Sorted
  <2>2. Held(<<>>) = {}
    BY DEF Held
  <2>3. {a[i] : i \in {n \in 1 .. 0 : a[n].first # k}} = {}
    OBVIOUS
  <2>4. Kept(a, k, 0, <<>>)
    BY <2>1, <2>2, <2>3 DEF Kept
  <2> QED
    BY <1>2, <2>4
<1>4. ASSUME NEW j \in S PROVE j + 1 \in S
  <2>1. SUFFICES ASSUME j + 1 <= Len(a) PROVE Kept(a, k, j + 1, W[j + 1])
    BY <1>1
  <2>2. j \in Nat /\ j <= Len(a) /\ j \in 0 .. Len(a) - 1 /\ j + 1 \in 1 .. Len(a)
    BY <1>1, <2>1
  <2>3. Kept(a, k, j, W[j]) /\ W[j + 1] = Map!Keep(k, W[j], a[j + 1])
    BY <1>2, <2>2
  <2> HIDE DEF S
  <2> QED
    BY <2>2, <2>3, KeepsPair
<1>5. S = Nat
  <2>1. S \in SUBSET Nat
    OBVIOUS
  <2> HIDE DEF S
  <2> QED
    BY <1>3, <1>4, <2>1, Induction
<1>6. \A j \in Nat : j <= Len(a) => Kept(a, k, j, W[j])
  <2> HIDE DEF S
  <2>1. \A j \in Nat : j \in S
    BY <1>5
  <2> QED
    BY <2>1 DEF S
<1>7. Len(a) <= Len(a)
  BY <1>1
<1> QED
  BY <1>1, <1>2, <1>6, <1>7

LEMMA MapErase ==
    ASSUME MapInv, NEW k \in Key, Map!erase(k)
    PROVE  MapInv' /\ Map!Abstract!Remove({k})
<1>1. pairs \in Seq(Pairs) /\ Sorted(pairs) /\ DOMAIN pairs = 1 .. Len(pairs) /\ \A i \in 1 .. Len(pairs) : pairs[i] \in Pairs
  BY IntactMap, PairsKeys DEF Map!erase
<1>2. pairs' = Erased(k, pairs)
  BY Zenon DEF Map!erase, Erased
<1>3. Kept(pairs, k, Len(pairs), pairs')
  BY <1>1, <1>2, EraseKeeps
<1>4. Held(pairs') = {e \in Held(pairs) : e.first \notin {k}}
  <2>1. \A i \in 1 .. Len(pairs) : pairs[i] # Map!Moved
    BY <1>1, NotMoved
  <2>2. Held(pairs) = {pairs[i] : i \in 1 .. Len(pairs)}
    BY <1>1, <2>1 DEF Held
  <2>3. Held(pairs') = {pairs[i] : i \in {n \in 1 .. Len(pairs) : pairs[n].first # k}}
    BY <1>3 DEF Kept
  <2> QED
    BY <2>2, <2>3
<1>5. MapInv'
  BY <1>3, SortedMapInv DEF Kept
<1> QED
  BY <1>4, <1>5, RemovePairs

LEMMA MapEraseFails ==
    ASSUME MapInv, NEW k \in Key, Map!EraseFails(k)
    PROVE  MapInv' /\ \E keys \in SUBSET Key : Map!Abstract!Remove(keys)
<1>1. PICK n \in DOMAIN pairs :
          /\ Map!Intact /\ pairs[n].first # k
          /\ pairs' = [i \in DOMAIN pairs |-> IF i <= n /\ pairs[i].first # k THEN Map!Moved ELSE pairs[i]]
  BY Zenon DEF Map!EraseFails
<1>2. pairs \in Seq(Pairs) /\ Sorted(pairs)
  BY <1>1, IntactMap
<1>3. /\ Len(pairs) \in Nat /\ DOMAIN pairs = 1 .. Len(pairs)
      /\ \A i \in 1 .. Len(pairs) : pairs[i] \in Pairs /\ pairs[i].first \in Int /\ pairs[i].first \in Key
  <2>1. \A e \in Pairs : e.first \in Key
    BY DEF Pairs
  <2> QED
    BY <1>2, <2>1, PairsKeys
<1>4. /\ DOMAIN pairs' = 1 .. Len(pairs)
      /\ \A i \in 1 .. Len(pairs) : pairs'[i] = IF i <= n /\ pairs[i].first # k THEN Map!Moved ELSE pairs[i]
  BY <1>1, <1>3
<1> DEFINE lost == {i \in 1 .. Len(pairs) : i <= n /\ pairs[i].first # k}
           keys == {pairs[i].first : i \in lost}
<1>5. MapInv'
  <2>1. pairs' \in Seq(Pairs \cup {Map!Moved})
    <3> HIDE DEF Pairs
    <3>1. \A i \in 1 .. Len(pairs) : pairs'[i] \in Pairs \cup {Map!Moved}
      BY <1>3, <1>4
    <3>2. pairs' = [i \in 1 .. Len(pairs) |-> pairs'[i]]
      BY <1>1, <1>3
    <3>3. pairs' \in [1 .. Len(pairs) -> Pairs \cup {Map!Moved}]
      BY <3>1, <3>2
    <3> QED
      BY <1>3, <3>3, SeqDef
  <2>2. ASSUME NEW i \in DOMAIN pairs', NEW j \in DOMAIN pairs', i < j, pairs'[i] # Map!Moved, pairs'[j] # Map!Moved
        PROVE  pairs'[i].first < pairs'[j].first
    <3>1. pairs'[i] = pairs[i] /\ pairs'[j] = pairs[j] /\ i \in DOMAIN pairs /\ j \in DOMAIN pairs
      BY <1>3, <1>4, <2>2
    <3> QED
      BY <1>2, <2>2, <3>1 DEF Sorted
  <2>3. Map!Moved' = Map!Moved
    BY DEF Map!Moved
  <2> QED
    BY <2>1, <2>2, <2>3 DEF MapInv, Map!KeysInOrder
<1>6. ASSUME NEW i \in 1 .. Len(pairs), NEW j \in 1 .. Len(pairs), pairs[i].first = pairs[j].first PROVE i = j
  BY <1>2, <1>3, <1>6 DEF Sorted
<1>7. \A i \in 1 .. Len(pairs) : pairs[i] # Map!Moved
  BY <1>3, NotMoved
<1>8. Held(pairs') = {e \in Held(pairs) : e.first \notin keys}
  <2>1. ASSUME NEW e \in Held(pairs') PROVE e \in Held(pairs) /\ e.first \notin keys
    <3>1. PICK i \in 1 .. Len(pairs) : pairs'[i] = e /\ e # Map!Moved
      BY <1>4 DEF Held
    <3>2. pairs[i] = e /\ i \notin lost
      BY <1>4, <3>1
    <3>3. e \in Held(pairs)
      BY <1>3, <3>1, <3>2 DEF Held
    <3>4. ASSUME NEW j \in lost, pairs[j].first = e.first PROVE FALSE
      BY <1>6, <3>2, <3>4
    <3> QED
      BY <3>3, <3>4
  <2>2. ASSUME NEW e \in Held(pairs), e.first \notin keys PROVE e \in Held(pairs')
    <3>1. PICK i \in 1 .. Len(pairs) : pairs[i] = e /\ e # Map!Moved
      BY <1>3 DEF Held
    <3>2. i \notin lost
      BY <2>2, <3>1
    <3>3. pairs'[i] = e
      BY <1>4, <3>1, <3>2
    <3> QED
      BY <1>4, <3>1, <3>3 DEF Held
  <2> HIDE DEF keys
  <2> QED
    BY <2>1, <2>2
<1>9. keys \in SUBSET Key
  BY <1>3
<1> HIDE DEF keys
<1> QED
  BY <1>5, <1>8, <1>9, RemovePairs

LEMMA MapClear == ASSUME MapInv, Map!clear PROVE MapInv' /\ Map!Abstract!Remove(Key)
<1>1. pairs' = <<>>
  BY DEF Map!clear
<1>2. MapInv'
  <2>1. pairs' \in Seq(Pairs) /\ Sorted(pairs')
    <3> HIDE DEF Pairs
    <3> QED
      BY <1>1 DEF Sorted
  <2> QED
    BY <2>1, SortedMapInv
<1>3. Held(pairs') = {}
  BY <1>1 DEF Held
<1>4. \A e \in Held(pairs) : e.first \in Key
  BY MapContents DEF Pairs
<1>5. Held(pairs') = {e \in Held(pairs) : e.first \notin Key}
  BY <1>3, <1>4
<1>6. Key \in SUBSET Key
  OBVIOUS
<1> QED
  BY <1>2, <1>5, <1>6, RemovePairs

LEMMA MapInitInvariant == Map!MapInit => MapInv /\ Map!Abstract!Init
<1> SUFFICES ASSUME Map!MapInit PROVE MapInv /\ Map!Abstract!Init
  OBVIOUS
<1>1. pairs = <<>>
  BY DEF Map!MapInit
<1>2. MapInv
  <2> HIDE DEF Pairs
  <2> QED
    BY <1>1 DEF MapInv, Map!KeysInOrder
<1>3. {e.first : e \in Held(pairs)} = {}
  BY <1>1 DEF Held
<1>4. Map!Contents = [k \in {} |-> Map!Contents[k]]
  BY <1>2, <1>3, MapContents, Zenon DEF Describes
<1> QED
  BY <1>2, <1>4 DEF Map!Abstract!Init

LEMMA MapStep == MapInv /\ [Map!MapNext]_pairs => MapInv' /\ [Map!Abstract!Next]_(Map!Contents)
<1> SUFFICES ASSUME MapInv, [Map!MapNext]_pairs
             PROVE  MapInv' /\ (Map!Abstract!Next \/ Map!Contents' = Map!Contents)
  OBVIOUS
<1>1. CASE pairs' = pairs
  <2>1. MapInv' /\ Map!Contents' = Map!Contents
    BY <1>1 DEF MapInv, Map!KeysInOrder, Map!Contents, Map!has
  <2> QED
    BY <2>1
<1>2. ASSUME pairs' # pairs, NEW k \in Key, NEW v \in Value,
             Map!insert(k, v) \/ Map!try_insert(k, v) \/ Map!get_or_insert(k, v)
      PROVE  MapInv' /\ Map!Abstract!Next
  BY <1>2, MapInsert, MapGetOrInsert DEF Map!Abstract!Next
<1>3. ASSUME NEW k \in Key, Map!erase(k) \/ Map!EraseFails(k) PROVE MapInv' /\ Map!Abstract!Next
  <2>1. {k} \in SUBSET Key
    OBVIOUS
  <2> QED
    BY <1>3, <2>1, MapErase, MapEraseFails DEF Map!Abstract!Next
<1>4. CASE Map!clear
  <2>1. Key \in SUBSET Key
    OBVIOUS
  <2> QED
    BY <1>4, <2>1, MapClear DEF Map!Abstract!Next
<1> QED
  BY <1>1, <1>2, <1>3, <1>4 DEF Map!MapNext

-----------------------------------------------------------------------------
(***************************************************************************)
(* The list.                                                               *)
(***************************************************************************)
NodeCount == Cardinality(Node)

Cells == [previous : Node \cup {Null}, next : Node \cup {Null}, value : Value]

\* s is the nodes of a list in their order: n of them, in the heap h, from b to e.
IsList(s, h, b, e, n) ==
    /\ n \in Nat /\ s \in [1 .. n -> Node]
    /\ \A i, j \in 1 .. n : s[i] = s[j] => i = j
    /\ h \in [{s[i] : i \in 1 .. n} -> Cells]
    /\ b = (IF n = 0 THEN Null ELSE s[1])
    /\ e = (IF n = 0 THEN Null ELSE s[n])
    /\ \A i \in 1 .. n : /\ h[s[i]].next = (IF i = n THEN Null ELSE s[i + 1])
                         /\ h[s[i]].previous = (IF i = 1 THEN Null ELSE s[i - 1])

\* What a range from the node at i to the node at j holds.
Spans(s, h, i, j) ==
    [begin |-> s[i], end |-> s[j], due |-> [m \in 1 .. (j - i) + 1 |-> h[s[(i + m) - 1]].value]]

IsRange(s, h, n, r) ==
    r = List!NoRange \/ \E i, j \in 1 .. n : i <= j /\ r = Spans(s, h, i, j)

ListInv ==
    \E s : /\ IsList(s, heap, list_begin, list_end, list_size)
           /\ IsRange(s, heap, list_size, list_range)

\* There are no more nodes in the list than there are.
LEMMA ListFits ==
    ASSUME NEW n \in Nat, NEW s \in [1 .. n -> Node], \A i, j \in 1 .. n : s[i] = s[j] => i = j
    PROVE  NodeCount \in Nat /\ n <= NodeCount /\ ({s[i] : i \in 1 .. n} # Node => n < NodeCount)
<1>1. IsFiniteSet(Node) /\ NodeCount \in Nat
  BY ContainersAssumption, FS_CardinalityType DEF NodeCount
<1>2. IsFiniteSet(1 .. n) /\ Cardinality(1 .. n) = n
  <2>1. 1 \in Int /\ n \in Int
    OBVIOUS
  <2>2. IsFiniteSet(1 .. n) /\ Cardinality(1 .. n) = IF 1 > n THEN 0 ELSE n - 1 + 1
    BY <2>1, FS_Interval
  <2> QED
    BY <2>2
<1> DEFINE T == {s[i] : i \in 1 .. n}
<1>3. T \subseteq Node /\ IsFiniteSet(T)
  <2>1. T \subseteq Node
    OBVIOUS
  <2> QED
    BY <1>1, <2>1, FS_Subset
<1>4. ExistsBijection(1 .. n, T)
  <2>1. s \in Bijection(1 .. n, T)
    BY DEF Bijection, Injection, Surjection, IsInjective
  <2> QED
    BY <2>1 DEF ExistsBijection
<1>5. Cardinality(T) = n
  BY <1>2, <1>3, <1>4, FS_Bijection
<1>6. Cardinality(T) <= NodeCount /\ (NodeCount = Cardinality(T) => T = Node)
  <2> HIDE DEF T
  <2> QED
    BY <1>1, <1>3, FS_Subset, Zenon DEF NodeCount
<1> QED
  BY <1>1, <1>5, <1>6

LEMMA NodesCounted == NodeCount \in Nat /\ List!Cardinality(Node) = NodeCount
<1>1. NodeCount \in Nat
  BY ContainersAssumption, FS_CardinalityType DEF NodeCount
<1>2. List!Cardinality(Node) = NodeCount
  BY Zenon DEF List!Cardinality, Cardinality, NodeCount
<1> QED
  BY <1>1, <1>2

\* f is the walk from b, over the previous nodes or the next ones.
Neighbour(cell, back) == IF back THEN cell.previous ELSE cell.next

IsWalk(f, b, back) ==
    f = [k \in 0 .. NodeCount |-> IF k = 0 THEN b
                          ELSE IF f[k - 1] = Null THEN Null ELSE Neighbour(heap[f[k - 1]], back)]

LEMMA WalkUnique ==
    ASSUME NEW b, NEW back, NEW f, NEW w, IsWalk(f, b, back), IsWalk(w, b, back)
    PROVE  f = w
<1>1. \A k \in 0 .. NodeCount :
         /\ f[k] = IF k = 0 THEN b ELSE IF f[k - 1] = Null THEN Null ELSE Neighbour(heap[f[k - 1]], back)
         /\ w[k] = IF k = 0 THEN b ELSE IF w[k - 1] = Null THEN Null ELSE Neighbour(heap[w[k - 1]], back)
  BY Zenon DEF IsWalk
<1> DEFINE S == {k \in Nat : k \in 0 .. NodeCount => f[k] = w[k]}
<1>2. 0 \in S
  BY <1>1
<1>3. ASSUME NEW k \in S PROVE k + 1 \in S
  <2>1. SUFFICES ASSUME k + 1 \in 0 .. NodeCount PROVE f[k + 1] = w[k + 1]
    OBVIOUS
  <2>2. k \in 0 .. NodeCount /\ (k + 1) - 1 = k /\ k + 1 # 0
    BY <2>1, NodesCounted
  <2>3. f[k] = w[k]
    BY <2>2
  <2> HIDE DEF S
  <2> QED
    BY <1>1, <2>1, <2>2, <2>3
<1>4. S = Nat
  <2>1. S \in SUBSET Nat
    OBVIOUS
  <2> HIDE DEF S
  <2> QED
    BY <1>2, <1>3, <2>1, Induction
<1>5. \A k \in 0 .. NodeCount : f[k] = w[k]
  <2>1. \A k \in 0 .. NodeCount : k \in Nat
    OBVIOUS
  <2> QED
    BY <1>4, <2>1
<1>6. f = [k \in 0 .. NodeCount |-> f[k]] /\ w = [k \in 0 .. NodeCount |-> w[k]]
  BY DEF IsWalk
<1> QED
  BY <1>5, <1>6

LEMMA WalksAre ==
    /\ (\E w : IsWalk(w, list_begin, FALSE)) => IsWalk(List!Forward, list_begin, FALSE)
    /\ (\E w : IsWalk(w, list_end, TRUE)) => IsWalk(List!Backward, list_end, TRUE)
<1> DEFINE Forth(f) == f = [k \in 0 .. NodeCount |-> IF k = 0 THEN list_begin
                               ELSE IF f[k - 1] = Null THEN Null ELSE heap[f[k - 1]].next]
           Back(f) == f = [k \in 0 .. NodeCount |-> IF k = 0 THEN list_end
                               ELSE IF f[k - 1] = Null THEN Null ELSE heap[f[k - 1]].previous]
<1>1. /\ \A c : Neighbour(c, FALSE) = c.next
      /\ \A c : Neighbour(c, TRUE) = c.previous
  BY Zenon DEF Neighbour
<1>2. \A f : IsWalk(f, list_begin, FALSE) <=> Forth(f)
  BY <1>1, Zenon DEF IsWalk
<1>3. \A f : IsWalk(f, list_end, TRUE) <=> Back(f)
  BY <1>1, Zenon DEF IsWalk
<1>4. List!Cardinality(Node) = NodeCount
  BY NodesCounted
<1>5. List!Forward = CHOOSE f : Forth(f)
  BY <1>4, Zenon DEF List!Forward
<1>6. List!Backward = CHOOSE f : Back(f)
  BY <1>4, Zenon DEF List!Backward
<1> HIDE DEF Forth, Back
<1> QED
  BY <1>2, <1>3, <1>5, <1>6, Zenon

\* A walk reaches the nodes one after the other.
Walked(s) ==
    /\ list_size <= NodeCount
    /\ \A k \in 0 .. NodeCount : List!Forward[k] = IF k < list_size THEN s[k + 1] ELSE Null
    /\ \A k \in 0 .. NodeCount : List!Backward[k] = IF k < list_size THEN s[list_size - k] ELSE Null
    /\ List!contents = [i \in 1 .. list_size |-> heap[s[i]].value]

LEMMA Walk == \A s : IsList(s, heap, list_begin, list_end, list_size) => Walked(s)
<1> SUFFICES ASSUME NEW s, IsList(s, heap, list_begin, list_end, list_size) PROVE Walked(s)
  OBVIOUS
<1>1. list_size \in Nat /\ NodeCount \in Nat /\ list_size <= NodeCount
  BY ListFits DEF IsList
<1>2. \A i \in 1 .. list_size : s[i] \in Node /\ s[i] # Null
  BY ContainersAssumption DEF IsList
<1> DEFINE w == [k \in 0 .. NodeCount |-> IF k < list_size THEN s[k + 1] ELSE Null]
           u == [k \in 0 .. NodeCount |-> IF k < list_size THEN s[list_size - k] ELSE Null]
<1>3. IsWalk(w, list_begin, FALSE)
  <2>1. ASSUME NEW k \in 0 .. NodeCount
        PROVE  w[k] = IF k = 0 THEN list_begin ELSE IF w[k - 1] = Null THEN Null ELSE heap[w[k - 1]].next
    <3>1. CASE k = 0
      BY <1>1, <3>1 DEF IsList
    <3>2. CASE k # 0 /\ k <= list_size
      <4>1. w[k - 1] = s[k] /\ k \in 1 .. list_size
        BY <1>1, <3>2
      <4>2. heap[s[k]].next = IF k = list_size THEN Null ELSE s[k + 1]
        BY <4>1 DEF IsList
      <4> QED
        BY <1>1, <1>2, <3>2, <4>1, <4>2
    <3>3. CASE k # 0 /\ ~(k <= list_size)
      <4>1. k - 1 \in 0 .. NodeCount /\ ~(k - 1 < list_size) /\ ~(k < list_size)
        BY <1>1, <3>3
      <4> QED
        BY <3>3, <4>1
    <3> QED
      BY <3>1, <3>2, <3>3
  <2>2. \A c : Neighbour(c, FALSE) = c.next
    BY Zenon DEF Neighbour
  <2>3. w = [k \in 0 .. NodeCount |-> w[k]]
    OBVIOUS
  <2> HIDE DEF w
  <2> QED
    BY <2>1, <2>2, <2>3, Zenon DEF IsWalk
<1>4. IsWalk(u, list_end, TRUE)
  <2>1. ASSUME NEW k \in 0 .. NodeCount
        PROVE  u[k] = IF k = 0 THEN list_end ELSE IF u[k - 1] = Null THEN Null ELSE heap[u[k - 1]].previous
    <3>1. CASE k = 0
      BY <1>1, <3>1 DEF IsList
    <3>2. CASE k # 0 /\ k <= list_size
      <4>1. u[k - 1] = s[(list_size - k) + 1] /\ (list_size - k) + 1 \in 1 .. list_size
        BY <1>1, <3>2
      <4>2. heap[s[(list_size - k) + 1]].previous = IF k = list_size THEN Null ELSE s[list_size - k]
        <5>1. /\ ((list_size - k) + 1) - 1 = list_size - k
              /\ (list_size - k) + 1 = 1 <=> k = list_size
          BY <1>1
        <5> QED
          BY <4>1, <5>1 DEF IsList
      <4> QED
        BY <1>1, <1>2, <3>2, <4>1, <4>2
    <3>3. CASE k # 0 /\ ~(k <= list_size)
      <4>1. k - 1 \in 0 .. NodeCount /\ ~(k - 1 < list_size) /\ ~(k < list_size)
        BY <1>1, <3>3
      <4> QED
        BY <3>3, <4>1
    <3> QED
      BY <3>1, <3>2, <3>3
  <2>2. \A c : Neighbour(c, TRUE) = c.previous
    BY Zenon DEF Neighbour
  <2>3. u = [k \in 0 .. NodeCount |-> u[k]]
    OBVIOUS
  <2> HIDE DEF u
  <2> QED
    BY <2>1, <2>2, <2>3, Zenon DEF IsWalk
<1> HIDE DEF w, u
<1>5. IsWalk(List!Forward, list_begin, FALSE) /\ IsWalk(List!Backward, list_end, TRUE)
  BY <1>3, <1>4, WalksAre, Zenon
<1>6. List!Forward = w /\ List!Backward = u
  BY <1>3, <1>4, <1>5, WalkUnique
<1>7. List!contents = [i \in 1 .. list_size |-> heap[s[i]].value]
  <2>1. \A i \in 1 .. list_size : w[i - 1] = s[i]
    <3> SUFFICES ASSUME NEW i \in 1 .. list_size PROVE w[i - 1] = s[i]
      OBVIOUS
    <3>1. i - 1 \in 0 .. NodeCount /\ i - 1 < list_size /\ (i - 1) + 1 = i
      BY <1>1
    <3> QED
      BY <3>1 DEF w
  <2> QED
    BY <1>6, <2>1 DEF List!contents
<1> QED
  BY <1>1, <1>6, <1>7 DEF Walked, w, u

LEMMA WalkNext == \A s : IsList(s, heap', list_begin', list_end', list_size') => Walked(s)'
<1>1. (\A s : IsList(s, heap, list_begin, list_end, list_size) => Walked(s))'
  BY Walk, PTL
<1> QED
  BY <1>1

\* The cell of a node, and what setting one of its links leaves.
LEMMA CellMade ==
    ASSUME NEW p \in Node \cup {Null}, NEW q \in Node \cup {Null}, NEW v \in Value,
           NEW c, c = [previous |-> p, next |-> q, value |-> v]
    PROVE  c \in Cells /\ c.previous = p /\ c.next = q /\ c.value = v
BY DEF Cells

LEMMA CellLinked ==
    ASSUME NEW c \in Cells, NEW m \in Node \cup {Null}, NEW d
    PROVE  /\ d = [c EXCEPT !.previous = m] =>
                 d \in Cells /\ d.previous = m /\ d.next = c.next /\ d.value = c.value
           /\ d = [c EXCEPT !.next = m] =>
                 d \in Cells /\ d.next = m /\ d.previous = c.previous /\ d.value = c.value
BY DEF Cells

\* A node before the first one.
FrontHeap(h, b, n, m, v) ==
    IF n = 0 THEN List!WithNode(h, m, Null, b, v)
    ELSE [List!WithNode(h, m, Null, b, v) EXCEPT ![b].previous = m]

FrontNodes(s, n, m) == [i \in 1 .. n + 1 |-> IF i = 1 THEN m ELSE s[i - 1]]

LEMMA PushedFront ==
    ASSUME NEW s, NEW h, NEW b, NEW e, NEW n, IsList(s, h, b, e, n),
           NEW m \in Node \ DOMAIN h, NEW v \in Value,
           NEW h2, h2 = FrontHeap(h, b, n, m, v), NEW t, t = FrontNodes(s, n, m)
    PROVE  /\ IsList(t, h2, m, IF n = 0 THEN m ELSE e, n + 1)
           /\ h2[m].value = v /\ \A i \in 1 .. n : h2[s[i]].value = h[s[i]].value
<1>1. /\ n \in Nat /\ s \in [1 .. n -> Node]
      /\ \A i, j \in 1 .. n : s[i] = s[j] => i = j
      /\ h \in [{s[i] : i \in 1 .. n} -> Cells]
      /\ b = (IF n = 0 THEN Null ELSE s[1])
      /\ e = (IF n = 0 THEN Null ELSE s[n])
      /\ \A i \in 1 .. n : /\ h[s[i]].next = (IF i = n THEN Null ELSE s[i + 1])
                           /\ h[s[i]].previous = (IF i = 1 THEN Null ELSE s[i - 1])
  BY DEF IsList
<1>2. \A i \in 1 .. n : s[i] \in Node /\ h[s[i]] \in Cells /\ s[i] # m /\ s[i] \in DOMAIN h
  BY <1>1
<1>3. n # 0 => 1 \in 1 .. n
  BY <1>1
<1>0. b \in Node \cup {Null}
  BY <1>1, <1>2, <1>3
<1> DEFINE c == [previous |-> Null, next |-> b, value |-> v]
           h1 == List!WithNode(h, m, Null, b, v)
<1>4. c \in Cells /\ c.previous = Null /\ c.next = b /\ c.value = v
  BY <1>0, CellMade DEF c
<1>5. /\ h1 = [x \in {s[i] : i \in 1 .. n} \cup {m} |-> h1[x]]
      /\ h1[m] = c /\ \A i \in 1 .. n : h1[s[i]] = h[s[i]]
  BY <1>1, <1>2 DEF List!WithNode
<1> HIDE DEF c, h1
<1>6. /\ h2 = [x \in {s[i] : i \in 1 .. n} \cup {m} |-> h2[x]]
      /\ h2[m] = c
      /\ \A i \in 1 .. n : h2[s[i]] = IF i = 1 THEN [h[s[i]] EXCEPT !.previous = m] ELSE h[s[i]]
  <2>1. CASE n = 0
    BY <1>5, <2>1 DEF h1, FrontHeap
  <2>2. CASE n # 0
    <3>1. h2 = [h1 EXCEPT ![b] = [h1[b] EXCEPT !.previous = m]]
      BY <2>2 DEF h1, FrontHeap
    <3>2. b = s[1] /\ 1 \in 1 .. n /\ h1[b] = h[s[1]] /\ m # b
      <4>1. b = s[1] /\ 1 \in 1 .. n
        BY <1>1, <1>3, <2>2, Zenon
      <4> QED
        BY <1>2, <1>5, <4>1, Zenon
    <3>3. \A i \in 1 .. n : s[i] = b <=> i = 1
      BY <1>1, <3>2
    <3>4. /\ DOMAIN h1 = {s[i] : i \in 1 .. n} \cup {m}
          /\ b \in DOMAIN h1 /\ m \in DOMAIN h1 /\ \A i \in 1 .. n : s[i] \in DOMAIN h1
      BY <1>5, <3>2
    <3>5. h2 = [x \in DOMAIN h1 |-> IF x = b THEN [h1[b] EXCEPT !.previous = m] ELSE h1[x]]
      BY <3>1, Zenon
    <3>6. h2 = [x \in {s[i] : i \in 1 .. n} \cup {m} |-> h2[x]]
      <4>1. h2 = [x \in DOMAIN h1 |-> h2[x]]
        BY <3>5
      <4> QED
        BY <3>4, <4>1, Zenon
    <3>7. h2[m] = c
      BY <1>5, <3>2, <3>4, <3>5, Zenon
    <3>8. ASSUME NEW i \in 1 .. n
          PROVE  h2[s[i]] = IF i = 1 THEN [h[s[i]] EXCEPT !.previous = m] ELSE h[s[i]]
      <4>1. h2[s[i]] = IF s[i] = b THEN [h1[b] EXCEPT !.previous = m] ELSE h1[s[i]]
        BY <3>4, <3>5, Zenon
      <4>2. h1[s[i]] = h[s[i]]
        BY <1>5
      <4> QED
        BY <3>2, <3>3, <4>1, <4>2, Zenon
    <3> QED
      BY <3>6, <3>7, <3>8
  <2> QED
    BY <2>1, <2>2
<1>7. \A i \in 1 .. n : /\ h2[s[i]] \in Cells /\ h2[s[i]].next = h[s[i]].next
                        /\ h2[s[i]].previous = IF i = 1 THEN m ELSE h[s[i]].previous
                        /\ h2[s[i]].value = h[s[i]].value
  <2> SUFFICES ASSUME NEW i \in 1 .. n
               PROVE  /\ h2[s[i]] \in Cells /\ h2[s[i]].next = h[s[i]].next
                      /\ h2[s[i]].previous = IF i = 1 THEN m ELSE h[s[i]].previous
                      /\ h2[s[i]].value = h[s[i]].value
    OBVIOUS
  <2>1. h[s[i]] \in Cells /\ m \in Node \cup {Null}
    BY <1>2
  <2>2. CASE i = 1
    <3>1. h2[s[i]] = [h[s[i]] EXCEPT !.previous = m]
      BY <1>6, <2>2
    <3> QED
      BY <2>1, <2>2, <3>1, CellLinked
  <2>3. CASE i # 1
    <3>1. h2[s[i]] = h[s[i]]
      BY <1>6, <2>3
    <3> QED
      BY <2>1, <2>3, <3>1
  <2> QED
    BY <2>2, <2>3
<1>8. /\ t \in [1 .. n + 1 -> Node] /\ t[1] = m
      /\ \A i \in 1 .. n : t[i + 1] = s[i]
      /\ \A i \in 1 .. n + 1 : i = 1 \/ \E j \in 1 .. n : i = j + 1
  <2>1. \A i \in 1 .. n + 1 : i # 1 => i - 1 \in 1 .. n /\ i = (i - 1) + 1
    BY <1>1
  <2>2. \A i \in 1 .. n : i + 1 \in 1 .. n + 1 /\ i + 1 # 1 /\ (i + 1) - 1 = i
    BY <1>1
  <2>3. 1 \in 1 .. n + 1
    BY <1>1
  <2>4. \A i \in 1 .. n + 1 : t[i] \in Node
    BY <1>2, <2>1 DEF FrontNodes
  <2> QED
    BY <2>1, <2>2, <2>3, <2>4 DEF FrontNodes
<1>9. {t[i] : i \in 1 .. n + 1} = {s[i] : i \in 1 .. n} \cup {m}
  <2>1. 1 \in 1 .. n + 1 /\ \A i \in 1 .. n : i + 1 \in 1 .. n + 1
    BY <1>1
  <2> QED
    BY <1>8, <2>1
<1>10. h2 \in [{t[i] : i \in 1 .. n + 1} -> Cells]
  <2>1. ASSUME NEW x \in {s[i] : i \in 1 .. n} \cup {m} PROVE h2[x] \in Cells
    <3>1. CASE x = m
      BY <1>4, <1>6, <3>1
    <3>2. CASE x # m
      <4>1. PICK i \in 1 .. n : x = s[i]
        BY <3>2
      <4> QED
        BY <1>7, <4>1
    <3> QED
      BY <3>1, <3>2
  <2> QED
    BY <1>6, <1>9, <2>1
<1>11. \A i, j \in 1 .. n + 1 : t[i] = t[j] => i = j
  BY <1>1, <1>2, <1>8
<1>12. (IF n = 0 THEN m ELSE e) = t[n + 1] /\ m = t[1] /\ n + 1 \in Nat /\ n + 1 # 0
  <2>1. n # 0 => n \in 1 .. n
    BY <1>1
  <2> QED
    BY <1>1, <1>8, <2>1
<1>13. ASSUME NEW i \in 1 .. n + 1
       PROVE  /\ h2[t[i]].next = (IF i = n + 1 THEN Null ELSE t[i + 1])
              /\ h2[t[i]].previous = (IF i = 1 THEN Null ELSE t[i - 1])
  <2>1. CASE i = 1
    <3>1. n # 0 => 1 \in 1 .. n
      BY <1>1
    <3>2. b = IF n = 0 THEN Null ELSE t[1 + 1]
      BY <1>1, <1>8, <3>1
    <3>3. i = n + 1 <=> n = 0
      BY <1>1, <2>1
    <3>4. h2[t[i]] = c
      BY <1>6, <1>8, <2>1, Zenon
    <3> QED
      BY <1>4, <2>1, <3>2, <3>3, <3>4
  <2>2. CASE i # 1
    <3>1. PICK j \in 1 .. n : i = j + 1
      BY <1>8, <2>2
    <3>2. t[i] = s[j] /\ i - 1 = j /\ (i = n + 1 <=> j = n) /\ j \in Nat
      BY <1>1, <1>8, <3>1
    <3>3. j # n => t[i + 1] = s[j + 1]
      <4>1. j # n => j + 1 \in 1 .. n
        BY <1>1, <3>2
      <4> QED
        BY <1>8, <3>1, <4>1
    <3>4. j # 1 => t[j] = s[j - 1]
      <4>1. j # 1 => j - 1 \in 1 .. n /\ (j - 1) + 1 = j
        BY <1>1, <3>2
      <4> QED
        BY <1>8, <4>1
    <3> QED
      BY <1>1, <1>7, <1>8, <2>2, <3>2, <3>3, <3>4
  <2> QED
    BY <2>1, <2>2
<1>14. IsList(t, h2, m, IF n = 0 THEN m ELSE e, n + 1)
  BY <1>8, <1>10, <1>11, <1>12, <1>13, Zenon DEF IsList
<1> QED
  BY <1>4, <1>6, <1>7, <1>14

\* A node after the last one.
BackHeap(h, e, n, m, v) ==
    IF n = 0 THEN List!WithNode(h, m, e, Null, v)
    ELSE [List!WithNode(h, m, e, Null, v) EXCEPT ![e].next = m]

BackNodes(s, n, m) == [i \in 1 .. n + 1 |-> IF i = n + 1 THEN m ELSE s[i]]

LEMMA PushedBack ==
    ASSUME NEW s, NEW h, NEW b, NEW e, NEW n, IsList(s, h, b, e, n),
           NEW m \in Node \ DOMAIN h, NEW v \in Value,
           NEW h2, h2 = BackHeap(h, e, n, m, v), NEW t, t = BackNodes(s, n, m)
    PROVE  /\ IsList(t, h2, IF n = 0 THEN m ELSE b, m, n + 1)
           /\ h2[m].value = v /\ \A i \in 1 .. n : h2[s[i]].value = h[s[i]].value
<1>1. /\ n \in Nat /\ s \in [1 .. n -> Node]
      /\ \A i, j \in 1 .. n : s[i] = s[j] => i = j
      /\ h \in [{s[i] : i \in 1 .. n} -> Cells]
      /\ b = (IF n = 0 THEN Null ELSE s[1])
      /\ e = (IF n = 0 THEN Null ELSE s[n])
      /\ \A i \in 1 .. n : /\ h[s[i]].next = (IF i = n THEN Null ELSE s[i + 1])
                           /\ h[s[i]].previous = (IF i = 1 THEN Null ELSE s[i - 1])
  BY DEF IsList
<1>2. \A i \in 1 .. n : s[i] \in Node /\ h[s[i]] \in Cells /\ s[i] # m /\ s[i] \in DOMAIN h
  BY <1>1
<1>3. n # 0 => n \in 1 .. n
  BY <1>1
<1>0. e \in Node \cup {Null}
  BY <1>1, <1>2, <1>3
<1> DEFINE c == [previous |-> e, next |-> Null, value |-> v]
           h1 == List!WithNode(h, m, e, Null, v)
<1>4. c \in Cells /\ c.previous = e /\ c.next = Null /\ c.value = v
  BY <1>0, CellMade DEF c
<1>5. /\ h1 = [x \in {s[i] : i \in 1 .. n} \cup {m} |-> h1[x]]
      /\ h1[m] = c /\ \A i \in 1 .. n : h1[s[i]] = h[s[i]]
  BY <1>1, <1>2 DEF List!WithNode
<1> HIDE DEF c, h1
<1>6. /\ h2 = [x \in {s[i] : i \in 1 .. n} \cup {m} |-> h2[x]]
      /\ h2[m] = c
      /\ \A i \in 1 .. n : h2[s[i]] = IF i = n THEN [h[s[i]] EXCEPT !.next = m] ELSE h[s[i]]
  <2>1. CASE n = 0
    BY <1>5, <2>1 DEF h1, BackHeap
  <2>2. CASE n # 0
    <3>1. h2 = [h1 EXCEPT ![e] = [h1[e] EXCEPT !.next = m]]
      BY <2>2 DEF h1, BackHeap
    <3>2. e = s[n] /\ n \in 1 .. n /\ h1[e] = h[s[n]] /\ m # e
      <4>1. e = s[n] /\ n \in 1 .. n
        BY <1>1, <1>3, <2>2, Zenon
      <4> QED
        BY <1>2, <1>5, <4>1, Zenon
    <3>3. \A i \in 1 .. n : s[i] = e <=> i = n
      BY <1>1, <3>2
    <3>4. /\ DOMAIN h1 = {s[i] : i \in 1 .. n} \cup {m}
          /\ e \in DOMAIN h1 /\ m \in DOMAIN h1 /\ \A i \in 1 .. n : s[i] \in DOMAIN h1
      BY <1>5, <3>2
    <3>5. h2 = [x \in DOMAIN h1 |-> IF x = e THEN [h1[e] EXCEPT !.next = m] ELSE h1[x]]
      BY <3>1, Zenon
    <3>6. h2 = [x \in {s[i] : i \in 1 .. n} \cup {m} |-> h2[x]]
      <4>1. h2 = [x \in DOMAIN h1 |-> h2[x]]
        BY <3>5
      <4> QED
        BY <3>4, <4>1, Zenon
    <3>7. h2[m] = c
      BY <1>5, <3>2, <3>4, <3>5, Zenon
    <3>8. ASSUME NEW i \in 1 .. n
          PROVE  h2[s[i]] = IF i = n THEN [h[s[i]] EXCEPT !.next = m] ELSE h[s[i]]
      <4>1. h2[s[i]] = IF s[i] = e THEN [h1[e] EXCEPT !.next = m] ELSE h1[s[i]]
        BY <3>4, <3>5, Zenon
      <4>2. h1[s[i]] = h[s[i]]
        BY <1>5
      <4> QED
        BY <3>2, <3>3, <4>1, <4>2, Zenon
    <3> QED
      BY <3>6, <3>7, <3>8
  <2> QED
    BY <2>1, <2>2
<1>7. \A i \in 1 .. n : /\ h2[s[i]] \in Cells /\ h2[s[i]].previous = h[s[i]].previous
                        /\ h2[s[i]].next = IF i = n THEN m ELSE h[s[i]].next
                        /\ h2[s[i]].value = h[s[i]].value
  <2> SUFFICES ASSUME NEW i \in 1 .. n
               PROVE  /\ h2[s[i]] \in Cells /\ h2[s[i]].previous = h[s[i]].previous
                      /\ h2[s[i]].next = IF i = n THEN m ELSE h[s[i]].next
                      /\ h2[s[i]].value = h[s[i]].value
    OBVIOUS
  <2>1. h[s[i]] \in Cells /\ m \in Node \cup {Null}
    BY <1>2
  <2>2. CASE i = n
    <3>1. h2[s[i]] = [h[s[i]] EXCEPT !.next = m]
      BY <1>6, <2>2
    <3> QED
      BY <2>1, <2>2, <3>1, CellLinked
  <2>3. CASE i # n
    <3>1. h2[s[i]] = h[s[i]]
      BY <1>6, <2>3
    <3> QED
      BY <2>1, <2>3, <3>1
  <2> QED
    BY <2>2, <2>3
<1>8. /\ t \in [1 .. n + 1 -> Node] /\ t[n + 1] = m
      /\ \A i \in 1 .. n : t[i] = s[i]
      /\ \A i \in 1 .. n + 1 : i = n + 1 \/ i \in 1 .. n
  <2>1. \A i \in 1 .. n + 1 : i # n + 1 => i \in 1 .. n
    BY <1>1
  <2>2. \A i \in 1 .. n : i \in 1 .. n + 1 /\ i # n + 1
    BY <1>1
  <2>3. n + 1 \in 1 .. n + 1
    BY <1>1
  <2>4. \A i \in 1 .. n + 1 : t[i] \in Node
    BY <1>2, <2>1 DEF BackNodes
  <2> QED
    BY <2>1, <2>2, <2>3, <2>4 DEF BackNodes
<1>9. {t[i] : i \in 1 .. n + 1} = {s[i] : i \in 1 .. n} \cup {m}
  <2>1. n + 1 \in 1 .. n + 1 /\ \A i \in 1 .. n : i \in 1 .. n + 1
    BY <1>1
  <2> QED
    BY <1>8, <2>1
<1>10. h2 \in [{t[i] : i \in 1 .. n + 1} -> Cells]
  <2>1. ASSUME NEW x \in {s[i] : i \in 1 .. n} \cup {m} PROVE h2[x] \in Cells
    <3>1. CASE x = m
      BY <1>4, <1>6, <3>1
    <3>2. CASE x # m
      <4>1. PICK i \in 1 .. n : x = s[i]
        BY <3>2
      <4> QED
        BY <1>7, <4>1
    <3> QED
      BY <3>1, <3>2
  <2> QED
    BY <1>6, <1>9, <2>1
<1>11. \A i, j \in 1 .. n + 1 : t[i] = t[j] => i = j
  BY <1>1, <1>2, <1>8
<1>12. (IF n = 0 THEN m ELSE b) = t[1] /\ m = t[n + 1] /\ n + 1 \in Nat /\ n + 1 # 0
  <2>1. n # 0 => 1 \in 1 .. n
    BY <1>1
  <2> QED
    BY <1>1, <1>8, <2>1
<1>13. ASSUME NEW i \in 1 .. n + 1
       PROVE  /\ h2[t[i]].next = (IF i = n + 1 THEN Null ELSE t[i + 1])
              /\ h2[t[i]].previous = (IF i = 1 THEN Null ELSE t[i - 1])
  <2>1. CASE i = n + 1
    <3>1. n # 0 => n \in 1 .. n
      BY <1>1
    <3>2. e = IF n = 0 THEN Null ELSE t[n]
      BY <1>1, <1>8, <3>1
    <3>3. (i = 1 <=> n = 0) /\ i - 1 = n
      BY <1>1, <2>1
    <3>4. h2[t[i]] = c
      BY <1>6, <1>8, <2>1, Zenon
    <3> QED
      BY <1>4, <2>1, <3>2, <3>3, <3>4
  <2>2. CASE i # n + 1
    <3>1. i \in 1 .. n
      BY <1>8, <2>2
    <3>2. t[i] = s[i] /\ h2[t[i]].next = IF i = n THEN m ELSE s[i + 1]
      BY <1>1, <1>7, <1>8, <3>1
    <3>3. i # n => t[i + 1] = s[i + 1]
      <4>1. i # n => i + 1 \in 1 .. n
        BY <1>1, <3>1
      <4> QED
        BY <1>8, <4>1
    <3>4. i # 1 => t[i - 1] = s[i - 1]
      <4>1. i # 1 => i - 1 \in 1 .. n
        BY <1>1, <3>1
      <4> QED
        BY <1>8, <4>1
    <3>5. h2[t[i]].next = t[i + 1]
      BY <1>8, <3>2, <3>3
    <3>6. h2[t[i]].previous = IF i = 1 THEN Null ELSE t[i - 1]
      BY <1>1, <1>7, <3>1, <3>2, <3>4
    <3> QED
      BY <2>2, <3>5, <3>6
  <2> QED
    BY <2>1, <2>2
<1>14. IsList(t, h2, IF n = 0 THEN m ELSE b, m, n + 1)
  BY <1>8, <1>10, <1>11, <1>12, <1>13, Zenon DEF IsList
<1> QED
  BY <1>4, <1>6, <1>7, <1>14

\* The first node goes.
FrontlessHeap(h, b) ==
    IF h[b].next = Null THEN List!Without(h, b)
    ELSE [List!Without(h, b) EXCEPT ![h[b].next].previous = Null]

FrontlessNodes(s, n) == [i \in 1 .. n - 1 |-> s[i + 1]]

LEMMA PoppedFront ==
    ASSUME NEW s, NEW h, NEW b, NEW e, NEW n, IsList(s, h, b, e, n), n # 0,
           NEW h2, h2 = FrontlessHeap(h, b), NEW t, t = FrontlessNodes(s, n)
    PROVE  /\ IsList(t, h2, h[b].next, IF h[b].next = Null THEN Null ELSE e, n - 1)
           /\ \A i \in 1 .. n - 1 : h2[t[i]].value = h[s[i + 1]].value
<1>1. /\ n \in Nat /\ s \in [1 .. n -> Node]
      /\ \A i, j \in 1 .. n : s[i] = s[j] => i = j
      /\ h \in [{s[i] : i \in 1 .. n} -> Cells]
      /\ b = s[1] /\ e = s[n]
      /\ \A i \in 1 .. n : /\ h[s[i]].next = (IF i = n THEN Null ELSE s[i + 1])
                           /\ h[s[i]].previous = (IF i = 1 THEN Null ELSE s[i - 1])
  BY DEF IsList
<1>2. n - 1 \in Nat /\ 1 \in 1 .. n /\ \A i \in 1 .. n - 1 : i + 1 \in 1 .. n /\ i + 1 # 1 /\ i \in 1 .. n
  BY <1>1
<1>3. \A i \in 1 .. n : i = 1 \/ \E j \in 1 .. n - 1 : i = j + 1
  <2> SUFFICES ASSUME NEW i \in 1 .. n, i # 1 PROVE \E j \in 1 .. n - 1 : i = j + 1
    OBVIOUS
  <2>1. i - 1 \in 1 .. n - 1 /\ i = (i - 1) + 1
    BY <1>1
  <2> QED
    BY <2>1
<1>4. /\ t \in [1 .. n - 1 -> Node] /\ \A i \in 1 .. n - 1 : t[i] = s[i + 1]
      /\ \A i, j \in 1 .. n - 1 : t[i] = t[j] => i = j
  <2>1. \A i \in 1 .. n - 1 : t[i] = s[i + 1] /\ t[i] \in Node
    BY <1>1, <1>2 DEF FrontlessNodes
  <2>2. ASSUME NEW i \in 1 .. n - 1, NEW j \in 1 .. n - 1, t[i] = t[j] PROVE i = j
    <3>1. i + 1 = j + 1
      BY <1>1, <1>2, <2>1, <2>2
    <3> QED
      BY <3>1
  <2> QED
    BY <2>1, <2>2 DEF FrontlessNodes
<1> DEFINE h1 == List!Without(h, b)
           rest == {s[i] : i \in 1 .. n} \ {b}
<1>5. rest = {t[i] : i \in 1 .. n - 1}
  <2>1. ASSUME NEW x \in rest PROVE x \in {t[i] : i \in 1 .. n - 1}
    <3>1. PICK i \in 1 .. n : x = s[i] /\ i # 1
      BY <1>1
    <3>2. PICK j \in 1 .. n - 1 : i = j + 1
      BY <1>3, <3>1
    <3> QED
      BY <1>4, <3>1, <3>2
  <2>2. ASSUME NEW i \in 1 .. n - 1 PROVE t[i] \in rest
    BY <1>1, <1>2, <1>4
  <2> QED
    BY <2>1, <2>2
<1>6. h1 = [x \in rest |-> h[x]]
  BY <1>1 DEF List!Without
<1>7. \A i \in 1 .. n - 1 : h[t[i]] \in Cells /\ t[i] \in rest /\ h1[t[i]] = h[t[i]]
  BY <1>1, <1>2, <1>4, <1>5, <1>6
<1>8. h[b].next = (IF n = 1 THEN Null ELSE t[1]) /\ (h[b].next = Null <=> n = 1)
  <2>1. h[b].next = IF n = 1 THEN Null ELSE s[2]
    BY <1>1, <1>2
  <2>2. n # 1 => 1 \in 1 .. n - 1
    BY <1>1
  <2>3. n # 1 => s[2] = t[1] /\ t[1] # Null
    BY <1>4, <2>2, ContainersAssumption
  <2> QED
    BY <2>1, <2>3
<1> HIDE DEF h1, rest
<1>9. /\ h2 = [x \in rest |-> h2[x]]
      /\ \A i \in 1 .. n - 1 : h2[t[i]] = IF i = 1 THEN [h[t[i]] EXCEPT !.previous = Null] ELSE h[t[i]]
  <2>1. CASE n = 1
    <3>1. h2 = h1
      BY <1>8, <2>1, Zenon DEF FrontlessHeap, h1
    <3>2. 1 .. n - 1 = {}
      BY <2>1
    <3> QED
      BY <1>6, <3>1, <3>2
  <2>2. CASE n # 1
    <3>1. h2 = [h1 EXCEPT ![t[1]] = [h1[t[1]] EXCEPT !.previous = Null]]
      BY <1>8, <2>2 DEF FrontlessHeap, h1
    <3>2. 1 \in 1 .. n - 1
      BY <1>1, <2>2
    <3>3. \A i \in 1 .. n - 1 : t[i] = t[1] <=> i = 1
      BY <1>4, <3>2
    <3>4. DOMAIN h1 = rest /\ t[1] \in rest /\ h1[t[1]] = h[t[1]]
      BY <1>6, <1>7, <3>2
    <3>5. h2 = [x \in rest |-> IF x = t[1] THEN [h[t[1]] EXCEPT !.previous = Null] ELSE h1[x]]
      BY <3>1, <3>4
    <3>6. h2 = [x \in rest |-> h2[x]]
      BY <3>5
    <3>7. ASSUME NEW i \in 1 .. n - 1
          PROVE  h2[t[i]] = IF i = 1 THEN [h[t[i]] EXCEPT !.previous = Null] ELSE h[t[i]]
      <4>1. h2[t[i]] = IF t[i] = t[1] THEN [h[t[1]] EXCEPT !.previous = Null] ELSE h1[t[i]]
        BY <1>7, <3>5, Zenon
      <4> QED
        BY <1>7, <3>3, <4>1, Zenon
    <3> QED
      BY <3>6, <3>7
  <2> QED
    BY <2>1, <2>2
<1>10. \A i \in 1 .. n - 1 : /\ h2[t[i]] \in Cells /\ h2[t[i]].next = h[t[i]].next
                             /\ h2[t[i]].previous = IF i = 1 THEN Null ELSE h[t[i]].previous
                             /\ h2[t[i]].value = h[t[i]].value
  <2> SUFFICES ASSUME NEW i \in 1 .. n - 1
               PROVE  /\ h2[t[i]] \in Cells /\ h2[t[i]].next = h[t[i]].next
                      /\ h2[t[i]].previous = IF i = 1 THEN Null ELSE h[t[i]].previous
                      /\ h2[t[i]].value = h[t[i]].value
    OBVIOUS
  <2>1. h[t[i]] \in Cells
    BY <1>7
  <2>2. CASE i = 1
    <3>1. h2[t[i]] = [h[t[i]] EXCEPT !.previous = Null] /\ Null \in Node \cup {Null}
      BY <1>9, <2>2
    <3> QED
      BY <2>1, <2>2, <3>1, CellLinked
  <2>3. CASE i # 1
    <3>1. h2[t[i]] = h[t[i]]
      BY <1>9, <2>3
    <3> QED
      BY <2>1, <2>3, <3>1
  <2> QED
    BY <2>2, <2>3
<1>11. h2 \in [{t[i] : i \in 1 .. n - 1} -> Cells]
  <2>1. ASSUME NEW x \in rest PROVE h2[x] \in Cells
    <3>1. PICK i \in 1 .. n - 1 : x = t[i]
      BY <1>5
    <3> QED
      BY <1>10, <3>1
  <2> QED
    BY <1>5, <1>9, <2>1
<1>12. ASSUME NEW i \in 1 .. n - 1
       PROVE  /\ h2[t[i]].next = (IF i = n - 1 THEN Null ELSE t[i + 1])
              /\ h2[t[i]].previous = (IF i = 1 THEN Null ELSE t[i - 1])
  <2>1. /\ i + 1 \in 1 .. n /\ i \in Nat /\ t[i] = s[i + 1]
        /\ i + 1 = n <=> i = n - 1
        /\ (i + 1) - 1 = i /\ i + 1 # 1
    BY <1>1, <1>2, <1>4
  <2>2. h[t[i]].next = (IF i = n - 1 THEN Null ELSE s[(i + 1) + 1]) /\ h[t[i]].previous = s[i]
    BY <1>1, <2>1
  <2>3. i # n - 1 => t[i + 1] = s[(i + 1) + 1]
    <3>1. i # n - 1 => i + 1 \in 1 .. n - 1
      BY <1>1, <2>1
    <3> QED
      BY <1>4, <3>1
  <2>4. i # 1 => t[i - 1] = s[i]
    <3>1. i # 1 => i - 1 \in 1 .. n - 1 /\ (i - 1) + 1 = i
      BY <1>1, <2>1
    <3> QED
      BY <1>4, <3>1
  <2> QED
    BY <1>10, <2>2, <2>3, <2>4
<1>13. /\ h[b].next = (IF n - 1 = 0 THEN Null ELSE t[1])
       /\ (IF h[b].next = Null THEN Null ELSE e) = (IF n - 1 = 0 THEN Null ELSE t[n - 1])
  <2>1. n = 1 <=> n - 1 = 0
    BY <1>1
  <2>2. n # 1 => n - 1 \in 1 .. n - 1 /\ (n - 1) + 1 = n
    BY <1>1
  <2>3. n # 1 => t[n - 1] = s[n]
    BY <1>4, <2>2
  <2> QED
    BY <1>1, <1>8, <2>1, <2>3, Zenon
<1>14. IsList(t, h2, h[b].next, IF h[b].next = Null THEN Null ELSE e, n - 1)
  BY <1>2, <1>4, <1>11, <1>12, <1>13, Zenon DEF IsList
<1> QED
  BY <1>4, <1>10, <1>14

\* The last node goes.
BacklessHeap(h, e) ==
    IF h[e].previous = Null THEN List!Without(h, e)
    ELSE [List!Without(h, e) EXCEPT ![h[e].previous].next = Null]

BacklessNodes(s, n) == [i \in 1 .. n - 1 |-> s[i]]

LEMMA PoppedBack ==
    ASSUME NEW s, NEW h, NEW b, NEW e, NEW n, IsList(s, h, b, e, n), n # 0,
           NEW h2, h2 = BacklessHeap(h, e), NEW t, t = BacklessNodes(s, n)
    PROVE  /\ IsList(t, h2, IF h[e].previous = Null THEN Null ELSE b, h[e].previous, n - 1)
           /\ \A i \in 1 .. n - 1 : h2[t[i]].value = h[s[i]].value
<1>1. /\ n \in Nat /\ s \in [1 .. n -> Node]
      /\ \A i, j \in 1 .. n : s[i] = s[j] => i = j
      /\ h \in [{s[i] : i \in 1 .. n} -> Cells]
      /\ b = s[1] /\ e = s[n]
      /\ \A i \in 1 .. n : /\ h[s[i]].next = (IF i = n THEN Null ELSE s[i + 1])
                           /\ h[s[i]].previous = (IF i = 1 THEN Null ELSE s[i - 1])
  BY DEF IsList
<1>2. n - 1 \in Nat /\ n \in 1 .. n /\ \A i \in 1 .. n - 1 : i \in 1 .. n /\ i # n
  BY <1>1
<1>3. \A i \in 1 .. n : i = n \/ i \in 1 .. n - 1
  BY <1>1
<1>4. /\ t \in [1 .. n - 1 -> Node] /\ \A i \in 1 .. n - 1 : t[i] = s[i]
      /\ \A i, j \in 1 .. n - 1 : t[i] = t[j] => i = j
  <2>1. \A i \in 1 .. n - 1 : t[i] = s[i] /\ t[i] \in Node
    BY <1>1, <1>2 DEF BacklessNodes
  <2>2. ASSUME NEW i \in 1 .. n - 1, NEW j \in 1 .. n - 1, t[i] = t[j] PROVE i = j
    BY <1>1, <1>2, <2>1, <2>2
  <2> QED
    BY <2>1, <2>2 DEF BacklessNodes
<1> DEFINE h1 == List!Without(h, e)
           rest == {s[i] : i \in 1 .. n} \ {e}
<1>5. rest = {t[i] : i \in 1 .. n - 1}
  <2>1. ASSUME NEW x \in rest PROVE x \in {t[i] : i \in 1 .. n - 1}
    <3>1. PICK i \in 1 .. n : x = s[i] /\ i # n
      BY <1>1
    <3> QED
      BY <1>3, <1>4, <3>1
  <2>2. ASSUME NEW i \in 1 .. n - 1 PROVE t[i] \in rest
    BY <1>1, <1>2, <1>4
  <2> QED
    BY <2>1, <2>2
<1>6. h1 = [x \in rest |-> h[x]]
  BY <1>1 DEF List!Without
<1>7. \A i \in 1 .. n - 1 : h[t[i]] \in Cells /\ t[i] \in rest /\ h1[t[i]] = h[t[i]]
  BY <1>1, <1>2, <1>4, <1>5, <1>6
<1>8. h[e].previous = (IF n = 1 THEN Null ELSE t[n - 1]) /\ (h[e].previous = Null <=> n = 1)
  <2>1. h[e].previous = IF n = 1 THEN Null ELSE s[n - 1]
    BY <1>1, <1>2
  <2>2. n # 1 => n - 1 \in 1 .. n - 1
    BY <1>1
  <2>3. n # 1 => s[n - 1] = t[n - 1] /\ t[n - 1] # Null
    BY <1>4, <2>2, ContainersAssumption
  <2> QED
    BY <2>1, <2>3
<1> HIDE DEF h1, rest
<1>9. /\ h2 = [x \in rest |-> h2[x]]
      /\ \A i \in 1 .. n - 1 : h2[t[i]] = IF i = n - 1 THEN [h[t[i]] EXCEPT !.next = Null] ELSE h[t[i]]
  <2>1. CASE n = 1
    <3>1. h2 = h1
      BY <1>8, <2>1, Zenon DEF BacklessHeap, h1
    <3>2. 1 .. n - 1 = {}
      BY <2>1
    <3> QED
      BY <1>6, <3>1, <3>2
  <2>2. CASE n # 1
    <3>1. h2 = [h1 EXCEPT ![t[n - 1]] = [h1[t[n - 1]] EXCEPT !.next = Null]]
      BY <1>8, <2>2 DEF BacklessHeap, h1
    <3>2. n - 1 \in 1 .. n - 1
      BY <1>1, <2>2
    <3>3. \A i \in 1 .. n - 1 : t[i] = t[n - 1] <=> i = n - 1
      BY <1>4, <3>2
    <3>4. DOMAIN h1 = rest /\ t[n - 1] \in rest /\ h1[t[n - 1]] = h[t[n - 1]]
      BY <1>6, <1>7, <3>2
    <3>5. h2 = [x \in rest |-> IF x = t[n - 1] THEN [h[t[n - 1]] EXCEPT !.next = Null] ELSE h1[x]]
      BY <3>1, <3>4
    <3>6. h2 = [x \in rest |-> h2[x]]
      BY <3>5
    <3>7. ASSUME NEW i \in 1 .. n - 1
          PROVE  h2[t[i]] = IF i = n - 1 THEN [h[t[i]] EXCEPT !.next = Null] ELSE h[t[i]]
      <4>1. h2[t[i]] = IF t[i] = t[n - 1] THEN [h[t[n - 1]] EXCEPT !.next = Null] ELSE h1[t[i]]
        BY <1>7, <3>5, Zenon
      <4> QED
        BY <1>7, <3>3, <4>1, Zenon
    <3> QED
      BY <3>6, <3>7
  <2> QED
    BY <2>1, <2>2
<1>10. \A i \in 1 .. n - 1 : /\ h2[t[i]] \in Cells /\ h2[t[i]].previous = h[t[i]].previous
                             /\ h2[t[i]].next = IF i = n - 1 THEN Null ELSE h[t[i]].next
                             /\ h2[t[i]].value = h[t[i]].value
  <2> SUFFICES ASSUME NEW i \in 1 .. n - 1
               PROVE  /\ h2[t[i]] \in Cells /\ h2[t[i]].previous = h[t[i]].previous
                      /\ h2[t[i]].next = IF i = n - 1 THEN Null ELSE h[t[i]].next
                      /\ h2[t[i]].value = h[t[i]].value
    OBVIOUS
  <2>1. h[t[i]] \in Cells
    BY <1>7
  <2>2. CASE i = n - 1
    <3>1. h2[t[i]] = [h[t[i]] EXCEPT !.next = Null] /\ Null \in Node \cup {Null}
      BY <1>9, <2>2
    <3>2. /\ h2[t[i]] \in Cells /\ h2[t[i]].next = Null /\ h2[t[i]].previous = h[t[i]].previous
          /\ h2[t[i]].value = h[t[i]].value
      BY <2>1, <3>1, CellLinked
    <3> QED
      BY <2>2, <3>2
  <2>3. CASE i # n - 1
    <3>1. h2[t[i]] = h[t[i]]
      BY <1>9, <2>3
    <3> QED
      BY <2>1, <2>3, <3>1
  <2> QED
    BY <2>2, <2>3
<1>11. h2 \in [{t[i] : i \in 1 .. n - 1} -> Cells]
  <2>1. ASSUME NEW x \in rest PROVE h2[x] \in Cells
    <3>1. PICK i \in 1 .. n - 1 : x = t[i]
      BY <1>5
    <3> QED
      BY <1>10, <3>1
  <2> QED
    BY <1>5, <1>9, <2>1
<1>12. ASSUME NEW i \in 1 .. n - 1
       PROVE  /\ h2[t[i]].next = (IF i = n - 1 THEN Null ELSE t[i + 1])
              /\ h2[t[i]].previous = (IF i = 1 THEN Null ELSE t[i - 1])
  <2>1. i \in 1 .. n /\ i # n /\ i \in Nat /\ t[i] = s[i]
    BY <1>1, <1>2, <1>4
  <2>2. h[t[i]].next = s[i + 1] /\ h[t[i]].previous = (IF i = 1 THEN Null ELSE s[i - 1])
    BY <1>1, <2>1
  <2>3. i # n - 1 => t[i + 1] = s[i + 1]
    <3>1. i # n - 1 => i + 1 \in 1 .. n - 1
      BY <1>1, <2>1
    <3> QED
      BY <1>4, <3>1
  <2>4. i # 1 => t[i - 1] = s[i - 1]
    <3>1. i # 1 => i - 1 \in 1 .. n - 1
      BY <1>1, <2>1
    <3> QED
      BY <1>4, <3>1
  <2> QED
    BY <1>10, <2>2, <2>3, <2>4
<1>13. /\ h[e].previous = (IF n - 1 = 0 THEN Null ELSE t[n - 1])
       /\ (IF h[e].previous = Null THEN Null ELSE b) = (IF n - 1 = 0 THEN Null ELSE t[1])
  <2>1. n = 1 <=> n - 1 = 0
    BY <1>1
  <2>2. n # 1 => 1 \in 1 .. n - 1
    BY <1>1
  <2>3. n # 1 => t[1] = s[1]
    BY <1>4, <2>2
  <2> QED
    BY <1>1, <1>8, <2>1, <2>3, Zenon
<1>14. IsList(t, h2, IF h[e].previous = Null THEN Null ELSE b, h[e].previous, n - 1)
  BY <1>2, <1>4, <1>11, <1>12, <1>13, Zenon DEF IsList
<1> QED
  BY <1>4, <1>10, <1>14

\* A range stays what it is while the nodes it spans move d places.
CarriedOver(s, h, t, h2, i, j, d) ==
    \A m \in i .. j : t[m + d] = s[m] /\ h2[s[m]].value = h[s[m]].value

LEMMA SpanMoves ==
    ASSUME NEW s, NEW h, NEW t, NEW h2, NEW i \in Int, NEW j \in Int, NEW d \in Int, i <= j,
           NEW k, k = i + d, NEW l, l = j + d, CarriedOver(s, h, t, h2, i, j, d)
    PROVE  Spans(t, h2, k, l) = Spans(s, h, i, j)
<1>0. \A m \in i .. j : t[m + d] = s[m] /\ h2[s[m]].value = h[s[m]].value
  BY DEF CarriedOver
<1>1. l - k = j - i /\ i \in i .. j /\ j \in i .. j
  OBVIOUS
<1>2. t[k] = s[i] /\ t[l] = s[j]
  BY <1>0, <1>1
<1>3. \A m \in 1 .. (j - i) + 1 : h2[t[(k + m) - 1]].value = h[s[(i + m) - 1]].value
  <2> SUFFICES ASSUME NEW m \in 1 .. (j - i) + 1
               PROVE  h2[t[(k + m) - 1]].value = h[s[(i + m) - 1]].value
    OBVIOUS
  <2>1. (i + m) - 1 \in i .. j /\ (k + m) - 1 = ((i + m) - 1) + d
    OBVIOUS
  <2> QED
    BY <1>0, <2>1
<1> QED
  BY <1>1, <1>2, <1>3 DEF Spans

LEMMA RangeMoves ==
    ASSUME NEW s, NEW h, NEW n \in Nat, NEW t, NEW h2, NEW n2 \in Nat, NEW d \in Int, NEW r,
           IsRange(s, h, n, r), r # List!NoRange,
           \A i \in 1 .. n : h2[s[i]].value = h[s[i]].value,
           \A i \in 1 .. n : i + d \in 1 .. n2 /\ t[i + d] = s[i]
    PROVE  IsRange(t, h2, n2, r)
<1>1. PICK i, j \in 1 .. n : i <= j /\ r = Spans(s, h, i, j)
  BY DEF IsRange
<1>2. /\ \A m \in i .. j : t[m + d] = s[m] /\ h2[s[m]].value = h[s[m]].value
      /\ i \in Int /\ j \in Int /\ i + d \in 1 .. n2 /\ j + d \in 1 .. n2 /\ i + d <= j + d
  BY <1>1
<1>3. Spans(t, h2, i + d, j + d) = Spans(s, h, i, j)
  <2> DEFINE k == i + d
             l == j + d
  <2>1. k = i + d /\ l = j + d
    OBVIOUS
  <2> HIDE DEF k, l
  <2>2. Spans(t, h2, k, l) = Spans(s, h, i, j)
    <3>1. i \in Int /\ j \in Int /\ d \in Int /\ i <= j
      BY <1>1, <1>2
    <3>2. CarriedOver(s, h, t, h2, i, j, d)
      BY <1>2 DEF CarriedOver
    <3> QED
      BY <2>1, <3>1, <3>2, SpanMoves
  <2> QED
    BY <2>2 DEF k, l
<1> QED
  BY <1>1, <1>2, <1>3, Zenon DEF IsRange

\* The values of the list.
LEMMA ListContents ==
    ASSUME NEW s, IsList(s, heap, list_begin, list_end, list_size)
    PROVE  /\ List!contents \in Seq(Value) /\ Len(List!contents) = list_size
           /\ \A i \in 1 .. list_size : List!contents[i] = heap[s[i]].value
<1>1. List!contents = [i \in 1 .. list_size |-> heap[s[i]].value]
  BY Walk DEF Walked
<1>2. list_size \in Nat /\ \A i \in 1 .. list_size : heap[s[i]].value \in Value
  BY DEF IsList, Cells
<1>3. List!contents \in [1 .. list_size -> Value]
  BY <1>1, <1>2
<1> QED
  BY <1>1, <1>2, <1>3, SeqDef, LenProperties

LEMMA ListContentsNext ==
    \A s : IsList(s, heap', list_begin', list_end', list_size') =>
              /\ List!contents' \in Seq(Value) /\ Len(List!contents') = list_size'
              /\ \A i \in 1 .. list_size' : List!contents'[i] = heap'[s[i]].value
<1>1. \A s : IsList(s, heap, list_begin, list_end, list_size) =>
                /\ List!contents \in Seq(Value) /\ Len(List!contents) = list_size
                /\ \A i \in 1 .. list_size : List!contents[i] = heap[s[i]].value
  BY ListContents
<1>2. (\A s : IsList(s, heap, list_begin, list_end, list_size) =>
                /\ List!contents \in Seq(Value) /\ Len(List!contents) = list_size
                /\ \A i \in 1 .. list_size : List!contents[i] = heap[s[i]].value)'
  BY <1>1, PTL
<1> QED
  BY <1>2

LEMMA ListPushFront ==
    ASSUME ListInv, NEW v \in Value, List!push_front(v)
    PROVE  ListInv' /\ List!Sequence!PushFront(v)
<1>1. PICK s : /\ IsList(s, heap, list_begin, list_end, list_size)
               /\ IsRange(s, heap, list_size, list_range)
  BY Zenon DEF ListInv
<1>2. PICK m \in Node \ DOMAIN heap :
          /\ heap' = FrontHeap(heap, list_begin, list_size, m, v)
          /\ list_end' = IF list_size = 0 THEN m ELSE list_end
          /\ list_begin' = m /\ list_size' = list_size + 1 /\ list_range' = list_range
  BY Zenon DEF List!push_front, List!empty, FrontHeap
<1> DEFINE n == list_size
           t == FrontNodes(s, n, m)
           c == List!contents
<1>3. /\ IsList(t, heap', list_begin', list_end', list_size')
      /\ heap'[m].value = v /\ \A i \in 1 .. n : heap'[s[i]].value = heap[s[i]].value
  <2> HIDE DEF t
  <2>1. /\ IsList(t, heap', m, IF n = 0 THEN m ELSE list_end, n + 1)
        /\ heap'[m].value = v /\ \A i \in 1 .. n : heap'[s[i]].value = heap[s[i]].value
    BY <1>1, <1>2, PushedFront DEF t
  <2> QED
    BY <1>2, <2>1
<1>4. n \in Nat /\ t[1] = m /\ \A i \in 1 .. n : i + 1 \in 1 .. n + 1 /\ t[i + 1] = s[i]
  BY <1>1 DEF IsList, FrontNodes
<1> HIDE DEF t
<1>5. IsRange(t, heap', list_size', list_range')
  <2>1. CASE list_range = List!NoRange
    <3>1. List!NoRange' = List!NoRange
      BY DEF List!NoRange
    <3> QED
      BY <1>2, <2>1 DEF IsRange
  <2>2. CASE list_range # List!NoRange
    <3>1. list_size' \in Nat /\ n \in Nat /\ 1 \in Int
      BY <1>2, <1>4
    <3>2. \A i \in 1 .. n : i + 1 \in 1 .. list_size' /\ t[i + 1] = s[i]
      BY <1>2, <1>4
    <3>3. IsRange(t, heap', list_size', list_range)
      BY <1>1, <1>3, <2>2, <3>1, <3>2, RangeMoves
    <3> QED
      BY <1>2, <3>3
  <2> QED
    BY <2>1, <2>2
<1>6. ListInv'
  BY <1>3, <1>5, Zenon DEF ListInv
<1>7. /\ c \in Seq(Value) /\ Len(c) = n /\ \A i \in 1 .. n : c[i] = heap[s[i]].value
      /\ c' \in Seq(Value) /\ Len(c') = n + 1 /\ \A i \in 1 .. n + 1 : c'[i] = heap'[t[i]].value
  BY <1>1, <1>2, <1>3, ListContents, ListContentsNext
<1> HIDE DEF c
<1>8. c' = <<v>> \o c
  <2>1. <<v>> \o c \in Seq(Value) /\ Len(<<v>> \o c) = n + 1
    BY <1>4, <1>7
  <2>2. (<<v>> \o c)[1] = v /\ \A i \in 1 .. n : (<<v>> \o c)[i + 1] = c[i]
    BY <1>4, <1>7
  <2>3. ASSUME NEW i \in 1 .. n + 1 PROVE c'[i] = (<<v>> \o c)[i]
    <3>1. CASE i = 1
      BY <1>3, <1>4, <1>7, <2>2, <3>1
    <3>2. CASE i # 1
      <4>1. i - 1 \in 1 .. n /\ (i - 1) + 1 = i
        BY <1>4, <3>2
      <4>2. c'[i] = heap[s[i - 1]].value
        BY <1>3, <1>4, <1>7, <4>1
      <4>3. (<<v>> \o c)[i] = c[i - 1]
        BY <2>2, <4>1
      <4> QED
        BY <1>7, <4>1, <4>2, <4>3
    <3> QED
      BY <3>1, <3>2
  <2> QED
    BY <1>7, <2>1, <2>3, SeqEqual
<1>9. n < NodeCount
  <2>1. {s[i] : i \in 1 .. n} # Node
    BY <1>1, <1>2 DEF IsList
  <2> QED
    BY <1>1, <2>1, ListFits DEF IsList
<1> QED
  BY <1>6, <1>7, <1>8, <1>9, NodesCounted DEF List!Sequence!PushFront, c

LEMMA ListPushBack ==
    ASSUME ListInv, NEW v \in Value, List!push_back(v)
    PROVE  ListInv' /\ List!Sequence!PushBack(v)
<1>1. PICK s : /\ IsList(s, heap, list_begin, list_end, list_size)
               /\ IsRange(s, heap, list_size, list_range)
  BY Zenon DEF ListInv
<1>2. PICK m \in Node \ DOMAIN heap :
          /\ heap' = BackHeap(heap, list_end, list_size, m, v)
          /\ list_begin' = IF list_size = 0 THEN m ELSE list_begin
          /\ list_end' = m /\ list_size' = list_size + 1 /\ list_range' = list_range
  BY Zenon DEF List!push_back, List!empty, BackHeap
<1> DEFINE n == list_size
           t == BackNodes(s, n, m)
           c == List!contents
<1>3. /\ IsList(t, heap', list_begin', list_end', list_size')
      /\ heap'[m].value = v /\ \A i \in 1 .. n : heap'[s[i]].value = heap[s[i]].value
  <2> HIDE DEF t
  <2>1. /\ IsList(t, heap', IF n = 0 THEN m ELSE list_begin, m, n + 1)
        /\ heap'[m].value = v /\ \A i \in 1 .. n : heap'[s[i]].value = heap[s[i]].value
    BY <1>1, <1>2, PushedBack DEF t
  <2> QED
    BY <1>2, <2>1
<1>4. n \in Nat /\ t[n + 1] = m /\ \A i \in 1 .. n : i \in 1 .. n + 1 /\ t[i] = s[i]
  BY <1>1 DEF IsList, BackNodes
<1> HIDE DEF t
<1>5. IsRange(t, heap', list_size', list_range')
  <2>1. CASE list_range = List!NoRange
    <3>1. List!NoRange' = List!NoRange
      BY DEF List!NoRange
    <3> QED
      BY <1>2, <2>1 DEF IsRange
  <2>2. CASE list_range # List!NoRange
    <3>1. list_size' \in Nat /\ n \in Nat /\ 0 \in Int
      BY <1>2, <1>4
    <3>2. \A i \in 1 .. n : i + 0 \in 1 .. list_size' /\ t[i + 0] = s[i]
      <4>1. \A i \in 1 .. n : i + 0 = i
        OBVIOUS
      <4> QED
        BY <1>2, <1>4, <4>1
    <3>3. IsRange(t, heap', list_size', list_range)
      BY <1>1, <1>3, <2>2, <3>1, <3>2, RangeMoves
    <3> QED
      BY <1>2, <3>3
  <2> QED
    BY <2>1, <2>2
<1>6. ListInv'
  BY <1>3, <1>5, Zenon DEF ListInv
<1>7. /\ c \in Seq(Value) /\ Len(c) = n /\ \A i \in 1 .. n : c[i] = heap[s[i]].value
      /\ c' \in Seq(Value) /\ Len(c') = n + 1 /\ \A i \in 1 .. n + 1 : c'[i] = heap'[t[i]].value
  BY <1>1, <1>2, <1>3, ListContents, ListContentsNext
<1> HIDE DEF c
<1>8. c' = Append(c, v)
  <2>1. Append(c, v) \in Seq(Value) /\ Len(Append(c, v)) = n + 1
    BY <1>4, <1>7
  <2>2. Append(c, v)[n + 1] = v /\ \A i \in 1 .. n : Append(c, v)[i] = c[i]
    BY <1>4, <1>7
  <2>3. ASSUME NEW i \in 1 .. n + 1 PROVE c'[i] = Append(c, v)[i]
    <3>1. CASE i = n + 1
      BY <1>3, <1>4, <1>7, <2>2, <3>1
    <3>2. CASE i # n + 1
      <4>1. i \in 1 .. n
        BY <1>4, <3>2
      <4>2. c'[i] = heap[s[i]].value
        BY <1>3, <1>4, <1>7, <4>1
      <4> QED
        BY <1>7, <2>2, <4>1, <4>2
    <3> QED
      BY <3>1, <3>2
  <2> QED
    BY <1>7, <2>1, <2>3, SeqEqual
<1>9. n < NodeCount
  <2>1. {s[i] : i \in 1 .. n} # Node
    BY <1>1, <1>2 DEF IsList
  <2> QED
    BY <1>1, <2>1, ListFits DEF IsList
<1> QED
  BY <1>6, <1>7, <1>8, <1>9, NodesCounted DEF List!Sequence!PushBack, c

\* What is popped is not in the range.
LEMMA RangeApart ==
    ASSUME NEW s, IsList(s, heap, list_begin, list_end, list_size), list_size # 0,
           NEW i \in 1 .. list_size, NEW j \in 1 .. list_size, i <= j, list_range = Spans(s, heap, i, j)
    PROVE  /\ ~List!InRange(list_begin) => i # 1
           /\ ~List!InRange(list_end) => j # list_size
<1>1. /\ list_size \in Nat /\ list_begin = s[1] /\ list_end = s[list_size]
      /\ list_range.begin = s[i] /\ list_range.end = s[j] /\ s[i] # Null
  BY ContainersAssumption DEF IsList, Spans
<1>2. \A k \in 1 .. list_size : k - 1 \in 0 .. (list_size - 1) /\ List!Forward[k - 1] = s[k]
  <2> SUFFICES ASSUME NEW k \in 1 .. list_size
               PROVE  k - 1 \in 0 .. (list_size - 1) /\ List!Forward[k - 1] = s[k]
    OBVIOUS
  <2>1. list_size <= NodeCount /\ \A l \in 0 .. NodeCount : List!Forward[l] = IF l < list_size THEN s[l + 1] ELSE Null
    BY Walk DEF Walked
  <2>2. NodeCount \in Nat
    BY NodesCounted
  <2>3. k - 1 \in 0 .. (list_size - 1) /\ k - 1 \in 0 .. NodeCount /\ k - 1 < list_size /\ (k - 1) + 1 = k
    BY <1>1, <2>1, <2>2
  <2> QED
    BY <2>1, <2>3
<1>3. CASE i = 1
  <2>1. i - 1 <= i - 1 /\ i - 1 <= j - 1
    BY <1>1
  <2>2. List!InRange(list_begin)
    BY <1>1, <1>2, <1>3, <2>1 DEF List!InRange
  <2>3. ~List!InRange(list_end) => j # list_size
    <3> SUFFICES ASSUME j = list_size PROVE List!InRange(list_end)
      OBVIOUS
    <3>1. j - 1 <= j - 1
      BY <1>1
    <3> QED
      BY <1>1, <1>2, <2>1, <3>1 DEF List!InRange
  <2> QED
    BY <2>2, <2>3
<1>4. CASE i # 1
  <2> SUFFICES ASSUME j = list_size PROVE List!InRange(list_end)
    BY <1>4
  <2>1. i - 1 <= j - 1 /\ j - 1 <= j - 1
    BY <1>1
  <2> QED
    BY <1>1, <1>2, <2>1 DEF List!InRange
<1> QED
  BY <1>3, <1>4

LEMMA ListPopFront ==
    ASSUME ListInv, List!pop_front
    PROVE  ListInv' /\ List!Sequence!PopFront
<1>1. PICK s : /\ IsList(s, heap, list_begin, list_end, list_size)
               /\ IsRange(s, heap, list_size, list_range)
  BY Zenon DEF ListInv
<1>2. /\ list_size # 0 /\ ~List!InRange(list_begin)
      /\ heap' = FrontlessHeap(heap, list_begin)
      /\ list_end' = IF heap[list_begin].next = Null THEN Null ELSE list_end
      /\ list_begin' = heap[list_begin].next /\ list_size' = list_size - 1 /\ list_range' = list_range
  BY Zenon DEF List!pop_front, List!empty, FrontlessHeap
<1> DEFINE n == list_size
           t == FrontlessNodes(s, n)
           c == List!contents
<1>3. /\ IsList(t, heap', list_begin', list_end', list_size')
      /\ \A i \in 1 .. n - 1 : heap'[t[i]].value = heap[s[i + 1]].value
  <2> HIDE DEF t
  <2>1. /\ IsList(t, heap', heap[list_begin].next, IF heap[list_begin].next = Null THEN Null ELSE list_end, n - 1)
        /\ \A i \in 1 .. n - 1 : heap'[t[i]].value = heap[s[i + 1]].value
    BY <1>1, <1>2, PoppedFront DEF t
  <2> QED
    BY <1>2, <2>1
<1>4. n \in Nat /\ n > 0 /\ \A i \in 1 .. n - 1 : i + 1 \in 1 .. n /\ t[i] = s[i + 1]
  BY <1>1, <1>2 DEF IsList, FrontlessNodes
<1> HIDE DEF t
<1>5. IsRange(t, heap', list_size', list_range')
  <2>1. CASE list_range = List!NoRange
    <3>1. List!NoRange' = List!NoRange
      BY DEF List!NoRange
    <3> QED
      BY <1>2, <2>1 DEF IsRange
  <2>2. CASE list_range # List!NoRange
    <3>1. PICK i, j \in 1 .. n : i <= j /\ list_range = Spans(s, heap, i, j)
      BY <1>1, <2>2 DEF IsRange
    <3>2. i # 1
      BY <1>1, <1>2, <3>1, RangeApart
    <3>3. ASSUME NEW m \in i .. j PROVE t[m + (-1)] = s[m] /\ heap'[s[m]].value = heap[s[m]].value
      <4>1. m - 1 \in 1 .. n - 1 /\ (m - 1) + 1 = m /\ m + (-1) = m - 1
        BY <1>4, <3>1, <3>2
      <4> QED
        BY <1>3, <1>4, <4>1
    <3>4. CarriedOver(s, heap, t, heap', i, j, -1)
      BY <3>3 DEF CarriedOver
    <3>5. i \in Int /\ j \in Int /\ -1 \in Int /\ i - 1 = i + (-1) /\ j - 1 = j + (-1)
      OBVIOUS
    <3>6. Spans(t, heap', i - 1, j - 1) = Spans(s, heap, i, j)
      BY <3>1, <3>4, <3>5, SpanMoves
    <3>7. i - 1 \in 1 .. list_size' /\ j - 1 \in 1 .. list_size' /\ i - 1 <= j - 1
      BY <1>2, <1>4, <3>1, <3>2
    <3> QED
      BY <1>2, <3>1, <3>6, <3>7, Zenon DEF IsRange
  <2> QED
    BY <2>1, <2>2
<1>6. ListInv'
  BY <1>3, <1>5, Zenon DEF ListInv
<1>7. /\ c \in Seq(Value) /\ Len(c) = n /\ \A i \in 1 .. n : c[i] = heap[s[i]].value
      /\ c' \in Seq(Value) /\ Len(c') = n - 1 /\ \A i \in 1 .. n - 1 : c'[i] = heap'[t[i]].value
  BY <1>1, <1>2, <1>3, ListContents, ListContentsNext
<1> HIDE DEF c
<1>8. c' = Tail(c) /\ c # <<>>
  <2>1. c # <<>> /\ Tail(c) \in Seq(Value) /\ Len(Tail(c)) = n - 1 /\ \A i \in 1 .. n - 1 : Tail(c)[i] = c[i + 1]
    BY <1>4, <1>7
  <2>2. \A i \in 1 .. n - 1 : c'[i] = Tail(c)[i]
    BY <1>3, <1>4, <1>7, <2>1
  <2> QED
    BY <1>7, <2>1, <2>2, SeqEqual
<1> QED
  BY <1>6, <1>8, NodesCounted DEF List!Sequence!PopFront, c

LEMMA ListPopBack ==
    ASSUME ListInv, List!pop_back
    PROVE  ListInv' /\ List!Sequence!PopBack
<1>1. PICK s : /\ IsList(s, heap, list_begin, list_end, list_size)
               /\ IsRange(s, heap, list_size, list_range)
  BY Zenon DEF ListInv
<1>2. /\ list_size # 0 /\ ~List!InRange(list_end)
      /\ heap' = BacklessHeap(heap, list_end)
      /\ list_begin' = IF heap[list_end].previous = Null THEN Null ELSE list_begin
      /\ list_end' = heap[list_end].previous /\ list_size' = list_size - 1 /\ list_range' = list_range
  BY Zenon DEF List!pop_back, List!empty, BacklessHeap
<1> DEFINE n == list_size
           t == BacklessNodes(s, n)
           c == List!contents
<1>3. /\ IsList(t, heap', list_begin', list_end', list_size')
      /\ \A i \in 1 .. n - 1 : heap'[t[i]].value = heap[s[i]].value
  <2> HIDE DEF t
  <2>1. /\ IsList(t, heap', IF heap[list_end].previous = Null THEN Null ELSE list_begin, heap[list_end].previous, n - 1)
        /\ \A i \in 1 .. n - 1 : heap'[t[i]].value = heap[s[i]].value
    BY <1>1, <1>2, PoppedBack DEF t
  <2> QED
    BY <1>2, <2>1
<1>4. n \in Nat /\ n > 0 /\ \A i \in 1 .. n - 1 : i \in 1 .. n /\ t[i] = s[i]
  BY <1>1, <1>2 DEF IsList, BacklessNodes
<1> HIDE DEF t
<1>5. IsRange(t, heap', list_size', list_range')
  <2>1. CASE list_range = List!NoRange
    <3>1. List!NoRange' = List!NoRange
      BY DEF List!NoRange
    <3> QED
      BY <1>2, <2>1 DEF IsRange
  <2>2. CASE list_range # List!NoRange
    <3>1. PICK i, j \in 1 .. n : i <= j /\ list_range = Spans(s, heap, i, j)
      BY <1>1, <2>2 DEF IsRange
    <3>2. j # n
      BY <1>1, <1>2, <3>1, RangeApart
    <3>3. ASSUME NEW m \in i .. j PROVE t[m + 0] = s[m] /\ heap'[s[m]].value = heap[s[m]].value
      <4>1. m \in 1 .. n - 1 /\ m + 0 = m
        BY <1>4, <3>1, <3>2
      <4> QED
        BY <1>3, <1>4, <4>1
    <3>4. CarriedOver(s, heap, t, heap', i, j, 0)
      BY <3>3 DEF CarriedOver
    <3>5. i \in Int /\ j \in Int /\ 0 \in Int /\ i = i + 0 /\ j = j + 0
      OBVIOUS
    <3>6. Spans(t, heap', i, j) = Spans(s, heap, i, j)
      BY <3>1, <3>4, <3>5, SpanMoves
    <3>7. i \in 1 .. list_size' /\ j \in 1 .. list_size' /\ i <= j
      BY <1>2, <1>4, <3>1, <3>2
    <3> QED
      BY <1>2, <3>1, <3>6, <3>7, Zenon DEF IsRange
  <2> QED
    BY <2>1, <2>2
<1>6. ListInv'
  BY <1>3, <1>5, Zenon DEF ListInv
<1>7. /\ c \in Seq(Value) /\ Len(c) = n /\ \A i \in 1 .. n : c[i] = heap[s[i]].value
      /\ c' \in Seq(Value) /\ Len(c') = n - 1 /\ \A i \in 1 .. n - 1 : c'[i] = heap'[t[i]].value
  BY <1>1, <1>2, <1>3, ListContents, ListContentsNext
<1> HIDE DEF c
<1> DEFINE front == SubSeq(c, 1, Len(c) - 1)
<1>8. c' = front /\ c # <<>>
  <2>1. c # <<>> /\ front \in Seq(Value) /\ Len(front) = n - 1 /\ \A i \in 1 .. n - 1 : front[i] = c[i]
    BY <1>4, <1>7
  <2> HIDE DEF front
  <2>2. \A i \in 1 .. n - 1 : c'[i] = front[i]
    BY <1>3, <1>4, <1>7, <2>1
  <2> QED
    BY <1>7, <2>1, <2>2, SeqEqual
<1> QED
  BY <1>6, <1>8, NodesCounted DEF List!Sequence!PopBack, c

\* A list of nothing.
LEMMA EmptyList ==
    ASSUME NEW h, h = [x \in {} |-> h[x]]
    PROVE  IsList(<<>>, h, Null, Null, 0) /\ IsRange(<<>>, h, 0, List!NoRange)
<1>1. 1 .. 0 = {} /\ 0 \in Nat
  OBVIOUS
<1>2. <<>> \in [1 .. 0 -> Node]
  BY <1>1
<1>3. h \in [{<<>>[i] : i \in 1 .. 0} -> Cells]
  <2>1. {<<>>[i] : i \in 1 .. 0} = {}
    BY <1>1
  <2>2. h \in [{} -> Cells]
    OBVIOUS
  <2> QED
    BY <2>1, <2>2
<1> QED
  BY <1>1, <1>2, <1>3 DEF IsList, IsRange

LEMMA ListInitInvariant == List!ListInit => ListInv /\ List!Sequence!Init
<1> SUFFICES ASSUME List!ListInit PROVE ListInv /\ List!Sequence!Init
  OBVIOUS
<1>1. heap = <<>> /\ list_begin = Null /\ list_end = Null /\ list_size = 0 /\ list_range = List!NoRange
  BY DEF List!ListInit
<1>2. heap = [x \in {} |-> heap[x]]
  BY <1>1
<1>3. IsList(<<>>, heap, list_begin, list_end, list_size) /\ IsRange(<<>>, heap, list_size, list_range)
  BY <1>1, <1>2, EmptyList
<1>4. List!contents = <<>>
  BY <1>1, <1>3, ListContents, EmptySeq
<1> QED
  BY <1>3, <1>4, NodesCounted DEF ListInv, List!Sequence!Init

LEMMA ListClear ==
    ASSUME ListInv, List!clear
    PROVE  ListInv' /\ List!Sequence!Clear
<1>1. PICK s : IsList(s, heap, list_begin, list_end, list_size)
  BY Zenon DEF ListInv
<1>2. /\ heap' = [x \in DOMAIN heap \ List!Freed |-> heap[x]]
      /\ list_begin' = Null /\ list_end' = Null /\ list_size' = 0 /\ list_range' = List!NoRange
  BY DEF List!clear
<1>3. DOMAIN heap \subseteq List!Freed
  <2> SUFFICES ASSUME NEW x \in DOMAIN heap PROVE x \in List!Freed
    OBVIOUS
  <2>1. PICK i \in 1 .. list_size : x = s[i] /\ s[i] # Null
    BY <1>1, ContainersAssumption DEF IsList
  <2>2. list_size <= NodeCount /\ \A k \in 0 .. NodeCount : List!Forward[k] = IF k < list_size THEN s[k + 1] ELSE Null
    BY <1>1, Walk DEF Walked
  <2>3. i - 1 \in 0 .. NodeCount /\ i - 1 < list_size /\ (i - 1) + 1 = i
    <3>1. NodeCount \in Nat /\ list_size \in Nat
      BY <1>1, NodesCounted DEF IsList
    <3> QED
      BY <2>2, <3>1
  <2>4. List!Forward[i - 1] = x
    BY <2>1, <2>2, <2>3
  <2>5. List!Cardinality(Node) = NodeCount
    BY NodesCounted
  <2> QED
    BY <2>1, <2>3, <2>4, <2>5 DEF List!Freed
<1>4. heap' = [x \in {} |-> heap'[x]]
  <2>1. DOMAIN heap \ List!Freed = {}
    BY <1>3
  <2> QED
    BY <1>2, <2>1
<1>5. List!NoRange' = List!NoRange
  BY DEF List!NoRange
<1>6. IsList(<<>>, heap', list_begin', list_end', list_size') /\ IsRange(<<>>, heap', list_size', list_range')
  BY <1>2, <1>4, EmptyList
<1>7. List!contents' = <<>>
  <2>1. List!contents' \in Seq(Value) /\ Len(List!contents') = 0
    BY <1>2, <1>6, ListContentsNext
  <2> QED
    BY <2>1, EmptySeq
<1> QED
  BY <1>6, <1>7, NodesCounted DEF ListInv, List!Sequence!Clear

\* A range changes nothing of the list.
LEMMA ListStays ==
    ASSUME UNCHANGED <<heap, list_begin, list_end, list_size>>
    PROVE  List!contents' = List!contents
<1>1. List!Forward' = List!Forward
  BY DEF List!Forward
<1> QED
  BY <1>1 DEF List!contents

LEMMA RangeStarts ==
    ASSUME ListInv, List!all
    PROVE  ListInv'
<1>1. PICK s : IsList(s, heap, list_begin, list_end, list_size)
  BY Zenon DEF ListInv
<1>2. /\ list_range' = [begin |-> list_begin, end |-> list_end, due |-> List!contents]
      /\ heap' = heap /\ list_begin' = list_begin /\ list_end' = list_end /\ list_size' = list_size
  BY DEF List!all
<1>3. List!contents = [i \in 1 .. list_size |-> heap[s[i]].value] /\ list_size \in Nat
  BY <1>1, Walk DEF Walked, IsList
<1>4. IsRange(s, heap, list_size, list_range')
  <2>1. CASE list_size = 0
    <3>1. list_begin = Null /\ list_end = Null
      BY <1>1, <2>1, Zenon DEF IsList
    <3>2. List!contents = <<>>
      BY <1>1, <2>1, ListContents, EmptySeq
    <3> QED
      BY <1>2, <3>1, <3>2 DEF IsRange, List!NoRange
  <2>2. CASE list_size # 0
    <3>1. list_begin = s[1] /\ list_end = s[list_size]
      BY <1>1, <2>2, Zenon DEF IsList
    <3>2. 1 \in 1 .. list_size /\ list_size \in 1 .. list_size /\ 1 <= list_size /\ (list_size - 1) + 1 = list_size
      BY <1>3, <2>2
    <3>3. \A m \in 1 .. list_size : (1 + m) - 1 = m
      OBVIOUS
    <3>4. List!contents = [m \in 1 .. list_size |-> heap[s[(1 + m) - 1]].value]
      BY <1>3, <3>3
    <3>5. list_range' = Spans(s, heap, 1, list_size)
      BY <1>2, <3>1, <3>2, <3>4 DEF Spans
    <3> QED
      BY <3>2, <3>5 DEF IsRange
  <2> QED
    BY <2>1, <2>2
<1> QED
  BY <1>1, <1>2, <1>4, Zenon DEF ListInv

\* The span from i to j holds the values of its nodes.
LEMMA SpanValues ==
    ASSUME NEW s, IsList(s, heap, list_begin, list_end, list_size),
           NEW i \in 1 .. list_size, NEW j \in 1 .. list_size, i <= j,
           NEW r, r = Spans(s, heap, i, j)
    PROVE  /\ r = [begin |-> s[i], end |-> s[j], due |-> r.due]
           /\ s[i] # Null /\ r.due \in Seq(Value) /\ Len(r.due) = (j - i) + 1
           /\ \A m \in 1 .. (j - i) + 1 : r.due[m] = heap[s[(i + m) - 1]].value
<1>1. list_size \in Nat /\ (j - i) + 1 \in Nat
  BY DEF IsList
<1>2. \A m \in 1 .. (j - i) + 1 : (i + m) - 1 \in 1 .. list_size
  BY <1>1
<1>3. \A m \in 1 .. (j - i) + 1 : heap[s[(i + m) - 1]].value \in Value
  BY <1>2 DEF IsList, Cells
<1>4. r.due = [m \in 1 .. (j - i) + 1 |-> heap[s[(i + m) - 1]].value]
  BY DEF Spans
<1>5. r.due \in [1 .. (j - i) + 1 -> Value]
  BY <1>3, <1>4
<1>6. r = [begin |-> s[i], end |-> s[j], due |-> r.due] /\ s[i] # Null
  BY ContainersAssumption DEF IsList, Spans
<1>7. r.due \in Seq(Value) /\ Len(r.due) = (j - i) + 1
  BY <1>1, <1>5, SeqDef, LenProperties
<1> QED
  BY <1>4, <1>6, <1>7

LEMMA RangeSkips ==
    ASSUME ListInv, List!skip_front \/ List!skip_back
    PROVE  ListInv'
<1>1. PICK s : /\ IsList(s, heap, list_begin, list_end, list_size)
               /\ IsRange(s, heap, list_size, list_range)
  BY Zenon DEF ListInv
<1>2. heap' = heap /\ list_begin' = list_begin /\ list_end' = list_end /\ list_size' = list_size
  BY DEF List!skip_front, List!skip_back
<1>3. list_range.begin # Null /\ list_range # List!NoRange
  BY DEF List!skip_front, List!skip_back, List!NoRange
<1>4. PICK i, j \in 1 .. list_size : i <= j /\ list_range = Spans(s, heap, i, j)
  BY <1>1, <1>3 DEF IsRange
<1>5. PICK d : /\ list_range = [begin |-> s[i], end |-> s[j], due |-> d]
               /\ d \in Seq(Value) /\ Len(d) = (j - i) + 1
               /\ \A m \in 1 .. (j - i) + 1 : d[m] = heap[s[(i + m) - 1]].value
  BY <1>1, <1>4, SpanValues
<1>6. list_range.begin = s[i] /\ list_range.end = s[j]
  BY <1>5
<1>7. SUFFICES IsRange(s, heap, list_size, list_range')
  BY <1>1, <1>2, Zenon DEF ListInv
<1>8. CASE list_range' = List!NoRange
  BY <1>8 DEF IsRange
<1>9. list_size \in Nat /\ i \in Nat /\ j \in Nat /\ \A k \in 1 .. list_size :
          /\ heap[s[k]].next = (IF k = list_size THEN Null ELSE s[k + 1])
          /\ heap[s[k]].previous = (IF k = 1 THEN Null ELSE s[k - 1])
  BY <1>1 DEF IsList
<1>10. CASE list_range' # List!NoRange /\ List!skip_front
  <2>1. /\ list_range.begin # list_range.end
        /\ list_range' = [list_range EXCEPT !.begin = heap[list_range.begin].next, !.due = Tail(@)]
    BY <1>10, Zenon DEF List!skip_front
  <2>2. i < j /\ i + 1 \in 1 .. list_size /\ i + 1 <= j /\ i # list_size
    BY <1>4, <1>6, <1>9, <2>1
  <2>3. heap[list_range.begin].next = s[i + 1]
    BY <1>6, <1>9, <2>2
  <2> DEFINE rest == Tail(d)
  <2>4. list_range' = [begin |-> s[i + 1], end |-> s[j], due |-> rest]
    BY <1>5, <2>1, <2>3
  <2> DEFINE e == [m \in 1 .. (j - (i + 1)) + 1 |-> heap[s[((i + 1) + m) - 1]].value]
  <2>5. rest = e
    <3>1. /\ rest \in Seq(Value) /\ Len(rest) = j - i
          /\ \A m \in 1 .. j - i : rest[m] = d[m + 1]
      BY <1>5, <1>9, <2>2
    <3>2. rest = [m \in 1 .. j - i |-> rest[m]]
      <4> HIDE DEF rest
      <4> QED
        BY <3>1
    <3>3. (j - (i + 1)) + 1 = j - i
      BY <1>9
    <3>4. ASSUME NEW m \in 1 .. j - i PROVE rest[m] = heap[s[((i + 1) + m) - 1]].value
      <4>1. m + 1 \in 1 .. (j - i) + 1 /\ (i + (m + 1)) - 1 = ((i + 1) + m) - 1
        BY <1>9
      <4> QED
        BY <1>5, <3>1, <4>1
    <3> HIDE DEF rest
    <3> QED
      BY <3>2, <3>3, <3>4
  <2>6. list_range' = Spans(s, heap, i + 1, j)
    BY <2>4, <2>5 DEF Spans
  <2> QED
    BY <2>2, <2>6, Zenon DEF IsRange
<1>11. CASE list_range' # List!NoRange /\ List!skip_back
  <2>1. /\ list_range.begin # list_range.end
        /\ list_range' = [list_range EXCEPT !.end = heap[list_range.end].previous,
                                            !.due = SubSeq(@, 1, Len(@) - 1)]
    BY <1>11, Zenon DEF List!skip_back
  <2>2. i < j /\ j - 1 \in 1 .. list_size /\ i <= j - 1 /\ j # 1
    BY <1>4, <1>6, <1>9, <2>1
  <2>3. heap[list_range.end].previous = s[j - 1]
    BY <1>5, <1>9, <2>2
  <2> DEFINE front == SubSeq(d, 1, Len(d) - 1)
             e == [m \in 1 .. ((j - 1) - i) + 1 |-> heap[s[(i + m) - 1]].value]
  <2>4. list_range' = [begin |-> s[i], end |-> s[j - 1], due |-> front]
    BY <1>5, <2>1, <2>3
  <2>5. front = e
    <3>1. /\ front \in Seq(Value) /\ Len(front) = j - i
          /\ \A m \in 1 .. j - i : front[m] = d[m]
      BY <1>5, <1>9, <2>2
    <3>2. front = [m \in 1 .. j - i |-> front[m]]
      <4> HIDE DEF front
      <4> QED
        BY <3>1
    <3>3. ((j - 1) - i) + 1 = j - i
      BY <1>9
    <3>4. ASSUME NEW m \in 1 .. j - i PROVE front[m] = heap[s[(i + m) - 1]].value
      <4>1. m \in 1 .. (j - i) + 1
        BY <1>9
      <4> QED
        BY <1>5, <3>1, <4>1
    <3> HIDE DEF front
    <3> QED
      BY <3>2, <3>3, <3>4
  <2>6. list_range' = Spans(s, heap, i, j - 1)
    BY <2>4, <2>5 DEF Spans
  <2> QED
    BY <2>2, <2>6, Zenon DEF IsRange
<1> QED
  BY <1>8, <1>10, <1>11

LEMMA ListStep ==
    ListInv /\ [List!ListNext]_listState => ListInv' /\ [List!Sequence!Next]_(List!Sequence!dequeVars)
<1> SUFFICES ASSUME ListInv, [List!ListNext]_listState
             PROVE  ListInv' /\ (List!Sequence!Next \/ List!contents' = List!contents)
  BY NodesCounted DEF List!Sequence!dequeVars
<1>1. ASSUME NEW v \in Value, List!push_front(v) \/ List!push_back(v) PROVE ListInv' /\ List!Sequence!Next
  BY <1>1, ListPushFront, ListPushBack DEF List!Sequence!Next
<1>2. CASE List!pop_front \/ List!pop_back \/ List!clear
  BY <1>2, ListPopFront, ListPopBack, ListClear DEF List!Sequence!Next
<1>3. CASE List!all \/ List!skip_front \/ List!skip_back
  <2>1. UNCHANGED <<heap, list_begin, list_end, list_size>>
    BY <1>3 DEF List!all, List!skip_front, List!skip_back
  <2> QED
    BY <1>3, <2>1, ListStays, RangeStarts, RangeSkips
<1>4. CASE UNCHANGED listState
  <2>1. UNCHANGED <<heap, list_begin, list_end, list_size>> /\ list_range' = list_range
    BY <1>4 DEF listState
  <2>2. ListInv'
    BY <2>1 DEF ListInv, IsRange, List!NoRange
  <2> QED
    BY <2>1, <2>2, ListStays
<1> QED
  BY <1>1, <1>2, <1>3, <1>4 DEF List!ListNext

LEMMA ListInvariantSuffices == ListInv => List!LinksAgree /\ List!RangeEndsAgree
<1> SUFFICES ASSUME ListInv PROVE List!LinksAgree /\ List!RangeEndsAgree
  OBVIOUS
<1>1. PICK s : /\ IsList(s, heap, list_begin, list_end, list_size)
               /\ IsRange(s, heap, list_size, list_range)
  BY Zenon DEF ListInv
<1> DEFINE n == list_size
<1>2. /\ n \in Nat /\ NodeCount \in Nat /\ n <= NodeCount
      /\ \A k \in 0 .. NodeCount : List!Forward[k] = IF k < n THEN s[k + 1] ELSE Null
      /\ \A k \in 0 .. NodeCount : List!Backward[k] = IF k < n THEN s[n - k] ELSE Null
  BY <1>1, Walk, NodesCounted DEF Walked, IsList
<1>3. /\ \A i \in 1 .. n : s[i] # Null
      /\ DOMAIN heap = {s[i] : i \in 1 .. n}
  BY <1>1, ContainersAssumption DEF IsList
<1> HIDE DEF n
<1>4. List!Forward[n] = Null /\ List!Backward[n] = Null
  BY <1>2
<1>5. ASSUME NEW k \in 0 .. (n - 1)
      PROVE  /\ k + 1 \in 1 .. n /\ List!Forward[k] = s[k + 1] /\ List!Forward[k] # Null
             /\ List!Forward[k] = List!Backward[(n - 1) - k]
  <2>1. k \in 0 .. NodeCount /\ k < n /\ k + 1 \in 1 .. n
    BY <1>2
  <2>2. (n - 1) - k \in 0 .. NodeCount /\ (n - 1) - k < n /\ n - ((n - 1) - k) = k + 1
    BY <1>2
  <2> QED
    BY <1>2, <1>3, <2>1, <2>2
<1>6. DOMAIN heap = {List!Forward[k] : k \in 0 .. (n - 1)}
  <2>1. ASSUME NEW i \in 1 .. n PROVE s[i] \in {List!Forward[k] : k \in 0 .. (n - 1)}
    <3>1. i - 1 \in 0 .. (n - 1) /\ (i - 1) + 1 = i
      BY <1>2
    <3> QED
      BY <1>5, <3>1
  <2>2. ASSUME NEW k \in 0 .. (n - 1) PROVE List!Forward[k] \in {s[i] : i \in 1 .. n}
    BY <1>5
  <2> QED
    BY <1>3, <2>1, <2>2
<1>7. List!LinksAgree
  BY <1>4, <1>5, <1>6 DEF List!LinksAgree, n
<1>8. List!RangeEndsAgree
  <2>1. CASE list_range = List!NoRange
    BY <2>1 DEF List!NoRange, List!RangeEndsAgree
  <2>2. CASE list_range # List!NoRange
    <3>1. PICK i, j \in 1 .. list_size : i <= j /\ list_range = Spans(s, heap, i, j)
      BY <1>1, <2>2 DEF IsRange
    <3>2. PICK d : /\ list_range = [begin |-> s[i], end |-> s[j], due |-> d]
                   /\ s[i] # Null /\ d \in Seq(Value) /\ Len(d) = (j - i) + 1
                   /\ \A m \in 1 .. (j - i) + 1 : d[m] = heap[s[(i + m) - 1]].value
      BY <1>1, <3>1, SpanValues
    <3>3. /\ 1 \in 1 .. (j - i) + 1 /\ (j - i) + 1 \in 1 .. (j - i) + 1 /\ (j - i) + 1 > 0
          /\ (i + 1) - 1 = i /\ (i + ((j - i) + 1)) - 1 = j
      BY <1>2, <3>1
    <3>4. d # <<>> /\ Head(d) = d[1]
      BY <3>2, <3>3
    <3>5. d[1] = heap[s[i]].value /\ d[Len(d)] = heap[s[j]].value
      BY <3>2, <3>3
    <3> QED
      BY <3>2, <3>4, <3>5 DEF List!RangeEndsAgree
  <2> QED
    BY <2>1, <2>2
<1> QED
  BY <1>7, <1>8

-----------------------------------------------------------------------------
(***************************************************************************)
(* The containers.                                                         *)
(***************************************************************************)

\* A step of the containers is a step of each of them, or none.
LEMMA EachContainer ==
    /\ ContainersInit => QueueInit /\ Array!ArrayInit /\ Map!MapInit /\ List!ListInit
    /\ [ContainersNext]_containerVars =>
          /\ [QueueNext]_queueVars
          /\ [Array!ArrayNext]_arrayState
          /\ [Map!MapNext]_pairs
          /\ [List!ListNext]_listState
<1>1. ContainersInit => QueueInit /\ Array!ArrayInit /\ Map!MapInit /\ List!ListInit
  BY DEF ContainersInit
<1>2. [ContainersNext]_containerVars => [QueueNext]_queueVars /\ [Array!ArrayNext]_arrayState
  BY DEF ContainersNext, containerVars
<1>3. [ContainersNext]_containerVars => [Map!MapNext]_pairs /\ [List!ListNext]_listState
  BY DEF ContainersNext, containerVars
<1> QED
  BY <1>1, <1>2, <1>3

ContainersInv == QueueInv /\ ArrayInv /\ MapInv /\ ListInv

LEMMA ContainersInvariant == ContainersSpec => []ContainersInv
<1>1. ContainersInit => ContainersInv
  BY EachContainer, QueueInitInvariant, ArrayInitInvariant, MapInitInvariant, ListInitInvariant
  DEF ContainersInv
<1>2. ContainersInv /\ [ContainersNext]_containerVars => ContainersInv'
  BY EachContainer, QueueInvariantStep, ArrayStep, MapStep, ListStep DEF ContainersInv
<1> QED
  BY <1>1, <1>2, PTL DEF ContainersSpec

\* What the containers hold agrees with how they hold it: no slot of a queue
\* or an array is constructed twice or lost, the nodes of a list are the
\* allocated ones and linked both ways, and a map is in the order of its keys
\* (circular_queue.loci, varray.loci, list.loci, map.loci).
THEOREM ContainersHoldTheirValues == ContainersSpec => []HoldTheirValues
<1>1. ContainersInv => HoldTheirValues
  BY SlotsFollow, ArrayInvariantSuffices, ListInvariantSuffices DEF ContainersInv, MapInv, HoldTheirValues
<1> QED
  BY <1>1, ContainersInvariant, PTL

\* The blocks and ranges that callers hold on to agree with the queue and the
\* list while these change (circular_queue.loci, list.loci).
THEOREM ContainersViewsAgree == ContainersSpec => []ViewsAgree
<1>1. ContainersInv => ViewsAgree
  BY BlocksFollow, RangeFollows, ListInvariantSuffices DEF ContainersInv, ViewsAgree
<1> QED
  BY <1>1, ContainersInvariant, PTL

\* Queue, array and list are sequences for whoever uses them, as far as they
\* have room, and the map is a function, whose insertions set the value of one
\* key and whose erasures change none (circular_queue.loci, varray.loci,
\* list.loci, map.loci).
THEOREM ContainersImplementTheirTypes == ContainersSpec => ImplementTheirTypes
<1>1. ContainersSpec => ImplementsSequence
  <2>1. QueueInv /\ QueueInv' /\ [QueueNext]_queueVars => [Sequence!Next]_(Sequence!dequeVars)
    BY QueueStepRefines
  <2> QED
    BY <2>1, EachContainer, ContainersInvariant, QueueInitRefines, PTL
    DEF ContainersInv, ContainersSpec, ImplementsSequence, Sequence!Spec
<1>2. ContainersSpec => Array!ImplementsSequence
  BY EachContainer, ContainersInvariant, ArrayInitRefines, ArrayStep, PTL
  DEF ContainersInv, ContainersSpec, Array!ImplementsSequence, Array!Sequence!Spec
<1>3. ContainersSpec => Map!ImplementsDictionary
  BY EachContainer, ContainersInvariant, MapInitInvariant, MapStep, PTL
  DEF ContainersInv, ContainersSpec, Map!ImplementsDictionary, Map!Abstract!Spec
<1>4. ContainersSpec => List!ImplementsSequence
  BY EachContainer, ContainersInvariant, ListInitInvariant, ListStep, PTL
  DEF ContainersInv, ContainersSpec, List!ImplementsSequence, List!Sequence!Spec
<1> QED
  BY <1>1, <1>2, <1>3, <1>4 DEF ImplementTheirTypes
=============================================================================
