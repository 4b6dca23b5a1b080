----------------------------- MODULE SortedMap ------------------------------
(***************************************************************************)
(* std::map, an array of pairs that is sorted again after every insertion; *)
(* std::set is the same with the values for keys.  An insertion that finds *)
(* no memory throws and changes nothing.  erase() moves the pairs that     *)
(* stay to a second array, whose growth may throw too: the pairs moved by  *)
(* then, the one it was to grow for among them, are lost, and their places *)
(* in the first array hold nothing.                                        *)
(***************************************************************************)
EXTENDS Integers, Sequences, SequencesExt

CONSTANTS
    Key,        \* a set of integers: the keys have an order
    Value

VARIABLE array  \* pairs of a key and a value, or Moved

Moved == [first |-> 0, second |-> 0, moved |-> TRUE]
Pair(k, v) == [first |-> k, second |-> v]

has(k) == \E i \in DOMAIN array : array[i] # Moved /\ array[i].first = k
Intact == \A i \in DOMAIN array : array[i] # Moved

MapInit == array = <<>>

\* One pass of the bubble sort: the pairs of neighbours from the left.
SortNeighbours(b, i) ==
    IF b[i + 1].first < b[i].first THEN [b EXCEPT ![i] = b[i + 1], ![i + 1] = b[i]] ELSE b
SortPass(a) ==
    FoldLeft(LAMBDA b, i : SortNeighbours(b, i), a, [i \in 1..(Len(a) - 1) |-> i])

internal_sort(a) == FoldLeft(LAMBDA b, c : SortPass(b), a, a)

\* The assertion of the code, that the key is new, is a guard.
insert(k, v) ==
    /\ Intact /\ ~has(k)
    /\ array' = internal_sort(Append(array, Pair(k, v)))

\* Drops the pair and returns false when the key is there.
try_insert(k, v) ==
    /\ Intact
    /\ array' = IF has(k) THEN array ELSE internal_sort(Append(array, Pair(k, v)))

\* Mutant: the reference is to the last pair, where push_back put the new one.
get_or_insert_last(k, v) ==
    /\ Intact
    /\ LET a == IF has(k) THEN array
                ELSE internal_sort(Append(array, Pair(k, CHOOSE w \in Value : TRUE)))
           i == IF has(k) THEN CHOOSE i \in DOMAIN a : a[i].first = k ELSE Len(a)
       IN  array' = [a EXCEPT ![i].second = v]

\* The caller writes v through the reference: to the pair that is there, or
\* to the one that index() finds after the insertion of a default value.
get_or_insert(k, v) ==
    /\ Intact
    /\ LET a == IF has(k) THEN array
                ELSE internal_sort(Append(array, Pair(k, CHOOSE w \in Value : TRUE)))
           i == CHOOSE i \in DOMAIN a : a[i].first = k /\ \A j \in 1..(i - 1) : a[j].first # k
       IN  array' = [a EXCEPT ![i].second = v]

\* The second array, after the pair p was looked at.
Keep(k, kept, p) == IF p.first = k THEN kept ELSE Append(kept, p)

erase(k) ==
    /\ Intact
    /\ array' = FoldLeft(LAMBDA kept, p : Keep(k, kept, p), <<>>, array)

\* The growth for the pair at n throws: that pair was moved to push_back's
\* parameter, which is destroyed.
EraseFails(k) == \E n \in DOMAIN array :
    /\ Intact /\ array[n].first # k
    /\ array' = [i \in DOMAIN array |->
                    IF i <= n /\ array[i].first # k THEN Moved ELSE array[i]]

clear == array' = <<>>

MapNext ==
    \/ \E k \in Key, v \in Value : insert(k, v) \/ try_insert(k, v) \/ get_or_insert(k, v)
    \/ \E k \in Key : erase(k) \/ EraseFails(k)
    \/ clear

MapSpec == MapInit /\ [][MapNext]_array

-----------------------------------------------------------------------------

\* The keys stand in the order that operator < gives them, each once
\* (map.loci, internal_sort, insert, try_insert, get_or_insert, erase).
KeysInOrder == \A i, j \in DOMAIN array :
    i < j /\ array[i] # Moved /\ array[j] # Moved => array[i].first < array[j].first

\* The map is a function from keys to values: an operation changes one key,
\* and an erase() that throws may lose others but changes no value.
Contents == [k \in {j \in Key : has(j)} |->
    array[CHOOSE i \in DOMAIN array : array[i] # Moved /\ array[i].first = k].second]
Abstract == INSTANCE Dictionary WITH map <- Contents
ImplementsDictionary == Abstract!Spec
=============================================================================
