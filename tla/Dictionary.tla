----------------------------- MODULE Dictionary -----------------------------
(***************************************************************************)
(* What std::map promises: a finite function from keys to values.          *)
(***************************************************************************)
CONSTANTS Key, Value

VARIABLE map

Init == map \in [{} -> Value]

\* The value of one key is set, the others stay.
Put(k, v) ==
    map' = [j \in DOMAIN map \cup {k} |-> IF j = k THEN v ELSE map[j]]

\* Some keys go, the values of the others stay.
Remove(keys) ==
    map' = [j \in DOMAIN map \ keys |-> map[j]]

Next ==
    \/ \E k \in Key, v \in Value : Put(k, v)
    \/ \E keys \in SUBSET Key : Remove(keys)

Spec == Init /\ [][Next]_map
=============================================================================
