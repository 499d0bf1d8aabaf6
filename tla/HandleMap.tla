----------------------------- MODULE HandleMap -----------------------------
(***************************************************************************)
(* What the cache needs of its hash table: a partial function from keys to *)
(* entries.  Insert and Remove return the entry that had the key.          *)
(***************************************************************************)
CONSTANTS Keys, Handles, Nil

VARIABLES map, result

Init == map = [k \in Keys |-> Nil] /\ result = Nil

Insert(k, h) == result' = map[k] /\ map' = [map EXCEPT ![k] = h]
Remove(k) == result' = map[k] /\ map' = [map EXCEPT ![k] = Nil]
Lookup(k) == result' = map[k] /\ UNCHANGED map

Next ==
    \/ \E k \in Keys, h \in Handles : Insert(k, h)
    \/ \E k \in Keys : Remove(k) \/ Lookup(k)

Spec == Init /\ [][Next]_<<map, result>>
=============================================================================
