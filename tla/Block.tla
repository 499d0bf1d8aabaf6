------------------------------- MODULE Block --------------------------------
(***************************************************************************)
(* leveldb table/block_builder.cc and table/block.cc: a block of sorted    *)
(* entries, each of which stores only what its key does not share with the *)
(* key before it, except at restart points; and the iterator over it.      *)
(*                                                                         *)
(* An entry's offset is its number, 1 .. N, and N + 1 is the offset of the *)
(* restart array.  The value of an entry is the number of the Add that     *)
(* made it.                                                                *)
(***************************************************************************)
EXTENDS Comparator

CONSTANTS
    Keys,       \* user keys
    N,          \* the number of entries in a block
    Interval,   \* options->block_restart_interval
    Damaged     \* the numbers of entries that may be damaged

BlockAssumption == N \in Nat \ {0} /\ Interval \in Nat \ {0} /\ Damaged \subseteq 1 .. N

VARIABLES
    added,      \* ghost: the keys added
    buffer,     \* buffer_: entries
    restarts, counter, lastKey,     \* the builder's fields
    finished,
    bad,        \* entries whose header does not decode
    it,         \* the iterator
    called      \* its last call

builder == <<added, buffer, restarts, counter, lastKey, finished, bad>>
vars == <<builder, it, called>>

\* Block::Iter.  next is NextEntryOffset(), the end of value_.
End == N + 1
NewIter(numRestarts) ==
    [current |-> End, restart |-> numRestarts, key |-> <<>>, value |-> 0, next |-> End, err |-> FALSE]

Init ==
    /\ added = <<>> /\ buffer = <<>> /\ restarts = <<1>> /\ counter = 0 /\ lastKey = <<>>
    /\ finished = FALSE /\ bad = {} /\ it = NewIter(1) /\ called = <<"new", 0>>

Add(key) ==
    /\ ~finished /\ Len(buffer) < N
    /\ added # <<>> => Less(lastKey, key)
    /\ LET restart == counter >= Interval
           shared == IF restart THEN 0 ELSE Shared(lastKey, key)
       IN  /\ restarts' = IF restart THEN Append(restarts, Len(buffer) + 1) ELSE restarts
           /\ counter' = IF restart THEN 1 ELSE counter + 1
           /\ buffer' = Append(buffer, [shared |-> shared, delta |-> SubSeq(key, shared + 1, Len(key)),
                                        value |-> Len(buffer) + 1])
    /\ lastKey' = key /\ added' = Append(added, key)
    /\ UNCHANGED <<finished, bad, it, called>>

\* The block is written, perhaps damaged, read, and an iterator made on it.
Finish(damage) ==
    /\ ~finished /\ Len(buffer) = N
    /\ finished' = TRUE /\ bad' = damage
    /\ it' = NewIter(Len(restarts))
    /\ UNCHANGED <<added, buffer, restarts, counter, lastKey, called>>
-----------------------------------------------------------------------------
(* The iterator's parts *)

NumRestarts == Len(restarts)
GetRestartPoint(i) == restarts[i + 1]

\* DecodeEntry fails on an entry whose lengths do not fit.
Decodes(offset) == offset \notin bad

SeekToRestartPoint(i, index) ==
    [i EXCEPT !.key = <<>>, !.restart = index, !.next = GetRestartPoint(index)]

AtEnd(i) == [i EXCEPT !.current = End, !.restart = NumRestarts]
CorruptionError(i) == [AtEnd(i) EXCEPT !.err = TRUE, !.key = <<>>, !.value = 0, !.next = End]

\* The restart block that an offset falls in, from the one before.
RestartOf(index, offset) ==
    LET after == {r \in index + 1 .. NumRestarts - 1 : GetRestartPoint(r) < offset}
    IN  IF after = {} THEN index ELSE CHOOSE r \in after : \A q \in after : q <= r

\* ParseNextKey: the iterator after it; it returned true when that is Valid.
Valid(i) == i.current < End
ParseNextKey(i) ==
    LET e == buffer[i.next]
    IN  IF i.next >= End THEN AtEnd(i)
        ELSE IF ~Decodes(i.next) \/ Len(i.key) < e.shared THEN CorruptionError(i)
        ELSE [i EXCEPT !.current = i.next, !.next = i.next + 1, !.value = e.value,
                       !.key = SubSeq(i.key, 1, e.shared) \o e.delta,
                       !.restart = RestartOf(i.restart, i.next)]

\* do ParseNextKey while it returns true and the entry ends before limit
RECURSIVE ParseUpTo(_, _)
ParseUpTo(i, limit) ==
    LET p == ParseNextKey(i)
    IN  IF Valid(p) /\ p.next < limit THEN ParseUpTo(p, limit) ELSE p

RECURSIVE ParseTo(_, _)
ParseTo(i, target) ==
    LET p == ParseNextKey(i)
    IN  IF Valid(p) /\ Less(p.key, target) THEN ParseTo(p, target) ELSE p

\* The last restart point in left .. right with a key < target, or left; -1 when
\* a key on the way does not decode.
RECURSIVE BinarySearch(_, _, _)
BinarySearch(left, right, target) ==
    LET mid == (left + right + 1) \div 2
        entry == buffer[GetRestartPoint(mid)]
    IN  IF left >= right THEN left
        ELSE IF ~Decodes(GetRestartPoint(mid)) \/ entry.shared # 0 THEN -1
        ELSE IF Less(entry.delta, target) THEN BinarySearch(mid, right, target)
        ELSE BinarySearch(left, mid - 1, target)
-----------------------------------------------------------------------------
(* The iterator's operations *)

Returns(call, i) == called' = call /\ it' = i /\ UNCHANGED builder

SeekToFirst == finished /\ Returns(<<"first", 0>>, ParseNextKey(SeekToRestartPoint(it, 0)))
SeekToLast ==
    /\ finished
    /\ Returns(<<"last", 0>>, ParseUpTo(SeekToRestartPoint(it, NumRestarts - 1), End))

NextEntry == finished /\ Valid(it) /\ Returns(<<"next", 0>>, ParseNextKey(it))

PrevEntry ==
    /\ finished /\ Valid(it)
    /\ LET before == {r \in 0 .. it.restart : GetRestartPoint(r) < it.current}
           index == CHOOSE r \in before : \A q \in before : q <= r
       IN  Returns(<<"prev", 0>>, IF before = {} THEN AtEnd(it)
                                  ELSE ParseUpTo(SeekToRestartPoint(it, index), it.current))

\* Keys at or after the target, by number (the abstract cursor's argument).
NumberOf(target) == 1 + Len(SelectSeq(added, LAMBDA k : Less(k, target)))

Seek(target) ==
    /\ finished
    /\ LET index == BinarySearch(0, NumRestarts - 1, target)
       IN  Returns(<<"seek", NumberOf(target)>>,
                   IF index = -1 THEN CorruptionError(it) ELSE ParseTo(SeekToRestartPoint(it, index), target))

Next ==
    \/ \E key \in Keys : Add(key) \/ Seek(key)
    \/ \E damage \in SUBSET Damaged : Finish(damage)
    \/ SeekToFirst \/ SeekToLast \/ NextEntry \/ PrevEntry

Spec == Init /\ [][Next]_vars
-----------------------------------------------------------------------------
\* The iterator over a block is a cursor over the keys that were added: each
\* call ends at the entry it should, with that entry's whole key and its value,
\* for any keys and restart interval.  An entry that does not decode ends a call
\* early only with an error in status().
Position ==
    IF ~Valid(it) THEN 0
    ELSE IF it.key = added[it.value] THEN it.value ELSE -1
Decoded == INSTANCE Cursor WITH pos <- Position, ok <- ~it.err
ReadsBackBlock == Decoded!Spec
=============================================================================
