------------------------------ MODULE SkipList ------------------------------
(***************************************************************************)
(* leveldb db/skiplist.h, the memtable's list: one writer inserts while    *)
(* readers search without a lock.  Every load and store of a link is a     *)
(* step of its own.                                                        *)
(*                                                                         *)
(* Keys are 1 .. N and a node is its key; 0 is head_ and N + 1 is NULL,    *)
(* which sorts after all keys.  0 is also what an uninitialized link       *)
(* holds, since no link ever leads to head_.  Links are written with       *)
(* release and read with acquire semantics, so steps interleave; readers   *)
(* may see any earlier value of max_height_, which has no barrier.         *)
(***************************************************************************)
EXTENDS Integers

CONSTANTS
    N,          \* keys are 1 .. N
    MaxHeight,  \* kMaxHeight
    Readers

ASSUME SkipAssumption == N \in Nat /\ MaxHeight \in Nat \ {0}

Keys == 1 .. N
Null == N + 1
Levels == 0 .. MaxHeight - 1

VARIABLES
    link,       \* link[l][x]: next_[l] of node x
    maxHeight,  \* max_height_
    linked,     \* on how many levels a key has been linked, 0 if not in the list
    wpc, wkey, height, wat, wlvl, prev,     \* the writer in Insert
    op, target, at, lvl,                    \* the readers in a search
    seen,       \* ghost: keys in the list when a search began
    node        \* what the last search found: the iterator's node_

writer == <<wpc, wkey, height, wat, wlvl, prev>>
readers == <<op, target, at, lvl, seen, node>>
list == <<link, maxHeight, linked>>
vars == <<list, writer, readers>>

\* The constructor: head_'s links are NULL; nodes are raw memory until inserted.
Init ==
    /\ link = [l \in Levels |-> [x \in 0 .. N |-> IF x = 0 THEN Null ELSE 0]]
    /\ maxHeight = 1 /\ linked = [k \in Keys |-> 0]
    /\ wpc = "idle" /\ wkey = 0 /\ height = 0 /\ wat = 0 /\ wlvl = 0 /\ prev = [l \in Levels |-> 0]
    /\ op = [r \in Readers |-> "idle"] /\ target = [r \in Readers |-> 0]
    /\ at = [r \in Readers |-> 0] /\ lvl = [r \in Readers |-> 0]
    /\ seen = [r \in Readers |-> {}] /\ node = [r \in Readers |-> Null]

\* The nodes that can be reached on a level, head_ included.
OnLevel(l) == {0} \cup {k \in Keys : linked[k] > l}
Present == {k \in Keys : linked[k] > 0}
-----------------------------------------------------------------------------
(* The writer *)

\* Insert of a key that is not in the list; FindGreaterOrEqual starts at the top.
Insert(k) ==
    /\ wpc = "idle" /\ linked[k] = 0
    /\ wpc' = "find" /\ wkey' = k /\ wat' = 0 /\ wlvl' = maxHeight - 1
    /\ UNCHANGED <<list, readers, height, prev>>

\* One turn of FindGreaterOrEqual's loop, filling prev.
InsertFind ==
    /\ wpc = "find"
    /\ IF link[wlvl][wat] < wkey
       THEN wat' = link[wlvl][wat] /\ UNCHANGED <<wpc, wlvl, prev>>
       ELSE /\ prev' = [prev EXCEPT ![wlvl] = wat]
            /\ UNCHANGED wat
            /\ IF wlvl = 0 THEN wpc' = "raise" /\ UNCHANGED wlvl
                           ELSE wlvl' = wlvl - 1 /\ UNCHANGED wpc
    /\ UNCHANGED <<list, readers, wkey, height>>

\* RandomHeight; on the levels that are new the predecessor is head_.
InsertHeight(h) ==
    /\ wpc = "raise"
    /\ height' = h
    /\ prev' = [l \in Levels |-> IF l >= maxHeight /\ l < h THEN 0 ELSE prev[l]]
    /\ maxHeight' = IF h > maxHeight THEN h ELSE maxHeight
    /\ wpc' = "own" /\ wlvl' = 0
    /\ UNCHANGED <<link, linked, wkey, wat, readers>>

\* Mutant: the new node's own link is not set before it is published.
OwnLinkMissing ==
    /\ wpc = "own" /\ wpc' = "publish"
    /\ UNCHANGED <<link, maxHeight, linked, wkey, height, wat, wlvl, prev, readers>>

\* x->NoBarrier_SetNext(i, prev[i]->NoBarrier_Next(i))
InsertOwnLink ==
    /\ wpc = "own"
    /\ link' = [link EXCEPT ![wlvl][wkey] = link[wlvl][prev[wlvl]]]
    /\ wpc' = "publish"
    /\ UNCHANGED <<maxHeight, linked, wkey, height, wat, wlvl, prev, readers>>

\* prev[i]->SetNext(i, x), then the next level.
InsertPublish ==
    /\ wpc = "publish"
    /\ link' = [link EXCEPT ![wlvl][prev[wlvl]] = wkey]
    /\ linked' = [linked EXCEPT ![wkey] = wlvl + 1]
    /\ wpc' = IF wlvl + 1 = height THEN "idle" ELSE "own"
    /\ wlvl' = IF wlvl + 1 = height THEN 0 ELSE wlvl + 1
    /\ UNCHANGED <<maxHeight, wkey, height, wat, prev, readers>>
-----------------------------------------------------------------------------
(* The readers *)

\* A search for t begins at a node and a level.
Begin(r, o, t, x, l) ==
    /\ op[r] = "idle"
    /\ op' = [op EXCEPT ![r] = o] /\ target' = [target EXCEPT ![r] = t]
    /\ at' = [at EXCEPT ![r] = x] /\ lvl' = [lvl EXCEPT ![r] = l]
    /\ seen' = [seen EXCEPT ![r] = Present]
    /\ UNCHANGED <<list, writer, node>>

\* Seek, Contains: FindGreaterOrEqual.  l + 1 is a value max_height_ had.
Seek(r, t, l) == l < maxHeight /\ Begin(r, "ge", t, 0, l)

\* Prev is FindLessThan(key()), SeekToLast is FindLast: everything is before NULL.
Prev(r, l) == l < maxHeight /\ node[r] \in Keys /\ Begin(r, "lt", node[r], 0, l)
SeekToLast(r, l) == l < maxHeight /\ Begin(r, "lt", Null, 0, l)

\* Next and SeekToFirst follow one link of the lowest level.
NextNode(r) == node[r] \in Keys /\ Begin(r, "ge", node[r] + 1, node[r], 0)
SeekToFirst(r) == Begin(r, "ge", 1, 0, 0)

\* Mutant: a backward search returns the node after the one it stopped at.
StepReturnsNext(r) ==
    /\ op[r] # "idle"
    /\ LET n == link[lvl[r]][at[r]] IN
        IF n < target[r]
        THEN at' = [at EXCEPT ![r] = n] /\ UNCHANGED <<lvl, op, node>>
        ELSE IF lvl[r] > 0
        THEN lvl' = [lvl EXCEPT ![r] = lvl[r] - 1] /\ UNCHANGED <<at, op, node>>
        ELSE /\ op' = [op EXCEPT ![r] = "idle"] /\ UNCHANGED <<at, lvl>>
             /\ node' = [node EXCEPT ![r] = n]
    /\ UNCHANGED <<list, writer, target, seen>>

\* One turn of the loop of FindGreaterOrEqual, FindLessThan or FindLast.
Step(r) ==
    /\ op[r] # "idle"
    /\ LET n == link[lvl[r]][at[r]] IN
        IF n < target[r]
        THEN at' = [at EXCEPT ![r] = n] /\ UNCHANGED <<lvl, op, node>>
        ELSE IF lvl[r] > 0
        THEN lvl' = [lvl EXCEPT ![r] = lvl[r] - 1] /\ UNCHANGED <<at, op, node>>
        ELSE /\ op' = [op EXCEPT ![r] = "idle"] /\ UNCHANGED <<at, lvl>>
             /\ node' = [node EXCEPT ![r] = IF op[r] = "ge" THEN n ELSE IF at[r] = 0 THEN Null ELSE at[r]]
    /\ UNCHANGED <<list, writer, target, seen>>

WriterStep ==
    \/ InsertFind \/ InsertOwnLink \/ InsertPublish
    \/ \E h \in 1 .. MaxHeight : InsertHeight(h)
Next ==
    \/ \E k \in Keys : Insert(k)
    \/ WriterStep
    \/ \E r \in Readers :
        \/ Step(r) \/ NextNode(r) \/ SeekToFirst(r)
        \/ \E l \in Levels : Prev(r, l) \/ SeekToLast(r, l) \/ \E t \in Keys : Seek(r, t, l)

Spec == Init /\ [][Next]_vars

\* A thread in Insert or in a search keeps running.
FairSpec == Spec /\ WF_vars(WriterStep) /\ \A r \in Readers : WF_vars(Step(r))
-----------------------------------------------------------------------------
(* Properties *)

\* The type invariant.
SkipTypeOK ==
    /\ link \in [Levels -> [0 .. N -> 0 .. Null]]
    /\ maxHeight \in 1 .. MaxHeight /\ linked \in [Keys -> 0 .. MaxHeight]
    /\ wpc \in {"idle", "find", "raise", "own", "publish"}
    /\ wkey \in 0 .. N /\ height \in 0 .. MaxHeight /\ wat \in 0 .. N /\ wlvl \in Levels
    /\ prev \in [Levels -> 0 .. N]
    /\ op \in [Readers -> {"idle", "ge", "lt"}] /\ target \in [Readers -> 0 .. Null]
    /\ at \in [Readers -> 0 .. N] /\ lvl \in [Readers -> Levels]
    /\ seen \in [Readers -> SUBSET Keys] /\ node \in [Readers -> 1 .. Null]

\* Every level is a sorted list of exactly the keys linked on it, at every step
\* of an insertion: a link leads to the next larger key of its level.
LevelsSorted ==
    \A l \in Levels : \A x \in OnLevel(l) :
        /\ link[l][x] > x /\ (link[l][x] \in OnLevel(l) \/ link[l][x] = Null)
        /\ \A y \in OnLevel(l) : y > x => link[l][x] <= y

\* A reader stands on a node that is linked on its level, before its target, so
\* it never follows an uninitialized link.
ReadersOnLevel ==
    \A r \in Readers : op[r] # "idle" => at[r] \in OnLevel(lvl[r]) /\ at[r] < target[r]

\* A search misses nothing that was in the list when it began, whatever is
\* inserted meanwhile: Seek and Next find no key beyond the first that was there
\* at or after the target, Prev and SeekToLast none before the last one.
SearchMissesNothing ==
    [][\A r \in Readers : op[r] # "idle" /\ op'[r] = "idle" =>
        /\ node'[r] = Null \/ node'[r] \in Present
        /\ op[r] = "ge" => /\ node'[r] >= target[r]
                           /\ \A k \in seen[r] : k >= target[r] => node'[r] <= k
        /\ op[r] = "lt" => /\ node'[r] = Null \/ node'[r] < target[r]
                           /\ \A k \in seen[r] : k < target[r] => node'[r] # Null /\ node'[r] >= k]_vars

\* Every search and every insertion ends.
SearchEnds ==
    /\ \A r \in Readers : op[r] # "idle" ~> op[r] = "idle"
    /\ wpc # "idle" ~> wpc = "idle"

\* The list between any two steps of the writer and the readers: well typed,
\* sorted on every level, and no reader on a node that is not linked there.
ListIntact == SkipTypeOK /\ LevelsSorted /\ ReadersOnLevel
=============================================================================
