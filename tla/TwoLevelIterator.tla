-------------------------- MODULE TwoLevelIterator --------------------------
(***************************************************************************)
(* leveldb table/two_level_iterator.cc: an iterator over the blocks that   *)
(* an index names (the blocks of a table, or the tables of a level), any   *)
(* of which may turn out unreadable when it is opened.                     *)
(*                                                                         *)
(* Keys are 1 .. N; block b holds the keys that blockOf maps to it and its *)
(* index key is the largest key up to it.  0 means not Valid; a block that *)
(* cannot be read gives an iterator that is not Valid and has an error.    *)
(***************************************************************************)
EXTENDS Integers, FiniteSetsExt

CONSTANTS N, Blocks     \* the number of keys and of blocks

TwoLevelAssumption == N \in Nat /\ Blocks \in Nat

VARIABLES
    blockOf,    \* the block of each key
    index,      \* index_iter_: a block or 0
    data,       \* data_iter_: block (0 for NULL), position and error
    failed,     \* status_ is an error
    called      \* the last call

vars == <<blockOf, index, data, failed, called>>

NoData == [block |-> 0, pos |-> 0, err |-> FALSE]

Init ==
    /\ blockOf \in {f \in [1 .. N -> 1 .. Blocks] : \A i \in 1 .. N - 1 : f[i] <= f[i + 1]}
    /\ index = 0 /\ data = NoData /\ failed = FALSE /\ called = <<"new", 0>>

KeysOf(b) == {k \in 1 .. N : blockOf[k] = b}
First(S) == IF S = {} THEN 0 ELSE Min(S)
Last(S) == IF S = {} THEN 0 ELSE Max(S)

\* LevelFileNumIterator or the index block: the first block whose index key is
\* at or after the target.
SeekIndex(t) == First({b \in 1 .. Blocks : \E k \in 1 .. N : k >= t /\ blockOf[k] <= b})

\* InitDataBlock: the block's iterator is kept when the handle is the same; the
\* error of one that is replaced is saved.
InitDataBlock(b, d, fails) ==
    IF b = 0 THEN [data |-> NoData, error |-> d.err]
    ELSE IF d.block = b THEN [data |-> d, error |-> FALSE]
    ELSE [data |-> [block |-> b, pos |-> 0, err |-> b \in fails], error |-> d.err]

\* Positions a readable block's iterator.
At(d, p) == [d EXCEPT !.pos = IF d.err THEN 0 ELSE p]

\* SkipEmptyDataBlocksForward: from a position that is not Valid, the first key
\* of the next readable block that has one; every block opened on the way that
\* could not be read leaves its error in status_.
SkipForward(b, d, fails) ==
    LET later == {c \in 1 .. Blocks : b # 0 /\ c > b}
        good == {c \in later : c \notin fails /\ KeysOf(c) # {}}
        stop == First(good)
        passed == {c \in later : stop = 0 \/ c < stop}
    IN  IF d.pos # 0 THEN [index |-> b, data |-> d, error |-> FALSE]
        ELSE [index |-> stop, error |-> d.err \/ passed \cap fails # {},
              data |-> IF stop = 0 THEN NoData
                       ELSE [block |-> stop, pos |-> Min(KeysOf(stop)), err |-> FALSE]]

SkipBackward(b, d, fails) ==
    LET earlier == {c \in 1 .. Blocks : c < b}
        good == {c \in earlier : c \notin fails /\ KeysOf(c) # {}}
        stop == Last(good)
        passed == {c \in earlier : c > stop}
    IN  IF d.pos # 0 THEN [index |-> b, data |-> d, error |-> FALSE]
        ELSE [index |-> stop, error |-> d.err \/ passed \cap fails # {},
              data |-> IF stop = 0 THEN NoData
                       ELSE [block |-> stop, pos |-> Max(KeysOf(stop)), err |-> FALSE]]

Ends(call, s, error) ==
    /\ index' = s.index /\ data' = s.data /\ called' = call
    /\ failed' = (failed \/ error \/ s.error) /\ UNCHANGED blockOf

Seek(t, fails) ==
    LET b == SeekIndex(t)
        i == InitDataBlock(b, data, fails)
        d == IF i.data.block = 0 THEN i.data ELSE At(i.data, First({k \in KeysOf(b) : k >= t}))
    IN  Ends(<<"seek", t>>, SkipForward(b, d, fails), i.error)

SeekToFirst(fails) ==
    LET b == IF Blocks > 0 THEN 1 ELSE 0
        i == InitDataBlock(b, data, fails)
        d == IF i.data.block = 0 THEN i.data ELSE At(i.data, First(KeysOf(b)))
    IN  Ends(<<"first", 0>>, SkipForward(b, d, fails), i.error)

SeekToLast(fails) ==
    LET b == Blocks
        i == InitDataBlock(b, data, fails)
        d == IF i.data.block = 0 THEN i.data ELSE At(i.data, Last(KeysOf(b)))
    IN  Ends(<<"last", 0>>, SkipBackward(b, d, fails), i.error)

NextKey(fails) ==
    /\ data.pos # 0
    /\ LET d == At(data, First({k \in KeysOf(data.block) : k > data.pos}))
       IN  Ends(<<"next", 0>>, SkipForward(index, d, fails), FALSE)

PrevKey(fails) ==
    /\ data.pos # 0
    /\ LET d == At(data, Last({k \in KeysOf(data.block) : k < data.pos}))
       IN  Ends(<<"prev", 0>>, SkipBackward(index, d, fails), FALSE)

Next == \E fails \in SUBSET (1 .. Blocks) :
    \/ SeekToFirst(fails) \/ SeekToLast(fails) \/ NextKey(fails) \/ PrevKey(fails)
    \/ \E t \in 1 .. N + 1 : Seek(t, fails)
Spec == Init /\ [][Next]_vars
-----------------------------------------------------------------------------
\* The iterator is one sorted iterator over the keys of all blocks; keys of a
\* block that could not be read are passed over only with status() not OK from
\* then on, also after the bad block's iterator is gone.
Whole == INSTANCE Cursor WITH pos <- data.pos, ok <- ~failed /\ ~data.err
SkipsOnlyWithError == Whole!Spec
=============================================================================
