--------------------------- MODULE MergingIterator ---------------------------
(***************************************************************************)
(* leveldb table/merger.cc: one iterator over the merged keys of several   *)
(* children, which can turn round at any key.  Keys are 1 .. N and each    *)
(* belongs to one child (internal keys are unique); a child's position is  *)
(* a key of its own, or 0 when it is not Valid.                            *)
(***************************************************************************)
EXTENDS Integers, FiniteSetsExt

CONSTANTS N, Children    \* Children is 1 .. n_

MergeAssumption == N \in Nat /\ Children \subseteq Nat

VARIABLES
    owner,      \* the child that has a key
    child,      \* children_[i]: its position
    current,    \* current_, 0 for NULL
    direction,
    called      \* the last call

vars == <<owner, child, current, direction, called>>

Init ==
    /\ owner \in [1 .. N -> Children]
    /\ child = [c \in Children |-> 0] /\ current = 0 /\ direction = "forward" /\ called = <<"new", 0>>

\* The operations of a child.
Own(c) == {k \in 1 .. N : owner[k] = c}
First(S) == IF S = {} THEN 0 ELSE Min(S)
Last(S) == IF S = {} THEN 0 ELSE Max(S)
SeekChild(c, t) == First({k \in Own(c) : k >= t})
NextOf(c, k) == First({j \in Own(c) : j > k})
PrevOf(c, k) == Last({j \in Own(c) : j < k})

Valid(ch) == {c \in Children : ch[c] # 0}
FindSmallest(ch) == IF Valid(ch) = {} THEN 0 ELSE CHOOSE c \in Valid(ch) : \A d \in Valid(ch) : ch[c] <= ch[d]
FindLargest(ch) == IF Valid(ch) = {} THEN 0 ELSE CHOOSE c \in Valid(ch) : \A d \in Valid(ch) : ch[c] >= ch[d]

Forward(ch) == child' = ch /\ current' = FindSmallest(ch) /\ direction' = "forward" /\ UNCHANGED owner
Reverse(ch) == child' = ch /\ current' = FindLargest(ch) /\ direction' = "reverse" /\ UNCHANGED owner

SeekToFirst == called' = <<"first", 0>> /\ Forward([c \in Children |-> First(Own(c))])
SeekToLast == called' = <<"last", 0>> /\ Reverse([c \in Children |-> Last(Own(c))])
Seek(t) == called' = <<"seek", t>> /\ Forward([c \in Children |-> SeekChild(c, t)])

Key == child[current]

\* Mutant: turning round leaves the other children where they are.
NextKeepsChildren ==
    /\ current # 0 /\ called' = <<"next", 0>>
    /\ Forward([child EXCEPT ![current] = NextOf(current, Key)])

\* A merge that ran backwards has its other children before the key; they are
\* positioned after it.  (No other child has the key itself.)
NextKey ==
    /\ current # 0 /\ called' = <<"next", 0>>
    /\ LET turned == IF direction = "forward" THEN child
                     ELSE [c \in Children |-> IF c = current THEN child[c] ELSE SeekChild(c, Key)]
       IN  Forward([turned EXCEPT ![current] = NextOf(current, Key)])

\* Backwards: a child with no key at or after this one goes to its last.
PrevKey ==
    /\ current # 0 /\ called' = <<"prev", 0>>
    /\ LET before(c) == IF SeekChild(c, Key) # 0 THEN PrevOf(c, SeekChild(c, Key)) ELSE Last(Own(c))
           turned == IF direction = "reverse" THEN child
                     ELSE [c \in Children |-> IF c = current THEN child[c] ELSE before(c)]
       IN  Reverse([turned EXCEPT ![current] = PrevOf(current, Key)])

Next == SeekToFirst \/ SeekToLast \/ NextKey \/ PrevKey \/ \E t \in 1 .. N + 1 : Seek(t)
Spec == Init /\ [][Next]_vars
-----------------------------------------------------------------------------
\* The merge behaves as one sorted iterator over all keys, through any sequence
\* of seeks, steps and changes of direction.
Merged == INSTANCE Cursor WITH pos <- IF current = 0 THEN 0 ELSE Key, ok <- TRUE
MergesInOrder == Merged!Spec
=============================================================================
