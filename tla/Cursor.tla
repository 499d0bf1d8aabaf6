------------------------------- MODULE Cursor -------------------------------
(***************************************************************************)
(* What leveldb's Iterator promises (include/leveldb/iterator.h): a cursor *)
(* over the sorted keys 1 .. N, 0 when it is not Valid.  An operation that *)
(* meets an unreadable part may end anywhere, but then status() says so    *)
(* from there on.  A behaviour shows which call each step is (called), so  *)
(* that a step which ends at a wrong key cannot pass for a seek to it.     *)
(***************************************************************************)
EXTENDS Integers

CONSTANT N

VARIABLES pos, ok, called

Init == pos = 0 /\ ok = TRUE /\ called = <<"new", 0>>

Goes(p) == \/ pos' = p /\ ok' = ok
           \/ pos' \in 0 .. N /\ ok' = FALSE

SeekToFirst == called' = <<"first", 0>> /\ Goes(IF N > 0 THEN 1 ELSE 0)
SeekToLast == called' = <<"last", 0>> /\ Goes(N)
Seek(t) == called' = <<"seek", t>> /\ Goes(IF t <= N THEN t ELSE 0)
NextKey == pos # 0 /\ called' = <<"next", 0>> /\ Goes((pos + 1) % (N + 1))
PrevKey == pos # 0 /\ called' = <<"prev", 0>> /\ Goes(pos - 1)

Next == SeekToFirst \/ SeekToLast \/ NextKey \/ PrevKey \/ \E t \in 1 .. N + 1 : Seek(t)
Spec == Init /\ [][Next]_<<pos, ok, called>>
=============================================================================
