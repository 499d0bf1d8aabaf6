----------------------------- MODULE Comparator -----------------------------
(***************************************************************************)
(* leveldb util/comparator.cc and db/dbformat.cc: the order of user keys   *)
(* and of internal keys, and the short keys that an index may use between  *)
(* two blocks and after the last.                                          *)
(*                                                                         *)
(* A user key is a sequence of bytes 0 .. MaxByte (MaxByte stands for      *)
(* 0xff).  An internal key has a user key and a tag, the sequence number   *)
(* and type in one number; MaxTag is that of kMaxSequenceNumber.           *)
(***************************************************************************)
EXTENDS Integers, Sequences

CONSTANTS MaxByte, MaxTag

ComparatorAssumption == MaxByte \in Nat \ {0} /\ MaxTag \in Nat

LOCAL S == INSTANCE SequencesExt
LOCAL F == INSTANCE FiniteSetsExt

LOCAL MinLen(a, b) == IF Len(a) < Len(b) THEN Len(a) ELSE Len(b)

\* The number of bytes that two keys have in common.
Shared(a, b) ==
    F!Max({n \in 0 .. MinLen(a, b) : \A i \in 1 .. n : a[i] = b[i]})

\* Slice::compare: bytes, then length.
Less(a, b) ==
    LET n == Shared(a, b)
    IN  IF n = MinLen(a, b) THEN Len(a) < Len(b) ELSE a[n + 1] < b[n + 1]

FindShortestSeparator(start, limit) ==
    LET i == Shared(start, limit) + 1
    IN  IF i <= MinLen(start, limit) /\ start[i] < MaxByte /\ start[i] + 1 < limit[i]
        THEN Append(SubSeq(start, 1, i - 1), start[i] + 1)
        ELSE start

FindShortSuccessor(key) ==
    LET up == {i \in 1 .. Len(key) : key[i] # MaxByte}
    IN  IF up = {} THEN key ELSE Append(SubSeq(key, 1, F!Min(up) - 1), key[F!Min(up)] + 1)

-----------------------------------------------------------------------------
(* Internal keys *)

LessInternal(a, b) == Less(a.user, b.user) \/ (a.user = b.user /\ a.tag > b.tag)

\* A user key that became shorter and larger gets the first tag there is.
LOCAL Shorter(key, user) ==
    IF Len(user) < Len(key.user) /\ Less(key.user, user)
    THEN [user |-> user, tag |-> MaxTag]
    ELSE key

SeparatorInternal(start, limit) == Shorter(start, FindShortestSeparator(start.user, limit.user))
SuccessorInternal(key) == Shorter(key, FindShortSuccessor(key.user))
=============================================================================
