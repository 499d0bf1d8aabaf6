------------------------------- MODULE Coding -------------------------------
(***************************************************************************)
(* leveldb util/coding.cc: varints and length-prefixed slices.             *)
(*                                                                         *)
(* A byte carries one bit that says "more follows" and a digit 0 .. Base-1 *)
(* (128 in the code).  A uint32_t is a number below Limit32, a uint64_t    *)
(* one below Limit64; a varint has at most Digits32 or Digits64 bytes, and *)
(* the last digit may not fit: the shift drops what is too large.          *)
(***************************************************************************)
EXTENDS Integers, Sequences

CONSTANTS Base, Digits32, Limit32, Digits64, Limit64

CodingAssumption ==
    /\ {Base, Digits32, Limit32, Digits64, Limit64} \subseteq Nat \ {0, 1}
    /\ Limit32 \in Base^(Digits32 - 1) + 1 .. Base^Digits32
    /\ Limit64 \in Base^(Digits64 - 1) + 1 .. Base^Digits64

Bytes == 0 .. 2 * Base - 1

Drop(s, n) == SubSeq(s, n + 1, Len(s))

VarintLength(v) == CHOOSE n \in 1 .. Digits64 : v < Base^n /\ (n = 1 \/ v >= Base^(n - 1))

\* EncodeVarint32 and EncodeVarint64 write the same bytes.
PutVarint(v) ==
    [i \in 1 .. VarintLength(v) |->
        ((v \div Base^(i - 1)) % Base) + IF i = VarintLength(v) THEN 0 ELSE Base]

PutLengthPrefixedSlice(s) == PutVarint(Len(s)) \o s

\* A reader's answer: whether it succeeded, what it read and what is left.
Got(v, rest) == [ok |-> TRUE, val |-> v, rest |-> rest]
Bad == [ok |-> FALSE]

\* The value of the first n bytes.
Digits(s, n) ==
    LET sum[i \in 0 .. n] == IF i = 0 THEN 0 ELSE sum[i - 1] + (s[i] % Base) * Base^(i - 1)
    IN  sum[n]

GetVarint(s, digits, limit) ==
    LET ends == {i \in 1 .. digits : i <= Len(s) /\ s[i] < Base}
    IN  IF ends = {} THEN Bad
        ELSE LET n == CHOOSE i \in ends : \A j \in ends : i <= j
             IN  Got(Digits(s, n) % limit, Drop(s, n))

GetVarint32(s) == GetVarint(s, Digits32, Limit32)
GetVarint64(s) == GetVarint(s, Digits64, Limit64)

GetLengthPrefixedSlice(s) ==
    LET g == GetVarint32(s)
    IN  IF ~g.ok THEN Bad
        ELSE IF Len(g.rest) < g.val THEN Bad
        ELSE Got(SubSeq(g.rest, 1, g.val), Drop(g.rest, g.val))
=============================================================================
