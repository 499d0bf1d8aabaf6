----------------------------- MODULE WriteBatch -----------------------------
(***************************************************************************)
(* leveldb db/write_batch.cc and db/memtable.cc: a batch is built as the   *)
(* string that goes to the log, batches are joined, and a batch, as built  *)
(* or as read back from a log, is inserted into the memtable.              *)
(***************************************************************************)
EXTENDS Coding

CONSTANTS
    Keys, Values, \* sequences of bytes
    MaxOps,       \* bound: operations in the two batches
    MaxBatches    \* bound: batches inserted

BatchAssumption ==
    /\ Keys \cup Values \subseteq Seq(Bytes)
    /\ {MaxOps, MaxBatches} \subseteq Nat

LOCAL S == INSTANCE SequencesExt

kTypeDeletion == 0
kTypeValue == 1

VARIABLES
    batch,   \* the batch to be written: count and records (rep_)
    other,   \* a batch of another writer, joined by BuildBatchGroup
    mem,     \* the memtable: a set of entries
    lastSeq, \* the last sequence number that was used
    ops,     \* history: the operations of batch
    others,  \* history: the operations of other
    done,    \* history: the operations that were inserted, by sequence number
    inserts  \* how many batches were inserted

batchVars == <<batch, other, mem, lastSeq, ops, others, done, inserts>>

\* An operation as the user meant it.
Op(type, key, value) == [type |-> type, key |-> key, value |-> value]

Clear == [count |-> 0, rep |-> <<>>]

BatchInit ==
    /\ batch = Clear
    /\ other = Clear
    /\ mem = {}
    /\ lastSeq = 0
    /\ ops = <<>>
    /\ others = <<>>
    /\ done = <<>>
    /\ inserts = 0

-----------------------------------------------------------------------------
(* Building.                                                               *)

Put(b, key, value) ==
    [count |-> b.count + 1,
     rep |-> b.rep \o <<kTypeValue>> \o PutLengthPrefixedSlice(key)
                   \o PutLengthPrefixedSlice(value)]

Delete(b, key) ==
    [count |-> b.count + 1, rep |-> b.rep \o <<kTypeDeletion>> \o PutLengthPrefixedSlice(key)]

AppendBatch(dst, src) == [count |-> dst.count + src.count, rep |-> dst.rep \o src.rep]

-----------------------------------------------------------------------------
(* Reading.  Iterate calls the handler as it goes: on a string that does   *)
(* not parse, what came before was handled.                                *)

\* One record: its operation and what is left.
Record(s) ==
    LET k == GetLengthPrefixedSlice(Tail(s))
    IN  CASE s[1] = kTypeValue /\ k.ok ->
               LET v == GetLengthPrefixedSlice(k.rest)
               IN  IF v.ok THEN Got(Op(kTypeValue, k.val, v.val), v.rest) ELSE Bad
          [] s[1] = kTypeDeletion /\ k.ok -> Got(Op(kTypeDeletion, k.val, <<>>), k.rest)
          [] OTHER -> Bad

\* The records up to the first that is bad, and what is left.
RECURSIVE Records(_)
Records(s) ==
    LET r == IF s = <<>> THEN Bad ELSE Record(s)
    IN  IF ~r.ok THEN [ops |-> <<>>, rest |-> s]
        ELSE LET more == Records(r.rest) IN [more EXCEPT !.ops = <<r.val>> \o @]

RightCount(b, found) == found = b.count

Iterate(b) ==
    LET r == Records(b.rep)
    IN  [ops |-> r.ops, ok |-> r.rest = <<>> /\ RightCount(b, Len(r.ops))]

\* Mutant: a deletion takes no sequence number.
NumberPuts(os, first) ==
    {[key |-> os[i].key, seq |-> first + Len(SelectSeq(SubSeq(os, 1, i - 1),
                                            LAMBDA o : o.type = kTypeValue)),
      type |-> os[i].type, value |-> os[i].value] : i \in 1 .. Len(os)}

\* MemTableInserter with MemTable::Add.
InsertInto(os, first) ==
    {[key |-> os[i].key, seq |-> first + i - 1, type |-> os[i].type, value |-> os[i].value] :
        i \in 1 .. Len(os)}

\* The order of the skip list: user key, then newest first.
KeyLess(a, b) ==
    \E n \in 0 .. Len(a) :
       /\ n < Len(b)
       /\ SubSeq(a, 1, n) = SubSeq(b, 1, n)
       /\ n = Len(a) \/ a[n + 1] < b[n + 1]
EntryLess(a, b) ==
    KeyLess(a.key, b.key) \/ (a.key = b.key /\ (a.seq > b.seq \/ (a.seq = b.seq /\ a.type > b.type)))

NotFound == [found |-> FALSE]
Found(e) == [found |-> TRUE, type |-> e.type, value |-> e.value]

\* MemTable::Get for a LookupKey: Seek to the first entry not before it, which
\* may be one of the next user key.
Get(key, snapshot) ==
    LET target == [key |-> key, seq |-> snapshot, type |-> kTypeValue]
        from == {e \in mem : ~EntryLess(e, target)}
    IN  IF from = {} THEN NotFound
        ELSE LET e == CHOOSE x \in from : \A y \in from : x = y \/ EntryLess(x, y)
             IN  IF e.key = key THEN Found(e) ELSE NotFound

-----------------------------------------------------------------------------
(* Steps.                                                                  *)

Room == Len(ops) + Len(others) + Len(done) < MaxOps

UserPut(key, value) ==
    /\ Room
    /\ batch' = Put(batch, key, value)
    /\ ops' = Append(ops, Op(kTypeValue, key, value))
    /\ UNCHANGED <<other, mem, lastSeq, others, done, inserts>>

UserDelete(key) ==
    /\ Room
    /\ batch' = Delete(batch, key)
    /\ ops' = Append(ops, Op(kTypeDeletion, key, <<>>))
    /\ UNCHANGED <<other, mem, lastSeq, others, done, inserts>>

\* Another writer has a batch of the same kind.
Swap ==
    /\ ops # others
    /\ batch' = other
    /\ other' = batch
    /\ ops' = others
    /\ others' = ops
    /\ UNCHANGED <<mem, lastSeq, done, inserts>>

\* DBImpl::BuildBatchGroup joins the batches.
Join ==
    /\ others # <<>>
    /\ batch' = AppendBatch(batch, other)
    /\ ops' = ops \o others
    /\ other' = Clear
    /\ others' = <<>>
    /\ UNCHANGED <<mem, lastSeq, done, inserts>>

\* DBImpl::Write, or a log that is read back: SetSequence and InsertInto.
Insert ==
    /\ inserts < MaxBatches
    /\ ops # <<>>
    /\ mem' = mem \cup InsertInto(Iterate(batch).ops, lastSeq + 1)
    /\ lastSeq' = lastSeq + batch.count
    /\ done' = done \o ops
    /\ batch' = Clear
    /\ ops' = <<>>
    /\ inserts' = inserts + 1
    /\ UNCHANGED <<other, others>>

BatchNext ==
    \/ \E key \in Keys, value \in Values : UserPut(key, value)
    \/ \E key \in Keys : UserDelete(key)
    \/ Swap
    \/ Join
    \/ Insert

BatchSpec == BatchInit /\ [][BatchNext]_batchVars

-----------------------------------------------------------------------------
(* Properties.                                                             *)

\* A batch reads back as the operations that were put into it, in order and
\* with the right count, however it was joined (lines 42-80, 98-109, 141-145).
BatchReadsBack == Iterate(batch) = [ops |-> ops, ok |-> TRUE]

\* A batch that lost its end never passes for a smaller one: Iterate handles
\* some first operations and reports a corruption (lines 44-79).
CutIsNoticed ==
    \A n \in 0 .. Len(batch.rep) - 1 :
       LET r == Iterate([batch EXCEPT !.rep = SubSeq(@, 1, n)])
       IN  ~r.ok /\ S!IsPrefix(r.ops, ops)

\* A read at a snapshot sees, of every key, the last operation up to it:
\* sequence numbers, the order of the memtable and the seek agree
\* (write_batch.cc 117-133, memtable.cc 82-143).
ReadsNewest ==
    \A key \in Keys, snapshot \in 0 .. lastSeq :
       LET before == {i \in 1 .. snapshot : i <= Len(done) /\ done[i].key = key}
       IN  Get(key, snapshot) =
             IF before = {} THEN NotFound
             ELSE Found(done[CHOOSE i \in before : \A j \in before : j <= i])
=============================================================================
