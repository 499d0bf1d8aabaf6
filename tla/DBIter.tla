------------------------------- MODULE DBIter -------------------------------
(***************************************************************************)
(* leveldb db/db_iter.cc: the user's iterator, which turns the internal    *)
(* entries (user key, sequence number, type) into the keys and values that *)
(* a snapshot shows, in both directions.                                   *)
(*                                                                         *)
(* The internal iterator is a cursor over all entries in internal order    *)
(* (modules MergingIterator and TwoLevelIterator).  Every call of it is a  *)
(* step, and between two steps the writer may add entries, newer than the  *)
(* snapshot, to the memtable that the cursor runs over.  The value of an   *)
(* entry is its sequence number.                                           *)
(***************************************************************************)
EXTENDS Integers, Sequences, FiniteSets, FiniteSetsExt

CONSTANTS
    MaxKey,     \* user keys are 1 .. MaxKey
    Old,        \* bound: entries before the iterator is made
    New         \* bound: entries written while it is used

IterAssumption == MaxKey \in Nat \ {0} /\ Old \in Nat /\ New \in Nat

UserKeys == 1 .. MaxKey
None == [key |-> 0, seq |-> 0, type |-> "none"]

VARIABLES
    entries,    \* all internal entries
    last,       \* the largest sequence number
    sequence,   \* sequence_: the snapshot
    iter,       \* iter_: an entry, or None when it is not Valid
    direction, valid,
    savedKey, savedValue,   \* saved_key_ (0 when cleared), saved_value_
    pc,         \* the loop the running call is in
    skipping,   \* FindNextUserEntry's argument
    valueType,  \* FindPrevUserEntry's local
    want        \* ghost: the user key that the running or last call should show, or 0

cursor == <<iter, direction, valid, savedKey, savedValue, pc, skipping, valueType>>
vars == <<entries, last, sequence, cursor, want>>

\* A history of puts and deletions, and a snapshot of it.
Init ==
    /\ \E h \in [1 .. Old -> UserKeys \X {"value", "deletion"}] :
        entries = {[key |-> h[i][1], seq |-> i, type |-> h[i][2]] : i \in 1 .. Old}
    /\ last = Old /\ sequence \in 0 .. Old
    /\ iter = None /\ direction = "forward" /\ valid = FALSE /\ savedKey = 0 /\ savedValue = 0
    /\ pc = "idle" /\ skipping = FALSE /\ valueType = "deletion" /\ want = 0

Less(a, b) == a.key < b.key \/ (a.key = b.key /\ a.seq > b.seq)
Least(S) == IF S = {} THEN None ELSE CHOOSE e \in S : \A f \in S : e = f \/ Less(e, f)
Greatest(S) == IF S = {} THEN None ELSE CHOOSE e \in S : \A f \in S : e = f \/ Less(f, e)

\* The internal iterator's Next and Prev.
After(e) == Least({f \in entries : Less(e, f)})
Before(e) == Greatest({f \in entries : Less(f, e)})

\* What the snapshot shows.
Newest(k) == Least({e \in entries : e.key = k /\ e.seq <= sequence})
Shown == {k \in UserKeys : Newest(k).type = "value"}
KeyAfter(k) == IF \E j \in Shown : j > k THEN Min({j \in Shown : j > k}) ELSE 0
KeyBefore(k) == IF \E j \in Shown : j < k THEN Max({j \in Shown : j < k}) ELSE 0

\* key() and value()
Key == IF direction = "forward" THEN iter.key ELSE savedKey
Value == IF direction = "forward" THEN iter.seq ELSE savedValue
-----------------------------------------------------------------------------
(* The calls; each leaves the iterator in one of the loops below. *)

Idle == pc = "idle"
Quiet == UNCHANGED <<entries, last, sequence>>

\* Calls that end at once because the internal iterator is at its end.
Invalid == valid' = FALSE /\ pc' = "idle"
Search(e, saved) ==
    /\ iter' = e /\ skipping' = FALSE /\ savedKey' = saved /\ savedValue' = 0 /\ direction' = "forward"
    /\ IF e = None THEN Invalid ELSE pc' = "next" /\ UNCHANGED valid
    /\ UNCHANGED valueType /\ Quiet

\* Seek looks for the newest entry of the target that the snapshot may show (it
\* leaves that internal key in saved_key_, which nothing compares: 0).
Seek(k) ==
    /\ Idle /\ want' = KeyAfter(k - 1)
    /\ Search(Least({e \in entries : ~Less(e, [key |-> k, seq |-> sequence])}), 0)
SeekToFirst == Idle /\ want' = KeyAfter(0) /\ Search(Least(entries), savedKey)

SeekToLast ==
    /\ Idle /\ want' = KeyBefore(MaxKey + 1)
    /\ direction' = "reverse" /\ savedValue' = 0 /\ iter' = Greatest(entries)
    /\ pc' = "prev" /\ valueType' = "deletion"
    /\ UNCHANGED <<valid, savedKey, skipping>> /\ Quiet

\* Next: from a reverse position, first into the entries of the current key.
NextEntry ==
    /\ Idle /\ valid /\ want' = KeyAfter(Key)
    /\ direction' = "forward" /\ skipping' = TRUE
    /\ IF direction = "reverse"
       THEN /\ iter' = IF iter = None THEN Least(entries) ELSE After(iter)
            /\ IF iter' = None THEN Invalid /\ savedKey' = 0
               ELSE pc' = "next" /\ UNCHANGED <<valid, savedKey>>
       ELSE savedKey' = iter.key /\ pc' = "next" /\ UNCHANGED <<iter, valid>>
    /\ UNCHANGED <<savedValue, valueType>> /\ Quiet

PrevEntry ==
    /\ Idle /\ valid /\ want' = KeyBefore(Key)
    /\ valueType' = "deletion"
    /\ IF direction = "forward" THEN savedKey' = iter.key /\ pc' = "turn"
                                ELSE pc' = "prev" /\ UNCHANGED savedKey
    /\ UNCHANGED <<iter, direction, valid, savedValue, skipping>> /\ Quiet
-----------------------------------------------------------------------------
(* The loops *)

\* Mutant: entries newer than the snapshot are shown.
FindNextAnySequence ==
    /\ pc = "next"
    /\ IF iter.type = "value" /\ ~(skipping /\ iter.key <= savedKey)
       THEN valid' = TRUE /\ savedKey' = 0 /\ pc' = "idle" /\ UNCHANGED <<iter, skipping>>
       ELSE /\ skipping' = (skipping \/ iter.type = "deletion")
            /\ iter' = After(iter)
            /\ IF iter' = None THEN Invalid /\ savedKey' = 0
               ELSE /\ savedKey' = IF iter.type = "deletion" THEN iter.key ELSE savedKey
                    /\ UNCHANGED <<valid, pc>>
    /\ UNCHANGED <<direction, savedValue, valueType, want>> /\ Quiet

\* Mutant: an entry that is not visible is not stepped over.
FindNextStays ==
    /\ pc = "next"
    /\ IF iter.seq <= sequence
       THEN IF iter.type = "value" THEN valid' = TRUE /\ pc' = "idle" /\ UNCHANGED iter
            ELSE iter' = After(iter) /\ IF iter' = None THEN Invalid ELSE UNCHANGED <<valid, pc>>
       ELSE UNCHANGED <<iter, valid, pc>>
    /\ UNCHANGED <<skipping, savedKey, direction, savedValue, valueType, want>> /\ Quiet

\* FindNextUserEntry: one entry and the internal iterator's Next.
FindNextUserEntry ==
    /\ pc = "next"
    /\ LET visible == iter.seq <= sequence
           deleted == visible /\ iter.type = "deletion"
       IN  IF visible /\ iter.type = "value" /\ ~(skipping /\ iter.key <= savedKey)
           THEN valid' = TRUE /\ savedKey' = 0 /\ pc' = "idle" /\ UNCHANGED <<iter, skipping>>
           ELSE /\ skipping' = (skipping \/ deleted)
                /\ iter' = After(iter)
                /\ IF iter' = None THEN Invalid /\ savedKey' = 0
                   ELSE /\ savedKey' = IF deleted THEN iter.key ELSE savedKey
                        /\ UNCHANGED <<valid, pc>>
    /\ UNCHANGED <<direction, savedValue, valueType, want>> /\ Quiet

\* Prev's loop that leaves the entries of the current key.
TurnBack ==
    /\ pc = "turn"
    /\ iter' = Before(iter)
    /\ IF iter' = None THEN Invalid /\ savedKey' = 0 /\ savedValue' = 0 /\ UNCHANGED direction
       ELSE /\ IF iter'.key < savedKey THEN direction' = "reverse" /\ pc' = "prev"
                                       ELSE UNCHANGED <<direction, pc>>
            /\ UNCHANGED <<valid, savedKey, savedValue>>
    /\ UNCHANGED <<skipping, valueType, want>> /\ Quiet

\* The end of FindPrevUserEntry.
PrevDone(type) ==
    IF type = "deletion"
    THEN valid' = FALSE /\ savedKey' = 0 /\ savedValue' = 0 /\ direction' = "forward" /\ pc' = "idle"
    ELSE valid' = TRUE /\ pc' = "idle" /\ UNCHANGED <<savedKey, savedValue, direction>>

\* FindPrevUserEntry: backwards through all entries of a key, the newest visible
\* one is the last; it stops at the first entry of an earlier key.
FindPrevUserEntry ==
    /\ pc = "prev"
    /\ LET visible == iter # None /\ iter.seq <= sequence IN
       IF iter = None \/ (visible /\ valueType # "deletion" /\ iter.key < savedKey)
       THEN PrevDone(valueType) /\ UNCHANGED <<iter, valueType>>
       ELSE /\ iter' = Before(iter)
            /\ IF visible
               THEN /\ valueType' = iter.type
                    /\ savedKey' = IF iter.type = "deletion" THEN 0 ELSE iter.key
                    /\ savedValue' = IF iter.type = "deletion" THEN 0 ELSE iter.seq
               ELSE UNCHANGED <<valueType, savedKey, savedValue>>
            /\ UNCHANGED <<valid, direction, pc>>
    /\ UNCHANGED <<skipping, want>> /\ Quiet

\* Another thread writes to the memtable under the iterator.
Write(k, type) ==
    /\ last < Old + New
    /\ last' = last + 1
    /\ entries' = entries \cup {[key |-> k, seq |-> last + 1, type |-> type]}
    /\ UNCHANGED <<sequence, cursor, want>>

Loops == FindNextUserEntry \/ TurnBack \/ FindPrevUserEntry
Next ==
    \/ SeekToFirst \/ SeekToLast \/ NextEntry \/ PrevEntry \/ \E k \in UserKeys : Seek(k)
    \/ Loops
    \/ \E k \in UserKeys, type \in {"value", "deletion"} : Write(k, type)

Spec == Init /\ [][Next]_vars /\ WF_vars(Loops)
-----------------------------------------------------------------------------
\* The iterator shows its snapshot: after any sequence of calls, in both
\* directions and while entries are added under it, it is at the key where a
\* cursor over the snapshot's keys would be, with the snapshot's value.
ShowsSnapshot ==
    Idle => /\ valid <=> want # 0
            /\ valid => Key = want /\ Value = Newest(want).seq

\* Every call returns.
CallsReturn == ~Idle ~> Idle
=============================================================================
