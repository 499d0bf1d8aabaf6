---------------------------- MODULE VersionEdit ----------------------------
(***************************************************************************)
(* leveldb db/version_edit.cc: the records of the descriptor file.         *)
(***************************************************************************)
EXTENDS Coding, SequencesExt

CONSTANTS
    Names,      \* comparator names and encoded internal keys: byte sequences
    Numbers,    \* file numbers, sizes and sequence numbers
    kNumLevels,
    Absent,     \* has_..._ is false
    MaxFields   \* bound: calls that set a field

EditAssumption ==
    /\ Names \subseteq Seq(Bytes)
    /\ Numbers \subseteq 0 .. Limit64 - 1
    /\ {kNumLevels, MaxFields} \subseteq Nat

VARIABLES
    edit,  \* the edit that is built
    calls  \* how many fields were set

editVars == <<edit, calls>>

Levels == 0 .. kNumLevels - 1

\* Clear() leaves compact_pointers_ as they are.
Clear(e) ==
    [e EXCEPT !.comparator = Absent, !.log = Absent, !.prevLog = Absent,
              !.nextFile = Absent, !.lastSequence = Absent,
              !.deleted = {}, !.new = <<>>]

NewEdit ==
    [comparator |-> Absent, log |-> Absent, prevLog |-> Absent, nextFile |-> Absent,
     lastSequence |-> Absent, pointers |-> <<>>, deleted |-> {}, new |-> <<>>]

-----------------------------------------------------------------------------
(* EncodeTo.                                                               *)

\* The fields that hold one number, with their tags, in the order written.
NumberTags == <<[field |-> "log", tag |-> 2], [field |-> "prevLog", tag |-> 9],
                [field |-> "nextFile", tag |-> 3], [field |-> "lastSequence", tag |-> 4]>>

PutComparator(e) ==
    IF e.comparator = Absent THEN <<>> ELSE <<1>> \o PutLengthPrefixedSlice(e.comparator)

PutNumber(e, t) == IF e[t.field] = Absent THEN <<>> ELSE <<t.tag>> \o PutVarint(e[t.field])

PutPointer(p) == <<5>> \o PutVarint(p.level) \o PutLengthPrefixedSlice(p.key)

\* Mutant: the number before the level.
PutNumberFirst(d) == <<6>> \o PutVarint(d.number) \o PutVarint(d.level)

PutDeleted(d) == <<6>> \o PutVarint(d.level) \o PutVarint(d.number)

PutNew(f) ==
    <<7>> \o PutVarint(f.level) \o PutVarint(f.number) \o PutVarint(f.size)
    \o PutLengthPrefixedSlice(f.smallest) \o PutLengthPrefixedSlice(f.largest)

\* std::set iterates by level, then by number.
Sorted(deleted) ==
    SetToSortSeq(deleted, LAMBDA a, b : a.level < b.level
                                        \/ (a.level = b.level /\ a.number < b.number))

Concat(s, Enc(_)) == FlattenSeq([i \in 1 .. Len(s) |-> Enc(s[i])])

EncodeTo(e) ==
    PutComparator(e)
    \o Concat(NumberTags, LAMBDA t : PutNumber(e, t))
    \o Concat(e.pointers, PutPointer)
    \o Concat(Sorted(e.deleted), PutDeleted)
    \o Concat(e.new, PutNew)

-----------------------------------------------------------------------------
(* DecodeFrom.  A field is parsed by readers that run one after the other  *)
(* and each take a value from the input.                                   *)

GetLevel(s) ==
    LET g == GetVarint32(s) IN IF g.ok /\ g.val < kNumLevels THEN g ELSE Bad

\* The readers of each tag.
Readers ==
    [t \in {1, 2, 3, 4, 5, 6, 7, 9} |->
        CASE t = 1 -> <<"slice">>
          [] t \in {2, 3, 4, 9} -> <<"number">>
          [] t = 5 -> <<"level", "slice">>
          [] t = 6 -> <<"level", "number">>
          [] t = 7 -> <<"level", "number", "number", "slice", "slice">>]

Read(kind, s) ==
    CASE kind = "slice" -> GetLengthPrefixedSlice(s)
      [] kind = "number" -> GetVarint64(s)
      [] kind = "level" -> GetLevel(s)

\* The values of the readers ks, in order.
ReadAll(ks, s) ==
    LET step(g, k) == IF ~g.ok THEN Bad
                      ELSE LET r == Read(k, g.rest)
                           IN  IF r.ok THEN Got(Append(g.val, r.val), r.rest) ELSE Bad
    IN  FoldLeft(step, Got(<<>>, s), ks)

SetField(e, t, v) ==
    CASE t = 1 -> [e EXCEPT !.comparator = v[1]]
      [] t = 2 -> [e EXCEPT !.log = v[1]]
      [] t = 3 -> [e EXCEPT !.nextFile = v[1]]
      [] t = 4 -> [e EXCEPT !.lastSequence = v[1]]
      [] t = 9 -> [e EXCEPT !.prevLog = v[1]]
      [] t = 5 -> [e EXCEPT !.pointers = Append(@, [level |-> v[1], key |-> v[2]])]
      [] t = 6 -> [e EXCEPT !.deleted = @ \cup {[level |-> v[1], number |-> v[2]]}]
      [] t = 7 -> [e EXCEPT !.new = Append(@, [level |-> v[1], number |-> v[2], size |-> v[3],
                                               smallest |-> v[4], largest |-> v[5]])]

\* The loop of DecodeFrom: ok is msg == NULL and nothing left.
RECURSIVE DecodeFields(_, _)
DecodeFields(e, s) ==
    LET tag == GetVarint32(s)
    IN  IF ~tag.ok THEN [ok |-> s = <<>>, edit |-> e]
        ELSE IF tag.val \notin DOMAIN Readers THEN [ok |-> FALSE, edit |-> e]
        ELSE LET g == ReadAll(Readers[tag.val], tag.rest)
             IN  IF ~g.ok THEN [ok |-> FALSE, edit |-> e]
                 ELSE DecodeFields(SetField(e, tag.val, g.val), g.rest)

DecodeFrom(e, src) == DecodeFields(Clear(e), src)

-----------------------------------------------------------------------------
(* Building an edit: the setters of version_edit.h.                        *)

Set(e) ==
    /\ calls < MaxFields
    /\ edit' = e
    /\ calls' = calls + 1

SetComparatorName == \E n \in Names : Set([edit EXCEPT !.comparator = n])
SetNumber(f) == \E n \in Numbers : Set([edit EXCEPT ![f] = n])
SetCompactPointer ==
    \E l \in Levels, k \in Names :
       Set([edit EXCEPT !.pointers = Append(@, [level |-> l, key |-> k])])
DeleteFile ==
    \E l \in Levels, n \in Numbers :
       Set([edit EXCEPT !.deleted = @ \cup {[level |-> l, number |-> n]}])
AddFile ==
    \E l \in Levels, n, z \in Numbers, a, b \in Names :
       Set([edit EXCEPT !.new = Append(@, [level |-> l, number |-> n, size |-> z,
                                           smallest |-> a, largest |-> b])])

EditInit == edit = NewEdit /\ calls = 0

EditNext ==
    \/ SetComparatorName
    \/ SetNumber("log")
    \/ SetNumber("prevLog")
    \/ SetNumber("nextFile")
    \/ SetNumber("lastSequence")
    \/ SetCompactPointer
    \/ DeleteFile
    \/ AddFile

EditSpec == EditInit /\ [][EditNext]_editVars

-----------------------------------------------------------------------------
(* Properties.                                                             *)

\* What the descriptor stores is what recovery reads: every edit decodes to
\* itself (lines 41-86 against 109-210).
DecodesBack == DecodeFrom(NewEdit, EncodeTo(edit)) = [ok |-> TRUE, edit |-> edit]

\* A record that lost its end is refused, or is the record of an edit with
\* fewer fields: no field is made up from half of one.
CutIsAnEdit ==
    LET all == EncodeTo(edit)
    IN  \A n \in 0 .. Len(all) :
           LET d == DecodeFrom(NewEdit, SubSeq(all, 1, n))
           IN  d.ok => EncodeTo(d.edit) = SubSeq(all, 1, n)

\* Decoding into an edit that was used before leaves nothing of it but its
\* compaction pointers, which Clear() does not clear (lines 26-39, 110).
ReusedKeepsPointersOnly ==
    DecodeFrom(edit, <<>>) = [ok |-> TRUE, edit |-> [NewEdit EXCEPT !.pointers = edit.pointers]]
=============================================================================
