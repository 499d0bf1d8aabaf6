-------------------------------- MODULE LSM --------------------------------
(***************************************************************************)
(* leveldb db/version_set.cc and the compactions of db/db_impl.cc: the     *)
(* levels of sorted tables, which files a compaction takes, what it drops, *)
(* where a memtable goes, and how Get searches all of it.                  *)
(*                                                                         *)
(* An entry is a user key, a sequence number and a type; entries are       *)
(* ordered by key and then by decreasing sequence number.  A file is a     *)
(* number and its entries in that order; its size is their number.  A      *)
(* compaction runs without the mutex: writes, snapshots and the flush of   *)
(* imm_ happen between its start and its end.  Which file an automatic     *)
(* compaction starts from is left open: the size rule rotates through a    *)
(* level, the seek rule takes whatever file reads have charged.            *)
(***************************************************************************)
EXTENDS Integers, Sequences, FiniteSets, FiniteSetsExt, Functions

CONSTANTS
    MaxKey,         \* user keys are 1 .. MaxKey
    Types,          \* the ValueTypes written
    NumLevels,      \* config::kNumLevels
    MaxMemLevel,    \* config::kMaxMemCompactLevel
    MaxFileSize,    \* MaxFileSizeForLevel
    GrandLimit,     \* MaxGrandParentOverlapBytes
    ExpandLimit,    \* ExpandedCompactionByteSizeLimit
    MaxWrites,      \* bound: updates written
    MaxSnapshots,   \* bound: snapshots held at a time
    MaxFiles,       \* bound: file numbers given out
    Manual          \* CompactRange may be called

ASSUME LSMAssumption ==
    /\ MaxKey \in Nat \ {0} /\ NumLevels \in Nat /\ NumLevels > 2
    /\ MaxMemLevel \in 0 .. NumLevels - 1 /\ MaxFileSize \in Nat \ {0}
    /\ GrandLimit \in Nat /\ ExpandLimit \in Nat /\ MaxWrites \in Nat
    /\ Types \subseteq {"value", "deletion"}
    /\ MaxSnapshots \in Nat /\ MaxFiles \in Nat \ {0} /\ Manual \in BOOLEAN

Keys == 1 .. MaxKey
Levels == 0 .. NumLevels - 1

VARIABLES
    history,  \* every update, at its sequence number
    mem, imm, \* memtables: sets of entries
    files,    \* the current Version: the set of files of each level
    snaps,    \* sequence numbers of the snapshots (those alike count once)
    comp,     \* the running compaction
    nextFile  \* next_file_number_

vars == <<history, mem, imm, files, snaps, comp, nextFile>>

\* InternalKeyComparator: increasing user key, decreasing sequence number.
Less(a, b) == a.key < b.key \/ (a.key = b.key /\ a.seq > b.seq)
Sorted(S) ==
    [i \in 1 .. Cardinality(S) |-> CHOOSE x \in S : Cardinality({y \in S : Less(y, x)}) = i - 1]
Smallest(f) == f.data[1]
Largest(f) == f.data[Len(f.data)]
TotalFileSize(F) == SumFunctionOnSet([f \in F |-> Len(f.data)], F)

\* files_[level] in order (BySmallestKey).
Before(f, g) == Less(Smallest(f), Smallest(g)) \/ (Smallest(f) = Smallest(g) /\ f.num < g.num)
InOrder(F) ==
    [i \in 1 .. Cardinality(F) |-> CHOOSE f \in F : Cardinality({g \in F : Before(g, f)}) = i - 1]

NoCompaction == [on |-> FALSE]

Init ==
    /\ history = <<>> /\ mem = {} /\ imm = {} /\ files = [l \in Levels |-> {}]
    /\ snaps = {} /\ comp = NoCompaction /\ nextFile = 1

LastSequence == Len(history)
-----------------------------------------------------------------------------
(* Files and ranges of user keys *)

\* The index (from 0) of the first file whose largest key is at or after t.
FindFile(fs, t) ==
    LET search[x \in (0 .. Len(fs)) \X (0 .. Len(fs))] ==
            LET left == x[1]
                right == x[2]
                mid == (left + right) \div 2
            IN  IF left >= right THEN right
                ELSE IF Less(Largest(fs[mid + 1]), t) THEN search[<<mid + 1, right>>]
                ELSE search[<<left, mid>>]
    IN  search[<<0, Len(fs)>>]

Overlaps(f, b, e) == Largest(f).key >= b /\ Smallest(f).key <= e

\* OverlapInLevel, SomeFileOverlapsRange: a binary search below level 0.
OverlapInLevel(level, b, e) ==
    IF level = 0 THEN \E f \in files[0] : Overlaps(f, b, e)
    ELSE LET fs == InOrder(files[level])
             i == FindFile(fs, [key |-> b, seq |-> MaxWrites + 1])
         IN  i < Len(fs) /\ Smallest(fs[i + 1]).key <= e

\* The files of F that overlap the range r, and r grown to the ends of those.
Hit(F, r) == {f \in F : Overlaps(f, r[1], r[2])}
Wider(F, r) == <<Min({r[1]} \cup {Smallest(f).key : f \in Hit(F, r)}),
                 Max({r[2]} \cup {Largest(f).key : f \in Hit(F, r)})>>

\* GetOverlappingInputs for the user keys b .. e; in level 0 the range grows
\* with every file found, except at an end that is not bounded.
GetOverlappingInputs(level, b, e) ==
    LET F == files[level]
        grow[n \in 0 .. Cardinality(F)] == IF n = 0 THEN <<b, e>> ELSE Wider(F, grow[n - 1])
    IN  IF level = 0 THEN Hit(F, grow[Cardinality(F)]) ELSE Hit(F, <<b, e>>)

\* GetRange, of user keys (all that the callers use of the ends).
RangeOf(F) == <<Min({Smallest(f).key : f \in F}), Max({Largest(f).key : f \in F})>>

\* Mutant: the level that is chosen is not looked at.
PickLevelTooDeep(b, e) ==
    Max({l \in 0 .. MaxMemLevel : \A m \in 0 .. l - 1 : ~OverlapInLevel(m, b, e)})

\* The level for a memtable with the keys b .. e: as deep as nothing overlaps
\* it and the level below the next one has little under it.
PickLevelForMemTableOutput(b, e) ==
    LET ok(l) == /\ ~OverlapInLevel(l, b, e)
                 /\ l + 1 \in Levels => TotalFileSize(GetOverlappingInputs(l + 1, b, e)) <= GrandLimit
    IN  IF OverlapInLevel(0, b, e) THEN 0
        ELSE Max({l \in 0 .. MaxMemLevel : \A m \in 1 .. l : ok(m)})

\* VersionSet::Builder: the version after an edit that deletes file numbers
\* and adds files, both with their levels.
ApplyEdit(deleted, new) ==
    [l \in Levels |-> {f \in files[l] : <<l, f.num>> \notin deleted}
                      \cup {x[2] : x \in {y \in new : y[1] = l}}]
-----------------------------------------------------------------------------
(* Writing, snapshots and flushing *)

Write(k, t) ==
    /\ Len(history) < MaxWrites
    /\ history' = Append(history, [key |-> k, type |-> t])
    /\ mem' = mem \cup {[key |-> k, seq |-> Len(history) + 1, type |-> t]}
    /\ UNCHANGED <<imm, files, snaps, comp, nextFile>>

GetSnapshot ==
    /\ Cardinality(snaps) < MaxSnapshots /\ LastSequence > 0
    /\ snaps' = snaps \cup {LastSequence}
    /\ UNCHANGED <<history, mem, imm, files, comp, nextFile>>

ReleaseSnapshot(s) ==
    /\ snaps' = snaps \ {s} /\ UNCHANGED <<history, mem, imm, files, comp, nextFile>>

SwitchMemTable ==
    /\ mem # {} /\ imm = {} /\ imm' = mem /\ mem' = {}
    /\ UNCHANGED <<history, files, snaps, comp, nextFile>>

\* CompactMemTable, alone or in the middle of a compaction.
CompactMemTable ==
    LET data == Sorted(imm)
        level == PickLevelForMemTableOutput(data[1].key, data[Len(data)].key)
    IN  /\ imm # {} /\ nextFile < MaxFiles
        /\ files' = ApplyEdit({}, {<<level, [num |-> nextFile, data |-> data]>>})
        /\ imm' = {} /\ nextFile' = nextFile + 1
        /\ UNCHANGED <<history, mem, snaps, comp>>
-----------------------------------------------------------------------------
(* Compactions *)

\* smallest_snapshot of the compaction that starts now.
OldestSnapshot == IF snaps = {} THEN LastSequence ELSE Min(snaps)

\* SetupOtherInputs: the files of the next level, more files of this level
\* when that adds none to the next, and the grandparents.
SetupOtherInputs(level, in0) ==
    LET r0 == RangeOf(in0)
        in1 == GetOverlappingInputs(level + 1, r0[1], r0[2])
        all == RangeOf(in0 \cup in1)
        wide0 == GetOverlappingInputs(level, all[1], all[2])
        wide == RangeOf(wide0)
        wide1 == GetOverlappingInputs(level + 1, wide[1], wide[2])
        expand == /\ in1 # {} /\ Cardinality(wide0) > Cardinality(in0)
                  /\ TotalFileSize(in1) + TotalFileSize(wide0) < ExpandLimit
                  /\ Cardinality(wide1) = Cardinality(in1)
        i0 == IF expand THEN wide0 ELSE in0
        i1 == IF expand THEN wide1 ELSE in1
        r == RangeOf(i0 \cup i1)
    IN  [on |-> TRUE, level |-> level, in0 |-> i0, in1 |-> i1,
         grand |-> IF level + 2 \in Levels THEN GetOverlappingInputs(level + 2, r[1], r[2]) ELSE {},
         base |-> files, smallestSnapshot |-> OldestSnapshot]

AddInputDeletions(c) ==
    {<<c.level, f.num>> : f \in c.in0} \cup {<<c.level + 1, f.num>> : f \in c.in1}

\* One file, nothing to merge it with, and little below it.
IsTrivialMove(c) ==
    Cardinality(c.in0) = 1 /\ c.in1 = {} /\ TotalFileSize(c.grand) <= GrandLimit

\* PickCompaction from file f: level-0 files that overlap go together.
PickCompaction(level, f) ==
    LET in0 == IF level = 0 THEN GetOverlappingInputs(0, Smallest(f).key, Largest(f).key) ELSE {f}
        c == SetupOtherInputs(level, in0)
    IN  /\ ~comp.on /\ imm = {}
        /\ IF IsTrivialMove(c)
           THEN /\ files' = ApplyEdit(AddInputDeletions(c), {<<level + 1, g>> : g \in c.in0})
                /\ UNCHANGED comp
           ELSE comp' = c /\ UNCHANGED files
        /\ UNCHANGED <<history, mem, imm, snaps, nextFile>>

\* CompactRange(level, b, e): not too much at a time, except in level 0.
CompactRange(level, b, e) ==
    LET found == InOrder(GetOverlappingInputs(level, b, e))
        upTo(i) == TotalFileSize({found[j] : j \in 1 .. i})
        cut == IF level = 0 THEN found
               ELSE LET full == {i \in DOMAIN found : upTo(i) >= MaxFileSize} IN
                    IF full = {} THEN found ELSE SubSeq(found, 1, Min(full))
    IN  /\ Manual /\ ~comp.on /\ imm = {} /\ found # <<>>
        /\ comp' = SetupOtherInputs(level, Range(cut))
        /\ UNCHANGED <<history, mem, imm, files, snaps, nextFile>>

\* IsBaseLevelForKey: no file below the output level has k in its range.
IsBaseLevelForKey(c, k) ==
    \A l \in {x \in Levels : x >= c.level + 2} : \A f \in c.base[l] : ~Overlaps(f, k, k)

\* The loop of DoCompactionWork: one entry e after the other.  st.open says
\* that the last output file is still being built.
ShouldStopBefore(c, st, e) ==
    LET g == InOrder(c.grand)
        passed == {i \in DOMAIN g : i > st.grand /\ \A j \in st.grand + 1 .. i : Less(Largest(g[j]), e)}
        bytes == st.overlap + (IF st.seen THEN SumFunctionOnSet([i \in passed |-> Len(g[i].data)], passed) ELSE 0)
    IN  [stop |-> bytes > GrandLimit, overlap |-> IF bytes > GrandLimit THEN 0 ELSE bytes,
         grand |-> st.grand + Cardinality(passed)]

\* Mutant: snapshots do not count.
HiddenNow(c, last, e) == last # 0 /\ last <= LastSequence

\* Rule (A): a newer entry of the key is visible to every snapshot.
Hidden(c, last, e) == last # 0 /\ last <= c.smallestSnapshot

Drop(c, st, e) ==
    LET last == IF st.key = e.key THEN st.last ELSE 0 IN
    \/ Hidden(c, last, e)
    \/ e.type = "deletion" /\ e.seq <= c.smallestSnapshot /\ IsBaseLevelForKey(c, e.key)

CompactEntry(c, st, e) ==
    LET s == ShouldStopBefore(c, st, e)
        open == st.open /\ ~s.stop
        outs == IF Drop(c, st, e) THEN st.outs
                ELSE IF open THEN [st.outs EXCEPT ![Len(st.outs)] = Append(@, e)]
                ELSE Append(st.outs, <<e>>)
    IN  [key |-> e.key, last |-> e.seq, seen |-> TRUE, overlap |-> s.overlap, grand |-> s.grand,
         outs |-> outs,
         open |-> IF Drop(c, st, e) THEN open ELSE Len(outs[Len(outs)]) < MaxFileSize]

\* MakeInputIterator over all inputs, and the output files it makes.
CompactionOutputs(c) ==
    LET input == Sorted(UNION {Range(f.data) : f \in c.in0 \cup c.in1})
        start == [key |-> 0, last |-> 0, seen |-> FALSE, overlap |-> 0, grand |-> 0,
                  outs |-> <<>>, open |-> FALSE]
        loop[i \in 0 .. Len(input)] == IF i = 0 THEN start ELSE CompactEntry(c, loop[i - 1], input[i])
    IN  loop[Len(input)].outs

\* InstallCompactionResults into the version as it is now.
FinishCompaction ==
    LET outs == CompactionOutputs(comp) IN
    /\ comp.on /\ nextFile + Len(outs) <= MaxFiles
    /\ files' = ApplyEdit(AddInputDeletions(comp),
         {<<comp.level + 1, [num |-> nextFile + i - 1, data |-> outs[i]]>> : i \in DOMAIN outs})
    /\ nextFile' = nextFile + Len(outs) /\ comp' = NoCompaction
    /\ UNCHANGED <<history, mem, imm, snaps>>

Next ==
    \/ \E k \in Keys, t \in Types : Write(k, t)
    \/ GetSnapshot \/ \E s \in snaps : ReleaseSnapshot(s)
    \/ SwitchMemTable \/ CompactMemTable
    \/ \E l \in 0 .. NumLevels - 2 : \E f \in files[l] : PickCompaction(l, f)
    \/ \E l \in 0 .. NumLevels - 2, b, e \in Keys : CompactRange(l, b, e)
    \/ FinishCompaction

Spec == Init /\ [][Next]_vars
-----------------------------------------------------------------------------
(* DBImpl::Get and Version::Get *)

\* The entry a table, or a memtable, gives for the key and snapshot: the
\* first one at or after them, if its user key is the one sought.
SeekIn(S, k, s) ==
    LET after == {e \in S : ~Less(e, [key |-> k, seq |-> s])} IN
    {e \in after : e.key = k /\ \A x \in after : ~Less(x, e)}

\* The files of a level that Version::Get looks into.
FilesToSearch(l, k, s) ==
    IF l = 0 THEN {f \in files[0] : Overlaps(f, k, k)}
    ELSE LET fs == InOrder(files[l])
             i == FindFile(fs, [key |-> k, seq |-> s])
         IN  IF i < Len(fs) /\ Smallest(fs[i + 1]).key <= k THEN {fs[i + 1]} ELSE {}

\* Where Get looks, and in which order: the memtables, level 0 from the newest
\* file on, one file of each level below.
Places(k, s) ==
    {[at |-> <<-2, 0>>, data |-> mem], [at |-> <<-1, 0>>, data |-> imm]}
    \cup UNION {{[at |-> <<l, -f.num>>, data |-> Range(f.data)] : f \in FilesToSearch(l, k, s)}
                : l \in Levels}
Earlier(p, q) == p.at[1] < q.at[1] \/ (p.at[1] = q.at[1] /\ p.at[2] < q.at[2])

\* The sequence number of the value found, 0 for NotFound.
Get(k, s) ==
    LET found == {p \in Places(k, s) : SeekIn(p.data, k, s) # {}} IN
    IF found = {} THEN 0
    ELSE LET first == CHOOSE p \in found : \A q \in found \ {p} : Earlier(p, q)
             e == CHOOSE x \in SeekIn(first.data, k, s) : TRUE
         IN  IF e.type = "value" THEN e.seq ELSE 0

Reference(k, s) ==
    LET at == {i \in 1 .. s : history[i].key = k} IN
    IF at = {} THEN 0 ELSE IF history[Max(at)].type = "value" THEN Max(at) ELSE 0
-----------------------------------------------------------------------------
\* "We are guaranteed that if we find data in an smaller level, later levels
\* are irrelevant" (version_set.cc:346): Get returns, now and for every
\* snapshot, what the last update of the key before it wrote.
ReadsLatest == \A k \in Keys : \A s \in snaps \cup {LastSequence} : Get(k, s) = Reference(k, s)

\* "Must not overlap" (version_set.cc:765): the files of a level below 0 are
\* disjoint, and no file number is used twice.
LevelsDisjoint ==
    /\ \A l \in Levels \ {0} : \A f, g \in files[l] :
          f # g => Less(Largest(f), Smallest(g)) \/ Less(Largest(g), Smallest(f))
    /\ \A l, m \in Levels : \A f \in files[l], g \in files[m] : f.num = g.num => l = m /\ f = g

\* Entries and memtables are typed, and a running compaction's inputs are
\* still in the version that will lose them.
LSMTypeOK ==
    /\ snaps \subseteq 1 .. LastSequence /\ nextFile \in 1 .. MaxFiles
    /\ \A l \in Levels : \A f \in files[l] :
          f.data # <<>> /\ \A e \in Range(f.data) : e.seq \in 1 .. LastSequence
    /\ comp.on => comp.in0 \subseteq files[comp.level] /\ comp.in1 \subseteq files[comp.level + 1]

\* Every version is well formed: typed, and its levels below 0 are disjoint.
VersionWellFormed == LSMTypeOK /\ LevelsDisjoint
=============================================================================
